--------------------------- MODULE MCKernelCache ---------------------------
(* Instances of KernelCache for TLC.                                        *)
EXTENDS KernelCache, TLC

Symmetry == Permutations(Procs) \cup Permutations(Texts)
=============================================================================
