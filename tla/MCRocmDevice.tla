---------------------------- MODULE MCRocmDevice ----------------------------
(* Instances of RocmDevice for TLC: the threads and the handles are interchangeable. *)
EXTENDS RocmDevice, TLC

CONSTANTS t1, t2, h1, h2, h3

TwoThreads == {t1, t2}
ThreeHandles == {h1, h2, h3}
Symmetry == Permutations(TwoThreads) \cup Permutations(ThreeHandles)
=============================================================================
