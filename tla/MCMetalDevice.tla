---------------------------- MODULE MCMetalDevice ---------------------------
(* Instances of MetalDevice for TLC: threads, buffers and slots are interchangeable. *)
EXTENDS MetalDevice

CONSTANTS t1, t2, b1, b2, b3, s1, s2, s3

TwoThreads == {t1, t2}
ThreeBuffers == {b1, b2, b3}
ThreeSlots == {s1, s2, s3}
Symmetry == Permutations(TwoThreads) \cup Permutations(ThreeBuffers) \cup Permutations(ThreeSlots)
=============================================================================
