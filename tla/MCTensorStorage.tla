-------------------------- MODULE MCTensorStorage --------------------------
(* Instances of TensorStorage for TLC.                                      *)
EXTENDS TensorStorage, TLC

\* Two storages of two cells: a and b are whole tensors, v is a broadcast view
\* of the second element of a, w the first of b.
MCTensors == {"a", "v", "b", "w"}
MCStorageOf == [x \in MCTensors |-> IF x \in {"b", "w"} THEN "S2" ELSE "S1"]
MCLayoutOf == [x \in MCTensors |-> CASE x = "v" -> <<2, 2>> [] x = "w" -> <<1>> [] OTHER -> <<1, 2>>]

\* With Base = 4, 2 is an index out of range and 3 the skipped one.
MCInitialData == {[s \in {"S1", "S2"} |-> IF s = "S1" THEN <<1, 3>> ELSE <<0, 2>>]}

AllKinds == WriteKinds \cup ReadKinds

Symmetry == Permutations(Threads)

\* Two storages of one cell, one tensor each: what the elements are does not
\* matter here, only who waits for which guard.
LockTensors == {"a", "b"}
LockStorageOf == [x \in LockTensors |-> x]
LockLayoutOf == [x \in LockTensors |-> <<1>>]
LockData == {[s \in LockTensors |-> <<0>>]}

\* Operations of each order of guards: two read guards, a write guard before one
\* and before two read guards, and after one.
OrderKinds == {"binary", "set", "scatter_set", "slice_set"}

\* tensor.rs:26-29 says of the alternative of a Mutex that it "would also be
\* subject to deadlocks for example using the current code if the same tensor
\* is used twice by a single binary op": with the RwLock such a call goes on.
SameTensorTwiceRuns ==
  \A t, u \in Threads :
    ~ /\ op[t] # NoOp /\ op[t].kind = "binary" /\ stage[t] = "lock"
      /\ u \in queued
      /\ WaitsFor(t, u) /\ WaitsFor(u, t)
=============================================================================
