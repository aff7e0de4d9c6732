---------------------------- MODULE TensorAtomic ----------------------------
(***************************************************************************)
(* What the callers of candle-core's tensors may rely on: between its      *)
(* invocation and its response every call works on the elements at one     *)
(* instant.  Tensor::cat promises less: one instant for each argument.     *)
(* There are no locks and no element-by-element loops here; TensorStorage  *)
(* implements this specification.                                          *)
(***************************************************************************)
EXTENDS TensorOps

CONSTANT InitialData   \* the contents the storages may start with

VARIABLES
  op,        \* op[t]: the call in progress, or NoOp
  applied,   \* has op[t] (for cat: its first argument) had its effect?
  data,      \* data[s][c]
  res,       \* res[t]: the result of the call so far
  out        \* out[t]: what the last call of t returned

vars == <<op, applied, data, res, out>>

Empty == [ok |-> TRUE, elems |-> <<>>]
Failed == [ok |-> FALSE, elems |-> <<>>]

Init ==
  /\ op = [t \in Threads |-> NoOp]
  /\ applied = [t \in Threads |-> FALSE]
  /\ data \in InitialData
  /\ res = [t \in Threads |-> Empty]
  /\ out = [t \in Threads |-> Empty]

Invoke(t) ==
  /\ op[t] = NoOp
  /\ op'[t] \in Calls
  /\ op' = [op EXCEPT ![t] = op'[t]]
  /\ UNCHANGED <<applied, data, res, out>>

\* The whole in-place call at once.  A call that fails half-way leaves the
\* elements before the failing one written.
Write(t) ==
  /\ op[t] # NoOp /\ ~applied[t]
  /\ IsWrite(op[t]) /\ ~Refused(op[t])
  /\ applied' = [applied EXCEPT ![t] = TRUE]
  /\ LET r == RunFrom(op[t], 1, data)
     IN  /\ data' = r.data
         /\ res' = [res EXCEPT ![t].ok = r.ok]
  /\ UNCHANGED <<op, out>>

\* All the elements of a result (for cat: of one argument) at once.
Read(t) ==
  /\ op[t] # NoOp /\ ~applied[t]
  /\ ~IsWrite(op[t])
  /\ applied' = [applied EXCEPT ![t] = TRUE]
  /\ res' = [res EXCEPT ![t].elems = @ \o ReadFrom(op[t], 1, data)]
  /\ UNCHANGED <<op, data, out>>

NextArg(t) ==
  /\ op[t] # NoOp /\ applied[t] /\ MoreArgs(op[t])
  /\ op' = [op EXCEPT ![t].srcs = Tail(@)]
  /\ applied' = [applied EXCEPT ![t] = FALSE]
  /\ UNCHANGED <<data, res, out>>

Return(t, r) ==
  /\ op' = [op EXCEPT ![t] = NoOp]
  /\ applied' = [applied EXCEPT ![t] = FALSE]
  /\ res' = [res EXCEPT ![t] = Empty]
  /\ out' = [out EXCEPT ![t] = r]
  /\ UNCHANGED data

Respond(t) ==
  /\ op[t] # NoOp /\ applied[t] /\ ~MoreArgs(op[t])
  /\ Return(t, res[t])

Refuse(t) ==
  /\ op[t] # NoOp /\ ~applied[t] /\ Refused(op[t])
  /\ Return(t, Failed)

Next ==
  \E t \in Threads :
    Invoke(t) \/ Write(t) \/ Read(t) \/ NextArg(t) \/ Respond(t) \/ Refuse(t)

Spec == Init /\ [][Next]_vars
=============================================================================
