--------------------------- MODULE TensorStorage ---------------------------
(***************************************************************************)
(* The storages behind the tensors of candle-core and the reader/writer    *)
(* locks that guard them.                                                  *)
(*                                                                         *)
(* A tensor is a view of a storage; the storage is an Arc<RwLock<Storage>> *)
(* that views share.  An operation takes the guards of the storages it     *)
(* touches one after the other, in the order in which Rust evaluates the   *)
(* call expression, works on the elements one by one, and drops every      *)
(* guard at the end of the statement.                                      *)
(***************************************************************************)
EXTENDS TensorOps

CONSTANTS
  Kinds,          \* the kinds of call that are made
  InitialData,    \* the contents the storages may start with
  MaxCalls        \* bound: calls made by each thread

ASSUME StorageAssumption ==
  /\ Kinds \subseteq WriteKinds \cup ReadKinds
  /\ InitialData \subseteq [Storages -> [Cells -> Values]]
  /\ MaxCalls \in Nat

VARIABLES
  op,       \* op[t]: the call thread t is executing, or NoOp
  stage,    \* stage[t]: "idle", "lock" (taking guards), "body" (on elements)
  taken,    \* taken[t]: how many guards of Locks(op[t]) t holds
  pos,      \* pos[t]: the element t works on next
  queued,   \* threads parked in RwLock::write
  data,     \* data[s][c]: contents of cell c of storage s
  buf,      \* buf[t]: the storage being built by t, not yet visible
  out,      \* out[t]: what the last call of t returned
  calls     \* calls[t]: calls made so far

vars == <<op, stage, taken, pos, queued, data, buf, out, calls>>

-----------------------------------------------------------------------------
(* Calls and the guards they take.                                         *)

Guard(x, m) == [storage |-> StorageOf[x], mode |-> m]

Reads(xs) == [i \in 1 .. Len(xs) |-> Guard(xs[i], "read")]

\* Mutant: only the first guard is bound, the others are dropped at once.
LocksFirstOnly(o) ==
  IF IsWrite(o) THEN <<Guard(o.dst, "write")>> ELSE Reads(<<Head(o.srcs)>>)

\* The guards of a call in the order of evaluation.  Tensor::cat holds one
\* argument's guard at a time.
Locks(o) ==
  CASE o.kind \in {"unary", "binary", "where_cond"} -> Reads(o.srcs)
    [] o.kind = "cat"       -> Reads(<<Head(o.srcs)>>)
    [] o.kind = "slice_set" -> Reads(o.srcs) \o <<Guard(o.dst, "write")>>
    [] OTHER                -> <<Guard(o.dst, "write")>> \o Reads(o.srcs)

Holds(t, s, m) ==
  /\ op[t] # NoOp
  /\ \E i \in 1 .. taken[t] : Locks(op[t])[i] = [storage |-> s, mode |-> m]

\* The guard t asks for next.
NextGuard(t) == Locks(op[t])[taken[t] + 1]

\* std::sync::RwLock (external): a reader gets in unless a writer holds the
\* lock or is parked on it; a writer needs the lock to be free.
Grantable(t, g) ==
  IF g.mode = "read"
  THEN \A u \in Threads :
         /\ ~Holds(u, g.storage, "write")
         /\ u \in queued => NextGuard(u).storage # g.storage
  ELSE \A u \in Threads :
         ~Holds(u, g.storage, "write") /\ ~Holds(u, g.storage, "read")
-----------------------------------------------------------------------------
Init ==
  /\ op = [t \in Threads |-> NoOp]
  /\ stage = [t \in Threads |-> "idle"]
  /\ taken = [t \in Threads |-> 0]
  /\ pos = [t \in Threads |-> 1]
  /\ queued = {}
  /\ data \in InitialData
  /\ buf = [t \in Threads |-> <<>>]
  /\ out = [t \in Threads |-> [ok |-> TRUE, elems |-> <<>>]]
  /\ calls = [t \in Threads |-> 0]

\* t, which is in no call, makes the call o.
Start(t, o) ==
  /\ o.kind \in Kinds
  /\ op' = [op EXCEPT ![t] = o]
  /\ stage' = [stage EXCEPT ![t] = "lock"]
  /\ calls' = [calls EXCEPT ![t] = @ + 1]
  /\ UNCHANGED <<taken, pos, queued, data, buf, out>>

Unary(t) == \E x \in Tensors : Start(t, Call("unary", x, <<x>>, 0))

\* binary_op!: same_shape_binary_op, then self's guard, then rhs's.
Binary(t) ==
  \E x, y \in Tensors :
    /\ SameLen(x, y)
    /\ Start(t, Call("binary", x, <<x, y>>, 0))

\* where_cond: self, on_true and on_false, three guards.
WhereCond(t) ==
  \E x, y, z \in Tensors :
    /\ SameLen(x, y) /\ SameLen(x, z)
    /\ Start(t, Call("where_cond", x, <<x, y, z>>, 0))

Cat(t) == \E x, y \in Tensors : Start(t, Call("cat", x, <<x, y>>, 0))

ConstSet(t) == \E x \in Tensors, v \in Values : Start(t, Call("const_set", x, <<>>, v))

\* Mutant: a variable may be set to a tensor derived from it.
VarSetUnchecked(t) ==
  \E x, y \in Tensors : Start(t, Call("set", x, <<y>>, 0))

\* Var::set refuses a source that shares the variable's storage.
VarSet(t) ==
  \E x, y \in Tensors : ~same_storage(x, y) /\ Start(t, Call("set", x, <<y>>, 0))

\* Mutant: slice_set without the test that the storages differ.
SliceSetUnchecked(t) ==
  \E x, y \in Tensors : SameLen(x, y) /\ Start(t, Call("slice_set", x, <<y>>, 0))

SliceSet(t) ==
  \E x, y \in Tensors : \E offset \in 0 .. Len(LayoutOf[x]) :
    /\ is_contiguous(x) /\ is_contiguous(y)
    /\ ~same_storage(x, y)
    /\ Len(LayoutOf[y]) + offset <= Len(LayoutOf[x])
    /\ Start(t, Call("slice_set", x, <<y>>, offset))

\* scatter_set checks self against source, not against indexes.
ScatterSet(t) ==
  \E x, i, y \in Tensors :
    /\ ~same_storage(x, y)
    /\ SameLen(i, y)
    /\ Start(t, Call("scatter_set", x, <<i, y>>, 0))

\* inplace_op1, inplace_op2 and inplace_op3: no check at all.
InplaceOp(t) ==
  \E x \in Tensors :
    \/ Start(t, Call("inplace", x, <<>>, 0))
    \/ \E y \in Tensors : SameLen(x, y) /\ Start(t, Call("inplace", x, <<y>>, 0))
    \/ \E y, z \in Tensors :
         SameLen(x, y) /\ SameLen(x, z) /\ Start(t, Call("inplace", x, <<y, z>>, 0))

\* The call returns and its guards go.
Return(t, r, elems) ==
  /\ op' = [op EXCEPT ![t] = NoOp]
  /\ stage' = [stage EXCEPT ![t] = "idle"]
  /\ taken' = [taken EXCEPT ![t] = 0]
  /\ pos' = [pos EXCEPT ![t] = 1]
  /\ buf' = [buf EXCEPT ![t] = <<>>]
  /\ out' = [out EXCEPT ![t] = [ok |-> r, elems |-> elems]]

\* Mutants: one of the two checks is forgotten.
CheckFailsNoLayout(o, n) == o.kind = "set" /\ n = 2 /\ ~SameLen(o.dst, o.srcs[1])
CheckFailsNoShape(o, n) == o.kind = "set" /\ n = 1 /\ ~is_contiguous(o.dst)

\* Checks made with guards held: Var::set tests the layout of the variable
\* once it has the write guard and the shapes once it has both.
CheckFails(o, n) ==
  /\ o.kind = "set"
  /\ \/ n = 1 /\ ~is_contiguous(o.dst)
     \/ n = 2 /\ ~SameLen(o.dst, o.srcs[1])

\* A guard is granted.  queued loses t if t was parked.
Acquire(t) ==
  /\ stage[t] = "lock"
  /\ Grantable(t, NextGuard(t))
  /\ queued' = queued \ {t}
  /\ LET n == taken[t] + 1
     IN  IF CheckFails(op[t], n)
         THEN Return(t, FALSE, <<>>)
         ELSE /\ taken' = [taken EXCEPT ![t] = n]
              /\ stage' = [stage EXCEPT ![t] =
                             IF n = Len(Locks(op[t])) THEN "body" ELSE "lock"]
              /\ UNCHANGED <<op, pos, buf, out>>
  /\ UNCHANGED <<data, calls>>

\* RwLock::write finds the lock taken and parks.
Park(t) ==
  /\ stage[t] = "lock"
  /\ t \notin queued
  /\ NextGuard(t).mode = "write"
  /\ ~Grantable(t, NextGuard(t))
  /\ queued' = queued \cup {t}
  /\ UNCHANGED <<op, stage, taken, pos, data, buf, out, calls>>

Fails(t) == BodyFails(op[t]) \/ (pos[t] <= NumElems(op[t]) /\ ElemFails(op[t], pos[t], data))

\* One element of an in-place call.
WriteStep(t) ==
  /\ stage[t] = "body" /\ IsWrite(op[t])
  /\ ~Fails(t) /\ pos[t] <= NumElems(op[t])
  /\ data' = WriteElem(op[t], pos[t], data)
  /\ pos' = [pos EXCEPT ![t] = @ + 1]
  /\ UNCHANGED <<op, stage, taken, queued, buf, out, calls>>

\* One element of a call that builds a new storage.
ReadStep(t) ==
  /\ stage[t] = "body" /\ ~IsWrite(op[t])
  /\ pos[t] <= NumElems(op[t])
  /\ buf' = [buf EXCEPT ![t] = Append(@, ReadElem(op[t], pos[t], data))]
  /\ pos' = [pos EXCEPT ![t] = @ + 1]
  /\ UNCHANGED <<op, stage, taken, queued, data, out, calls>>

\* cat drops the guard of one argument before it takes the next one's.
NextArg(t) ==
  /\ stage[t] = "body" /\ MoreArgs(op[t])
  /\ pos[t] > NumElems(op[t])
  /\ op' = [op EXCEPT ![t].srcs = Tail(@)]
  /\ stage' = [stage EXCEPT ![t] = "lock"]
  /\ taken' = [taken EXCEPT ![t] = 0]
  /\ pos' = [pos EXCEPT ![t] = 1]
  /\ UNCHANGED <<queued, data, buf, out, calls>>

Finish(t) ==
  /\ stage[t] = "body"
  /\ \/ Fails(t) /\ Return(t, FALSE, <<>>)
     \/ /\ ~Fails(t)
        /\ pos[t] > NumElems(op[t])
        /\ ~MoreArgs(op[t])
        /\ Return(t, TRUE, buf[t])
  /\ UNCHANGED <<queued, data, calls>>

Begin(t) ==
  /\ op[t] = NoOp /\ calls[t] < MaxCalls
  /\ \/ Unary(t) \/ Binary(t) \/ WhereCond(t) \/ Cat(t)
     \/ ConstSet(t) \/ VarSet(t) \/ SliceSet(t) \/ ScatterSet(t) \/ InplaceOp(t)

Progress(t) ==
  Acquire(t) \/ Park(t) \/ WriteStep(t) \/ ReadStep(t) \/ NextArg(t) \/ Finish(t)

Next == \E t \in Threads : Begin(t) \/ Progress(t)

Spec == Init /\ [][Next]_vars

\* A thread inside a call runs on: nothing in a call waits for the caller.
FairSpec == Spec /\ \A t \in Threads : WF_vars(Progress(t))
-----------------------------------------------------------------------------
(* Properties.                                                             *)

\* Type correctness of the state.
TypeOK ==
  /\ op \in [Threads -> Calls \cup {NoOp}]
  /\ stage \in [Threads -> {"idle", "lock", "body"}]
  /\ taken \in [Threads -> 0 .. 3]
  /\ pos \in [Threads -> Nat]
  /\ queued \subseteq Threads
  /\ data \in [Storages -> [Cells -> Values]]
  /\ buf \in [Threads -> Seq(Seq(Values))]
  /\ out \in [Threads -> [ok : BOOLEAN, elems : Seq(Seq(Values))]]
  /\ calls \in [Threads -> 0 .. MaxCalls]

\* t's step or another's: the storages t reads keep their contents, and the
\* storage it writes changes only when t moves on to its next element.
StableStep ==
  \A t \in Threads :
    stage[t] = "body" =>
      /\ \A i \in 1 .. Len(op[t].srcs) :
           (op[t].kind # "cat" \/ i = 1) =>
             data'[StorageOf[op[t].srcs[i]]] = data[StorageOf[op[t].srcs[i]]]
      /\ (IsWrite(op[t]) /\ pos'[t] = pos[t]) =>
           data'[StorageOf[op[t].dst]] = data[StorageOf[op[t].dst]]

\* While a call works on the elements, nobody else changes the storages it
\* reads (unary_op!, binary_op!, where_cond, cat, slice_set, ... keep every
\* guard in a binding until the result is complete), and the elements an
\* in-place call writes change only by its own steps.
StableArgs == [][StableStep]_vars

\* Refinement mapping: a call takes effect when it has all its guards.
\* An abstract storage already has what the call in its body will write.
Writer(s) == {t \in Threads : stage[t] = "body" /\ IsWrite(op[t]) /\ StorageOf[op[t].dst] = s}

AbsData ==
  [s \in Storages |->
     IF Writer(s) = {} THEN data[s]
     ELSE LET t == CHOOSE u \in Writer(s) : TRUE
          IN  RunFrom(op[t], pos[t], data).data[s]]

AbsRes ==
  [t \in Threads |->
     IF stage[t] = "body" /\ IsWrite(op[t])
     THEN [ok |-> RunFrom(op[t], pos[t], data).ok, elems |-> <<>>]
     ELSE [ok |-> TRUE,
           elems |-> IF stage[t] = "body" THEN buf[t] \o ReadFrom(op[t], pos[t], data)
                     ELSE buf[t]]]

Abs ==
  INSTANCE TensorAtomic WITH
    data <- AbsData, res <- AbsRes,
    applied <- [t \in Threads |-> stage[t] = "body"]

\* Every call has its effect, and reads its arguments, at one instant: the
\* lock-level program implements TensorAtomic.
AtomicCalls == Abs!Spec

\* A thread that cannot get its next guard waits for the threads that hold a
\* guard of that storage or are parked on its write lock.
WaitsFor(t, u) ==
  LET g == NextGuard(t)
  IN  \/ Holds(u, g.storage, "write")
      \/ g.mode = "write" /\ Holds(u, g.storage, "read")
      \/ g.mode = "read" /\ u \in queued /\ NextGuard(u).storage = g.storage

\* The storage whose guard t asks for, and those whose guards it has.
Asks(t) == NextGuard(t).storage
Keeps(t, s) == Holds(t, s, "read") \/ Holds(t, s, "write")

\* Calls each of which waits for one of them.
Waiting == {t \in Threads : stage[t] = "lock"}
Deadlocked(W) == W # {} /\ \A t \in W : \E u \in W : WaitsFor(t, u)

\* The operations that do not make sure that their arguments lie on different
\* storages; scatter_set compares self with source only.
UncheckedKinds == {"binary", "where_cond", "scatter_set", "inplace"}

\* t asks for a guard of a storage that it has one of.
AsksAgain(t) == op[t].kind \in UncheckedKinds /\ Keeps(t, Asks(t))

\* Storages each of which is kept by a call that asks for another of them.
RingOf(W) ==
  \E S \in SUBSET Storages :
    S # {} /\ \A s \in S : \E t \in W : Keeps(t, s) /\ Asks(t) \in S

\* The two ways in which the code can deadlock: one of the calls was given a
\* storage twice by a caller whom the operation does not refuse, or two of them
\* work in place.  In both, somebody works in place, and the calls take guards
\* of a ring of storages in opposite orders.
Explained(W) ==
  /\ RingOf(W)
  /\ \E t \in W : IsWrite(op[t])
  /\ \/ \E t \in W : AsksAgain(t)
     \/ \E t, u \in W : t # u /\ IsWrite(op[t]) /\ IsWrite(op[u])

\* Calls deadlock in no other way: readers alone never do, nor does one in-place
\* call with any number of readers, nor Var::set or slice_set with itself, nor
\* calls that agree on an order of the storages.
DeadlocksExplained == \A W \in SUBSET Waiting : Deadlocked(W) => Explained(W)

\* Every call that is made returns, unless it comes to wait for calls that are
\* deadlocked in one of the two ways.
EveryCallReturns ==
  \A t \in Threads :
    op[t] # NoOp ~>
      (op[t] = NoOp \/ \E W \in SUBSET Waiting : t \in W /\ Deadlocked(W) /\ Explained(W))
=============================================================================
