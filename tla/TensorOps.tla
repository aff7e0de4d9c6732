----------------------------- MODULE TensorOps -----------------------------
(***************************************************************************)
(* Tensors as views of shared storages, the calls made on them, and what   *)
(* each call does to the elements.                                         *)
(*                                                                         *)
(* LayoutOf[x] lists the storage cells of x's elements in logical order.   *)
(* The contents of a cell are abstracted to 0 .. Base-1.                   *)
(***************************************************************************)
EXTENDS Integers, Sequences

CONSTANTS
  Threads,        \* threads that call tensor methods
  Tensors,        \* tensors (views); several may share a storage
  Storages,       \* the Arc<RwLock<Storage>> objects
  StorageOf,      \* [Tensors -> Storages]
  LayoutOf,       \* [Tensors -> Seq(Cells)]
  Cells,          \* the element positions of a storage
  Base,           \* number of distinct element values
  NoOp            \* "no call in progress"

ASSUME TensorAssumption ==
  /\ StorageOf \in [Tensors -> Storages]
  /\ LayoutOf \in [Tensors -> Seq(Cells)]
  /\ Base \in Nat \ {0}

Values == 0 .. Base - 1

WriteKinds == {"const_set", "set", "slice_set", "scatter_set", "inplace"}
ReadKinds == {"unary", "binary", "where_cond", "cat"}

\* A call: its kind, the tensor written (if any), the tensors read, a scalar.
Call(k, x, xs, a) == [kind |-> k, dst |-> x, srcs |-> xs, arg |-> a]

\* Everything a caller can ask for.
Calls ==
  [kind : WriteKinds \cup ReadKinds, dst : Tensors, srcs : Seq(Tensors), arg : Nat]

ASSUME NoOpAssumption == NoOp \notin Calls

\* same_storage: the two tensors are views of one storage.
same_storage(x, y) == StorageOf[x] = StorageOf[y]

SameLen(x, y) == Len(LayoutOf[x]) = Len(LayoutOf[y])

is_contiguous(x) ==
  \A i \in 1 .. Len(LayoutOf[x]) - 1 : LayoutOf[x][i + 1] = LayoutOf[x][i] + 1
-----------------------------------------------------------------------------
(* What a call does to the elements.  d stands for the data.               *)

Elem(d, x, k) == d[StorageOf[x]][LayoutOf[x][k]]

NumElems(o) ==
  CASE o.kind \in {"const_set", "inplace"} -> Len(LayoutOf[o.dst])
    [] o.kind = "scatter_set"              -> Len(LayoutOf[o.srcs[2]])
    [] OTHER                               -> Len(LayoutOf[o.srcs[1]])

IsWrite(o) == o.kind \in WriteKinds

\* Tensor::cat goes through its arguments one by one.
MoreArgs(o) == o.kind = "cat" /\ Len(o.srcs) > 1

\* Scatter: the index I::max_value() is skipped, one past the end fails.
SkipIndex == Base - 1

ScatterIndex(o, k, d) == Elem(d, o.srcs[1], k)

ElemFails(o, k, d) ==
  /\ o.kind = "scatter_set"
  /\ ScatterIndex(o, k, d) # SkipIndex
  /\ ScatterIndex(o, k, d) >= Len(LayoutOf[o.dst])

\* The logical element of dst that the k-th step writes; 0 for none.
TargetElem(o, k, d) ==
  CASE o.kind = "scatter_set" ->
         IF ScatterIndex(o, k, d) = SkipIndex THEN 0 ELSE ScatterIndex(o, k, d) + 1
    [] o.kind = "slice_set" -> o.arg + k
    [] OTHER -> k

\* Mutant: the sum is not reduced to the width of the element type.
ElemValueNoWrap(o, k, d) ==
  IF o.kind = "inplace" THEN Elem(d, o.dst, k) + 1 ELSE o.arg

\* The custom op of inplace_op1/2/3 is represented by addition.
ElemValue(o, k, d) ==
  CASE o.kind = "const_set"   -> o.arg
    [] o.kind = "scatter_set" -> Elem(d, o.srcs[2], k)
    [] o.kind = "inplace"     ->
         (Elem(d, o.dst, k) + 1
            + (IF Len(o.srcs) > 0 THEN Elem(d, o.srcs[1], k) ELSE 0)
            + (IF Len(o.srcs) > 1 THEN Elem(d, o.srcs[2], k) ELSE 0)) % Base
    [] OTHER -> Elem(d, o.srcs[1], k)

WriteElem(o, k, d) ==
  LET e == TargetElem(o, k, d)
  IN  IF e = 0 THEN d
      ELSE [d EXCEPT ![StorageOf[o.dst]][LayoutOf[o.dst][e]] = ElemValue(o, k, d)]

\* One element of the result of a reading call: the source elements it
\* is computed from.
ReadElem(o, k, d) ==
  [i \in 1 .. (IF o.kind = "cat" THEN 1 ELSE Len(o.srcs)) |-> Elem(d, o.srcs[i], k)]

\* Elements k, k+1, ... of a reading call.
ReadFrom(o, k, d) == [i \in 1 .. NumElems(o) - k + 1 |-> ReadElem(o, k + i - 1, d)]

\* Var::set refuses a non-contiguous variable and a source of another shape.
Refused(o) ==
  o.kind = "set" /\ (~is_contiguous(o.dst) \/ ~SameLen(o.dst, o.srcs[1]))

\* Scatter refuses non-contiguous tensors before it writes anything.
BodyFails(o) ==
  /\ o.kind = "scatter_set"
  /\ \E x \in {o.dst, o.srcs[1], o.srcs[2]} : ~is_contiguous(x)

\* Elements k, k+1, ... of a writing call, up to the first that fails.
RunFrom(o, k, d) ==
  LET run[i \in (k - 1) .. NumElems(o)] ==
        IF i = k - 1 THEN [data |-> d, ok |-> ~BodyFails(o)]
        ELSE LET before == run[i - 1]
             IN  IF ~before.ok \/ ElemFails(o, i, before.data)
                 THEN [before EXCEPT !.ok = FALSE]
                 ELSE [before EXCEPT !.data = WriteElem(o, i, @)]
  IN  run[NumElems(o)]
=============================================================================
