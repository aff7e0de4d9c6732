------------------------ MODULE TensorStorage_proof ------------------------
(***************************************************************************)
(* Proofs about TensorStorage, for any number of threads, tensors,         *)
(* storages and calls: type correctness, that the elements a call works on *)
(* are stable under everybody else's steps, that calls do not deadlock, and*)
(* that TensorStorage implements TensorAtomic.                             *)
(***************************************************************************)
EXTENDS TensorStorage, SequenceTheorems, WellFoundedInduction, TLAPS

Modes == {"read", "write"}

Guards == [storage : Storages, mode : Modes]

\* What Begin establishes of the arguments of a call.
WellFormed(o) ==
  /\ Len(o.srcs) <= 3
  /\ o.kind \in ReadKinds => Len(o.srcs) >= 1
  /\ o.kind = "const_set" => Len(o.srcs) = 0 /\ o.arg \in Values
  /\ o.kind \in {"set", "slice_set", "unary"} => Len(o.srcs) = 1
  /\ o.kind = "scatter_set" => Len(o.srcs) = 2 /\ SameLen(o.srcs[1], o.srcs[2])
  /\ o.kind = "slice_set" =>
       o.arg + Len(LayoutOf[o.srcs[1]]) <= Len(LayoutOf[o.dst])
  /\ o.kind = "inplace" =>
       Len(o.srcs) <= 2 /\ \A i \in 1 .. Len(o.srcs) : SameLen(o.dst, o.srcs[i])
  /\ o.kind \in {"binary", "where_cond"} =>
       \A i \in 1 .. Len(o.srcs) : SameLen(o.srcs[1], o.srcs[i])

\* A sequence with one more element in front.
LEMMA ConsSeq ==
  ASSUME NEW S, NEW e \in S, NEW s \in Seq(S), NEW n \in Nat, Len(s) = n
  PROVE  /\ <<e>> \o s \in Seq(S) /\ Len(<<e>> \o s) = n + 1
         /\ (<<e>> \o s)[1] = e
         /\ \A j \in 1 .. n : (<<e>> \o s)[j + 1] = s[j]
  <1> DEFINE w == <<e>>
  <1>1. w \in Seq(S) /\ Len(w) = 1 /\ w[1] = e
    OBVIOUS
  <1> HIDE DEF w
  <1>2. /\ w \o s \in Seq(S) /\ Len(w \o s) = Len(w) + Len(s)
        /\ \A i \in 1 .. Len(w) + Len(s) :
             (w \o s)[i] = IF i <= Len(w) THEN w[i] ELSE s[i - Len(w)]
    BY <1>1, ConcatProperties
  <1>3. \A i \in 1 .. 1 + n : (w \o s)[i] = IF i <= 1 THEN w[i] ELSE s[i - 1]
    BY <1>1, <1>2
  <1>4. ASSUME NEW j \in 1 .. n PROVE (w \o s)[j + 1] = s[j]
    <2>1. j + 1 \in 1 .. 1 + n /\ ~ (j + 1 <= 1) /\ (j + 1) - 1 = j
      OBVIOUS
    <2> QED
      BY <1>3, <2>1
  <1>5. (w \o s)[1] = e /\ Len(w \o s) = n + 1
    BY <1>1, <1>2, <1>3
  <1> QED
    BY <1>1, <1>2, <1>4, <1>5 DEF w

\* The guards a call needs: one for the tensor it writes, one for each tensor
\* it reads.
LEMMA LocksLemma ==
  ASSUME NEW o \in Calls, WellFormed(o)
  PROVE  /\ Locks(o) \in Seq(Guards)
         /\ 1 <= Len(Locks(o)) /\ Len(Locks(o)) <= 3
         /\ IsWrite(o) =>
              \E i \in 1 .. Len(Locks(o)) : Locks(o)[i] = Guard(o.dst, "write")
         /\ \A j \in 1 .. Len(o.srcs) :
              (o.kind # "cat" \/ j = 1) =>
                \E i \in 1 .. Len(Locks(o)) : Locks(o)[i] = Guard(o.srcs[j], "read")
  <1> USE DEF WriteKinds, ReadKinds
  <1>0. /\ o.srcs \in Seq(Tensors) /\ o.dst \in Tensors
        /\ o.kind \in WriteKinds \cup ReadKinds
        /\ Len(o.srcs) \in Nat
        /\ \A j \in 1 .. Len(o.srcs) : o.srcs[j] \in Tensors
    BY DEF Calls
  <1>a. /\ Len(o.srcs) <= 3
        /\ o.kind \in ReadKinds => Len(o.srcs) >= 1
        /\ o.kind = "slice_set" => Len(o.srcs) = 1
        /\ o.kind \in WriteKinds => Len(o.srcs) <= 2
    BY <1>0 DEF WellFormed
  <1>1. \A x \in Tensors, m \in Modes : Guard(x, m) \in Guards
    BY TensorAssumption DEF Guard, Guards
  <1>2. /\ Reads(o.srcs) \in Seq(Guards)
        /\ Len(Reads(o.srcs)) = Len(o.srcs)
        /\ \A j \in 1 .. Len(o.srcs) : Reads(o.srcs)[j] = Guard(o.srcs[j], "read")
    BY <1>0, <1>1 DEF Reads, Modes
  <1>3. CASE o.kind \in {"unary", "binary", "where_cond"}
    <2>1. Locks(o) = Reads(o.srcs)
      BY <1>3 DEF Locks
    <2>2. ~IsWrite(o)
      BY <1>3 DEF IsWrite
    <2>3. Len(o.srcs) >= 1
      BY <1>a, <1>3
    <2> QED
      BY <1>0, <1>a, <1>2, <2>1, <2>2, <2>3
  <1>4. CASE o.kind = "cat"
    <2>1. Locks(o) = Reads(<<Head(o.srcs)>>)
      BY <1>4 DEF Locks
    <2>2. Head(o.srcs) = o.srcs[1] /\ Len(o.srcs) >= 1
      BY <1>0, <1>4 DEF WellFormed
    <2>3. Reads(<<Head(o.srcs)>>) = <<Guard(o.srcs[1], "read")>>
      BY <2>2 DEF Reads
    <2>4. ~IsWrite(o)
      BY <1>4 DEF IsWrite
    <2> DEFINE g == Guard(o.srcs[1], "read")
    <2>5. g \in Guards
      BY <1>0, <1>1, <2>2 DEF Modes
    <2> HIDE DEF g
    <2>6. Locks(o) = <<g>>
      BY <2>1, <2>3 DEF g
    <2>7. Locks(o) \in Seq(Guards) /\ Len(Locks(o)) = 1 /\ Locks(o)[1] = g
      BY <2>5, <2>6
    <2> QED
      BY <1>4, <2>4, <2>7 DEF g
  <1>5. CASE o.kind = "slice_set"
    <2> DEFINE W == <<Guard(o.dst, "write")>>
    <2>1. Locks(o) = Reads(o.srcs) \o W
      BY <1>5 DEF Locks
    <2>2. W \in Seq(Guards) /\ Len(W) = 1 /\ W[1] = Guard(o.dst, "write")
      BY <1>0, <1>1 DEF Modes
    <2>3. Len(o.srcs) = 1
      BY <1>5 DEF WellFormed
    <2> HIDE DEF W
    <2>4. /\ Locks(o) \in Seq(Guards) /\ Len(Locks(o)) = 2
          /\ Locks(o)[1] = Guard(o.srcs[1], "read")
          /\ Locks(o)[2] = Guard(o.dst, "write")
      BY <1>2, <2>1, <2>2, <2>3
    <2> QED
      BY <1>0, <2>3, <2>4
  <1>6. CASE o.kind \in WriteKinds \ {"slice_set"}
    <2> DEFINE R == Reads(o.srcs)
               g == Guard(o.dst, "write")
    <2>1. PICK n \in Nat : n = Len(o.srcs)
      BY <1>0
    <2>2. R \in Seq(Guards) /\ Len(R) = n /\ \A j \in 1 .. n : R[j] = Guard(o.srcs[j], "read")
      BY <1>2, <2>1
    <2>3. g \in Guards
      BY <1>0, <1>1 DEF Modes
    <2>4. Locks(o) = <<g>> \o R
      BY <1>6 DEF Locks
    <2>5. n <= 2
      BY <1>6, <1>a, <2>1
    <2> HIDE DEF R, g
    <2>6. /\ Locks(o) \in Seq(Guards) /\ Len(Locks(o)) = n + 1
          /\ Locks(o)[1] = g
          /\ \A j \in 1 .. n : Locks(o)[j + 1] = R[j]
      BY <2>2, <2>3, <2>4, ConsSeq
    <2>7. /\ 1 \in 1 .. n + 1
          /\ \A j \in 1 .. n : j + 1 \in 1 .. n + 1
      OBVIOUS
    <2>8. \A j \in 1 .. n :
            \E i \in 1 .. n + 1 : Locks(o)[i] = Guard(o.srcs[j], "read")
      BY <2>2, <2>6, <2>7
    <2>9. 1 <= Len(Locks(o)) /\ Len(Locks(o)) <= 3
      BY <2>5, <2>6
    <2> QED
      BY <2>1, <2>6, <2>7, <2>8, <2>9 DEF g
  <1> QED
    BY <1>0, <1>3, <1>4, <1>5, <1>6
-----------------------------------------------------------------------------
(* The element semantics keeps the contents of the storages well typed.    *)

Contents == [Storages -> [Cells -> Values]]

LEMMA ElemLemma ==
  ASSUME NEW d \in Contents, NEW x \in Tensors, NEW k \in 1 .. Len(LayoutOf[x])
  PROVE  StorageOf[x] \in Storages /\ LayoutOf[x][k] \in Cells /\ Elem(d, x, k) \in Values
  <1>1. StorageOf[x] \in Storages /\ LayoutOf[x] \in Seq(Cells)
    BY TensorAssumption
  <1>2. LayoutOf[x][k] \in Cells
    BY <1>1
  <1> QED
    BY <1>1, <1>2 DEF Elem, Contents

LEMMA ModLemma == ASSUME NEW n \in Nat PROVE n % Base \in Values
  BY TensorAssumption DEF Values

\* One element of an in-place call: the result is well typed, and only the
\* storage of dst changes.
LEMMA WriteElemLemma ==
  ASSUME NEW d \in Contents, NEW o \in Calls, NEW k \in Nat \ {0},
         WellFormed(o), IsWrite(o), ~Refused(o),
         k <= NumElems(o), ~ElemFails(o, k, d)
  PROVE  /\ WriteElem(o, k, d) \in Contents
         /\ \A s \in Storages : s # StorageOf[o.dst] => WriteElem(o, k, d)[s] = d[s]
  <1>0. /\ o.srcs \in Seq(Tensors) /\ o.dst \in Tensors /\ o.arg \in Nat
        /\ \A x \in Tensors : Len(LayoutOf[x]) \in Nat
    BY TensorAssumption DEF Calls
  <1>d. StorageOf[o.dst] \in Storages
    BY <1>0, TensorAssumption
  <1> SUFFICES ASSUME TargetElem(o, k, d) # 0
               PROVE  /\ TargetElem(o, k, d) \in 1 .. Len(LayoutOf[o.dst])
                      /\ ElemValue(o, k, d) \in Values
    <2>1. CASE TargetElem(o, k, d) = 0
      BY <2>1 DEF WriteElem
    <2>2. CASE TargetElem(o, k, d) # 0
      <3>1. LayoutOf[o.dst][TargetElem(o, k, d)] \in Cells
        BY <1>0, <2>2, ElemLemma
      <3> QED
        BY <1>d, <2>2, <3>1 DEF WriteElem, Contents
    <2> QED
      BY <2>1, <2>2
  <1>1. CASE o.kind = "const_set"
    <2>1. k \in 1 .. Len(LayoutOf[o.dst]) /\ o.arg \in Values
      BY <1>0, <1>1 DEF NumElems, WellFormed
    <2> QED
      BY <1>1, <2>1 DEF TargetElem, ElemValue
  <1>2. CASE o.kind = "set"
    <2>1. o.srcs[1] \in Tensors /\ Len(LayoutOf[o.dst]) = Len(LayoutOf[o.srcs[1]])
      BY <1>0, <1>2 DEF WellFormed, Refused, SameLen
    <2>2. k \in 1 .. Len(LayoutOf[o.srcs[1]])
      BY <1>0, <1>2, <2>1 DEF NumElems
    <2>3. Elem(d, o.srcs[1], k) \in Values
      BY <2>1, <2>2, ElemLemma
    <2> QED
      BY <1>2, <2>1, <2>2, <2>3 DEF TargetElem, ElemValue
  <1>3. CASE o.kind = "slice_set"
    <2>1. /\ o.srcs[1] \in Tensors
          /\ o.arg + Len(LayoutOf[o.srcs[1]]) <= Len(LayoutOf[o.dst])
      BY <1>0, <1>3 DEF WellFormed
    <2>2. k \in 1 .. Len(LayoutOf[o.srcs[1]])
      BY <1>0, <1>3, <2>1 DEF NumElems
    <2>3. Elem(d, o.srcs[1], k) \in Values
      BY <2>1, <2>2, ElemLemma
    <2>4. o.arg + k \in 1 .. Len(LayoutOf[o.dst])
      BY <1>0, <2>1, <2>2
    <2> QED
      BY <1>3, <2>3, <2>4 DEF TargetElem, ElemValue
  <1>4. CASE o.kind = "scatter_set"
    <2>1. /\ o.srcs[1] \in Tensors /\ o.srcs[2] \in Tensors
          /\ Len(LayoutOf[o.srcs[1]]) = Len(LayoutOf[o.srcs[2]])
      BY <1>0, <1>4 DEF WellFormed, SameLen
    <2>2. k \in 1 .. Len(LayoutOf[o.srcs[1]]) /\ k \in 1 .. Len(LayoutOf[o.srcs[2]])
      BY <1>0, <1>4, <2>1 DEF NumElems
    <2>3. ScatterIndex(o, k, d) \in Values /\ Elem(d, o.srcs[2], k) \in Values
      BY <2>1, <2>2, ElemLemma DEF ScatterIndex
    <2>4. ScatterIndex(o, k, d) \in Nat
      BY <2>3, TensorAssumption DEF Values
    <2>5. ScatterIndex(o, k, d) # SkipIndex
      BY <1>4 DEF TargetElem
    <2>6. ScatterIndex(o, k, d) < Len(LayoutOf[o.dst])
      BY <1>0, <1>4, <2>4, <2>5 DEF ElemFails
    <2>7. TargetElem(o, k, d) = ScatterIndex(o, k, d) + 1
      BY <1>4, <2>5 DEF TargetElem
    <2>8. TargetElem(o, k, d) \in 1 .. Len(LayoutOf[o.dst])
      BY <1>0, <2>4, <2>6, <2>7
    <2> QED
      BY <1>4, <2>3, <2>8 DEF ElemValue
  <1>5. CASE o.kind = "inplace"
    <2>1. k \in 1 .. Len(LayoutOf[o.dst])
      BY <1>0, <1>5 DEF NumElems
    <2>2. \A i \in 1 .. Len(o.srcs) : Elem(d, o.srcs[i], k) \in Nat
      <3>1. \A i \in 1 .. Len(o.srcs) :
              o.srcs[i] \in Tensors /\ Len(LayoutOf[o.srcs[i]]) = Len(LayoutOf[o.dst])
        BY <1>0, <1>5 DEF WellFormed, SameLen
      <3>2. \A i \in 1 .. Len(o.srcs) : Elem(d, o.srcs[i], k) \in Values
        BY <2>1, <3>1, ElemLemma
      <3> QED
        BY <3>2, TensorAssumption DEF Values
    <2>3. Elem(d, o.dst, k) \in Nat
      BY <1>0, <2>1, ElemLemma, TensorAssumption DEF Values
    <2> DEFINE e1 == IF Len(o.srcs) > 0 THEN Elem(d, o.srcs[1], k) ELSE 0
               e2 == IF Len(o.srcs) > 1 THEN Elem(d, o.srcs[2], k) ELSE 0
    <2>4. e1 \in Nat /\ e2 \in Nat
      BY <1>0, <2>2
    <2>5. ElemValue(o, k, d) = (Elem(d, o.dst, k) + 1 + e1 + e2) % Base
      BY <1>5 DEF ElemValue
    <2> HIDE DEF e1, e2
    <2>6. ElemValue(o, k, d) \in Values
      BY <2>3, <2>4, <2>5, ModLemma
    <2> QED
      BY <1>5, <2>1, <2>6 DEF TargetElem
  <1> QED
    BY <1>1, <1>2, <1>3, <1>4, <1>5 DEF IsWrite, WriteKinds

\* One element of a reading call.
LEMMA ReadElemLemma ==
  ASSUME NEW d \in Contents, NEW o \in Calls, NEW k \in Nat \ {0},
         WellFormed(o), ~IsWrite(o), k <= NumElems(o)
  PROVE  ReadElem(o, k, d) \in Seq(Values)
  <1>0. /\ o.srcs \in Seq(Tensors) /\ o.kind \in ReadKinds
        /\ \A x \in Tensors : Len(LayoutOf[x]) \in Nat
    BY TensorAssumption DEF Calls, IsWrite
  <1> DEFINE n == IF o.kind = "cat" THEN 1 ELSE Len(o.srcs)
  <1>1. n \in Nat /\ n <= Len(o.srcs)
    BY <1>0 DEF WellFormed
  <1>2. NumElems(o) = Len(LayoutOf[o.srcs[1]])
    BY <1>0 DEF NumElems, ReadKinds
  <1>3. \A i \in 1 .. n : o.srcs[i] \in Tensors
    BY <1>0, <1>1
  <1>4. \A i \in 1 .. n : Len(LayoutOf[o.srcs[i]]) = NumElems(o)
    BY <1>0, <1>1, <1>2 DEF WellFormed, SameLen, ReadKinds
  <1>5. \A i \in 1 .. n : Elem(d, o.srcs[i], k) \in Values
    BY <1>0, <1>3, <1>4, ElemLemma
  <1>6. ReadElem(o, k, d) = [i \in 1 .. n |-> Elem(d, o.srcs[i], k)]
    BY DEF ReadElem
  <1> HIDE DEF n
  <1> QED
    BY <1>1, <1>5, <1>6
-----------------------------------------------------------------------------
(* The inductive invariant.                                                *)

\* A call in progress is well formed, holds as many guards as its stage says
\* and has passed the checks made with them.
CallsOK ==
  \A t \in Threads :
    /\ stage[t] = "idle" <=> op[t] = NoOp
    /\ stage[t] = "idle" => taken[t] = 0
    /\ op[t] # NoOp => WellFormed(op[t])
    /\ stage[t] = "lock" => taken[t] < Len(Locks(op[t]))
    /\ stage[t] = "body" => taken[t] = Len(Locks(op[t]))
    /\ pos[t] >= 1
    /\ op[t] # NoOp => \A n \in 1 .. taken[t] : ~CheckFails(op[t], n)

\* A write guard excludes every other guard of the same storage.
Exclusion ==
  \A t, u \in Threads : \A i \in 1 .. taken[t], j \in 1 .. taken[u] :
    (Locks(op[t])[i].mode = "write" /\ (t # u \/ i # j)) =>
      Locks(op[t])[i].storage # Locks(op[u])[j].storage

IInv == TypeOK /\ CallsOK /\ Exclusion

\* What Begin does: it starts a well-formed call.
LEMMA CallLemma ==
  ASSUME NEW k \in WriteKinds \cup ReadKinds, NEW x \in Tensors,
         NEW xs \in Seq(Tensors), NEW a \in Nat
  PROVE  /\ Call(k, x, xs, a) \in Calls
         /\ Call(k, x, xs, a).kind = k /\ Call(k, x, xs, a).dst = x
         /\ Call(k, x, xs, a).srcs = xs /\ Call(k, x, xs, a).arg = a
  BY DEF Call, Calls

LEMMA InplaceLemma ==
  ASSUME NEW x \in Tensors, NEW xs \in Seq(Tensors), Len(xs) <= 2,
         \A i \in 1 .. Len(xs) : SameLen(x, xs[i])
  PROVE  /\ Call("inplace", x, xs, 0) \in Calls
         /\ WellFormed(Call("inplace", x, xs, 0))
  <1> DEFINE o == Call("inplace", x, xs, 0)
  <1>1. o \in Calls /\ o.kind = "inplace" /\ o.dst = x /\ o.srcs = xs
    BY CallLemma DEF WriteKinds
  <1> HIDE DEF o
  <1>2. Len(xs) \in Nat
    OBVIOUS
  <1>3. WellFormed(o)
    BY <1>1, <1>2 DEF WellFormed, ReadKinds
  <1> QED
    BY <1>1, <1>3 DEF o

LEMMA BeginLemma ==
  ASSUME NEW t \in Threads, Begin(t)
  PROVE  \E o \in Calls : WellFormed(o) /\ Start(t, o)
  <1>1. CASE Unary(t)
    <2>1. PICK x \in Tensors :
            Start(t, Call("unary", x, <<x>>, 0))
      BY <1>1 DEF Unary
    <2> DEFINE xs == <<x>>
               o == Call("unary", x, xs, 0)
    <2>2. xs \in Seq(Tensors) /\ Len(xs) = 1 /\ xs[1] = x
      OBVIOUS
    <2>3. Start(t, o)
      BY <2>1
    <2> HIDE DEF xs
    <2>4. "unary" \in WriteKinds \cup ReadKinds /\ 0 \in Nat
      BY DEF WriteKinds, ReadKinds
    <2>5. o \in Calls /\ o.kind = "unary" /\ o.dst = x /\ o.srcs = xs /\ o.arg = 0
      BY <2>2, <2>4, CallLemma
    <2> HIDE DEF o
    <2>6. Len(o.srcs) = 1 /\ o.srcs[1] = x
      BY <2>2, <2>5
    <2>8. WellFormed(o)
      BY <2>5, <2>6 DEF WellFormed, ReadKinds
    <2> QED
      BY <2>3, <2>5, <2>8
  <1>2. CASE Binary(t)
    <2>1. PICK x \in Tensors, y \in Tensors :
            SameLen(x, y) /\ Start(t, Call("binary", x, <<x, y>>, 0))
      BY <1>2 DEF Binary
    <2> DEFINE xs == <<x, y>>
               o == Call("binary", x, xs, 0)
    <2>2. xs \in Seq(Tensors) /\ Len(xs) = 2 /\ xs[1] = x /\ xs[2] = y
      OBVIOUS
    <2>3. Start(t, o)
      BY <2>1
    <2> HIDE DEF xs
    <2>4. "binary" \in WriteKinds \cup ReadKinds /\ 0 \in Nat
      BY DEF WriteKinds, ReadKinds
    <2>5. o \in Calls /\ o.kind = "binary" /\ o.dst = x /\ o.srcs = xs /\ o.arg = 0
      BY <2>2, <2>4, CallLemma
    <2> HIDE DEF o
    <2>6. Len(o.srcs) = 2 /\ o.srcs[1] = x /\ o.srcs[2] = y
      BY <2>2, <2>5
    <2>7. SameLen(x, x) /\ SameLen(x, y)
      BY <2>1 DEF SameLen
    <2>8. WellFormed(o)
      BY <2>5, <2>6, <2>7 DEF WellFormed, ReadKinds
    <2> QED
      BY <2>3, <2>5, <2>8
  <1>3. CASE WhereCond(t)
    <2>1. PICK x \in Tensors, y \in Tensors, z \in Tensors :
            SameLen(x, y) /\ SameLen(x, z) /\ Start(t, Call("where_cond", x, <<x, y, z>>, 0))
      BY <1>3 DEF WhereCond
    <2> DEFINE xs == <<x, y, z>>
               o == Call("where_cond", x, xs, 0)
    <2>2. xs \in Seq(Tensors) /\ Len(xs) = 3 /\ xs[1] = x /\ xs[2] = y /\ xs[3] = z
      OBVIOUS
    <2>3. Start(t, o)
      BY <2>1
    <2> HIDE DEF xs
    <2>4. "where_cond" \in WriteKinds \cup ReadKinds /\ 0 \in Nat
      BY DEF WriteKinds, ReadKinds
    <2>5. o \in Calls /\ o.kind = "where_cond" /\ o.dst = x /\ o.srcs = xs /\ o.arg = 0
      BY <2>2, <2>4, CallLemma
    <2> HIDE DEF o
    <2>6. Len(o.srcs) = 3 /\ o.srcs[1] = x /\ o.srcs[2] = y /\ o.srcs[3] = z
      BY <2>2, <2>5
    <2>7. SameLen(x, x) /\ SameLen(x, y) /\ SameLen(x, z)
      BY <2>1 DEF SameLen
    <2>8. WellFormed(o)
      BY <2>5, <2>6, <2>7 DEF WellFormed, ReadKinds
    <2> QED
      BY <2>3, <2>5, <2>8
  <1>4. CASE Cat(t)
    <2>1. PICK x \in Tensors, y \in Tensors :
            Start(t, Call("cat", x, <<x, y>>, 0))
      BY <1>4 DEF Cat
    <2> DEFINE xs == <<x, y>>
               o == Call("cat", x, xs, 0)
    <2>2. xs \in Seq(Tensors) /\ Len(xs) = 2 /\ xs[1] = x /\ xs[2] = y
      OBVIOUS
    <2>3. Start(t, o)
      BY <2>1
    <2> HIDE DEF xs
    <2>4. "cat" \in WriteKinds \cup ReadKinds /\ 0 \in Nat
      BY DEF WriteKinds, ReadKinds
    <2>5. o \in Calls /\ o.kind = "cat" /\ o.dst = x /\ o.srcs = xs /\ o.arg = 0
      BY <2>2, <2>4, CallLemma
    <2> HIDE DEF o
    <2>6. Len(o.srcs) = 2 /\ o.srcs[1] = x /\ o.srcs[2] = y
      BY <2>2, <2>5
    <2>8. WellFormed(o)
      BY <2>5, <2>6 DEF WellFormed, ReadKinds
    <2> QED
      BY <2>3, <2>5, <2>8
  <1>5. CASE ConstSet(t)
    <2>1. PICK x \in Tensors, v \in Values :
            Start(t, Call("const_set", x, <<>>, v))
      BY <1>5 DEF ConstSet
    <2> DEFINE xs == <<>>
               o == Call("const_set", x, xs, v)
    <2>2. xs \in Seq(Tensors) /\ Len(xs) = 0
      OBVIOUS
    <2>3. Start(t, o)
      BY <2>1
    <2> HIDE DEF xs
    <2>4. "const_set" \in WriteKinds \cup ReadKinds /\ v \in Nat
      BY TensorAssumption DEF WriteKinds, ReadKinds, Values
    <2>5. o \in Calls /\ o.kind = "const_set" /\ o.dst = x /\ o.srcs = xs /\ o.arg = v
      BY <2>2, <2>4 DEF Call, Calls
    <2> HIDE DEF o
    <2>6. Len(o.srcs) = 0
      BY <2>2, <2>5
    <2>7. v \in Values
      BY <2>1 DEF SameLen
    <2>8. WellFormed(o)
      BY <2>5, <2>6, <2>7 DEF WellFormed, ReadKinds
    <2> QED
      BY <2>3, <2>5, <2>8
  <1>6. CASE VarSet(t)
    <2>1. PICK x \in Tensors, y \in Tensors :
            Start(t, Call("set", x, <<y>>, 0))
      BY <1>6 DEF VarSet
    <2> DEFINE xs == <<y>>
               o == Call("set", x, xs, 0)
    <2>2. xs \in Seq(Tensors) /\ Len(xs) = 1 /\ xs[1] = y
      OBVIOUS
    <2>3. Start(t, o)
      BY <2>1
    <2> HIDE DEF xs
    <2>4. "set" \in WriteKinds \cup ReadKinds /\ 0 \in Nat
      BY DEF WriteKinds, ReadKinds
    <2>5. o \in Calls /\ o.kind = "set" /\ o.dst = x /\ o.srcs = xs /\ o.arg = 0
      BY <2>2, <2>4, CallLemma
    <2> HIDE DEF o
    <2>6. Len(o.srcs) = 1 /\ o.srcs[1] = y
      BY <2>2, <2>5
    <2>8. WellFormed(o)
      BY <2>5, <2>6 DEF WellFormed, ReadKinds
    <2> QED
      BY <2>3, <2>5, <2>8
  <1>7. CASE SliceSet(t)
    <2>1. PICK x \in Tensors, y \in Tensors, offset \in Nat :
            /\ Len(LayoutOf[y]) + offset <= Len(LayoutOf[x])
            /\ Start(t, Call("slice_set", x, <<y>>, offset))
      BY <1>7 DEF SliceSet
    <2> DEFINE xs == <<y>>
               o == Call("slice_set", x, xs, offset)
    <2>2. xs \in Seq(Tensors) /\ Len(xs) = 1 /\ xs[1] = y
      OBVIOUS
    <2>3. Start(t, o)
      BY <2>1
    <2> HIDE DEF xs
    <2>4. "slice_set" \in WriteKinds \cup ReadKinds /\ offset \in Nat
      BY DEF WriteKinds, ReadKinds
    <2>5. o \in Calls /\ o.kind = "slice_set" /\ o.dst = x /\ o.srcs = xs /\ o.arg = offset
      BY <2>2, <2>4, CallLemma
    <2> HIDE DEF o
    <2>6. Len(o.srcs) = 1 /\ o.srcs[1] = y
      BY <2>2, <2>5
    <2>7. offset + Len(LayoutOf[y]) <= Len(LayoutOf[x])
      BY <2>1, TensorAssumption DEF SameLen
    <2>8. WellFormed(o)
      BY <2>5, <2>6, <2>7 DEF WellFormed, ReadKinds
    <2> QED
      BY <2>3, <2>5, <2>8
  <1>8. CASE ScatterSet(t)
    <2>1. PICK x \in Tensors, i \in Tensors, y \in Tensors :
            SameLen(i, y) /\ Start(t, Call("scatter_set", x, <<i, y>>, 0))
      BY <1>8 DEF ScatterSet
    <2> DEFINE xs == <<i, y>>
               o == Call("scatter_set", x, xs, 0)
    <2>2. xs \in Seq(Tensors) /\ Len(xs) = 2 /\ xs[1] = i /\ xs[2] = y
      OBVIOUS
    <2>3. Start(t, o)
      BY <2>1
    <2> HIDE DEF xs
    <2>4. "scatter_set" \in WriteKinds \cup ReadKinds /\ 0 \in Nat
      BY DEF WriteKinds, ReadKinds
    <2>5. o \in Calls /\ o.kind = "scatter_set" /\ o.dst = x /\ o.srcs = xs /\ o.arg = 0
      BY <2>2, <2>4, CallLemma
    <2> HIDE DEF o
    <2>6. Len(o.srcs) = 2 /\ o.srcs[1] = i /\ o.srcs[2] = y
      BY <2>2, <2>5
    <2>7. SameLen(i, y)
      BY <2>1 DEF SameLen
    <2>8. WellFormed(o)
      BY <2>5, <2>6, <2>7 DEF WellFormed, ReadKinds
    <2> QED
      BY <2>3, <2>5, <2>8
  <1>9. CASE InplaceOp(t)
    <2>1. PICK x \in Tensors :
            \/ Start(t, Call("inplace", x, <<>>, 0))
            \/ \E y \in Tensors : SameLen(x, y) /\ Start(t, Call("inplace", x, <<y>>, 0))
            \/ \E y, z \in Tensors :
                 SameLen(x, y) /\ SameLen(x, z) /\ Start(t, Call("inplace", x, <<y, z>>, 0))
      BY <1>9 DEF InplaceOp
    <2>2. CASE Start(t, Call("inplace", x, <<>>, 0))
      <3> DEFINE xs == <<>>
      <3>1. xs \in Seq(Tensors) /\ Len(xs) = 0
        OBVIOUS
      <3> HIDE DEF xs
      <3>2. Len(xs) <= 2 /\ \A i \in 1 .. Len(xs) : SameLen(x, xs[i])
        BY <3>1
      <3> QED
        BY <2>2, <3>1, <3>2, InplaceLemma DEF xs
    <2>3. ASSUME NEW y \in Tensors, SameLen(x, y), Start(t, Call("inplace", x, <<y>>, 0))
          PROVE  \E o \in Calls : WellFormed(o) /\ Start(t, o)
      <3> DEFINE xs == <<y>>
      <3>1. xs \in Seq(Tensors) /\ Len(xs) = 1 /\ xs[1] = y
        OBVIOUS
      <3> HIDE DEF xs
      <3>2. Len(xs) <= 2 /\ \A i \in 1 .. Len(xs) : SameLen(x, xs[i])
        BY <2>3, <3>1
      <3> QED
        BY <2>3, <3>1, <3>2, InplaceLemma DEF xs
    <2>4. ASSUME NEW y \in Tensors, NEW z \in Tensors, SameLen(x, y), SameLen(x, z),
                 Start(t, Call("inplace", x, <<y, z>>, 0))
          PROVE  \E o \in Calls : WellFormed(o) /\ Start(t, o)
      <3> DEFINE xs == <<y, z>>
      <3>1. xs \in Seq(Tensors) /\ Len(xs) = 2 /\ xs[1] = y /\ xs[2] = z
        OBVIOUS
      <3> HIDE DEF xs
      <3>2. Len(xs) <= 2 /\ \A i \in 1 .. Len(xs) : SameLen(x, xs[i])
        BY <2>4, <3>1
      <3> QED
        BY <2>4, <3>1, <3>2, InplaceLemma DEF xs
    <2> QED
      BY <2>1, <2>2, <2>3, <2>4
  <1> QED
    BY <1>1, <1>2, <1>3, <1>4, <1>5, <1>6, <1>7, <1>8, <1>9 DEF Begin

LEMMA InitLemma == Init => IInv
  <1> SUFFICES ASSUME Init PROVE IInv
    OBVIOUS
  <1>1. TypeOK
    BY StorageAssumption DEF Init, TypeOK
  <1>2. CallsOK
    <2>1. \A t \in Threads : op[t] = NoOp /\ stage[t] = "idle" /\ taken[t] = 0 /\ pos[t] = 1
      BY DEF Init
    <2>2. \A t \in Threads : stage[t] # "lock" /\ stage[t] # "body"
      BY <2>1
    <2>3. \A t \in Threads : pos[t] >= 1
      <3>1. 1 >= 1
        OBVIOUS
      <3> QED
        BY <2>1, <3>1, Zenon
    <2> QED
      BY <2>1, <2>2, <2>3 DEF CallsOK
  <1>3. Exclusion
    BY DEF Init, Exclusion
  <1> QED
    BY <1>1, <1>2, <1>3 DEF IInv

LEMMA StartLemma ==
  ASSUME IInv, NEW t \in Threads, NEW o \in Calls, WellFormed(o), Start(t, o),
         op[t] = NoOp, calls[t] < MaxCalls
  PROVE  IInv'
  <1>0. o # NoOp
    BY NoOpAssumption
  <1>1. TypeOK'
    BY StorageAssumption DEF IInv, TypeOK, Start
  <1>2. CallsOK'
    <2>1. 0 < Len(Locks(o)) /\ taken[t] = 0
      BY LocksLemma DEF IInv, CallsOK, Start
    <2> QED
      BY <1>0, <2>1 DEF IInv, TypeOK, CallsOK, Start
  <1>3. Exclusion'
    <2>1. taken' = taken /\ taken[t] = 0 /\ \A u \in Threads : u # t => op'[u] = op[u]
      BY DEF IInv, TypeOK, CallsOK, Start
    <2>2. \A u \in Threads : \A i \in 1 .. taken[u] : u # t
      BY <2>1
    <2> QED
      BY <2>1, <2>2 DEF IInv, Exclusion
  <1> QED
    BY <1>1, <1>2, <1>3 DEF IInv

\* A thread that is not idle executes a well-formed call.
LEMMA BusyLemma ==
  ASSUME IInv, NEW t \in Threads, stage[t] # "idle"
  PROVE  /\ op[t] \in Calls /\ op[t] # NoOp /\ WellFormed(op[t])
         /\ Locks(op[t]) \in Seq(Guards)
         /\ taken[t] \in Nat /\ pos[t] \in Nat \ {0}
         /\ 1 <= Len(Locks(op[t])) /\ Len(Locks(op[t])) <= 3
  <1>1. op[t] \in Calls /\ op[t] # NoOp /\ WellFormed(op[t]) /\ pos[t] >= 1
    BY DEF IInv, TypeOK, CallsOK
  <1>2. taken \in [Threads -> 0 .. 3] /\ pos \in [Threads -> Nat]
    BY DEF IInv, TypeOK
  <1>3. taken[t] \in Nat /\ pos[t] \in Nat
    BY <1>2
  <1> QED
    BY <1>1, <1>3, LocksLemma

\* The guards that threads hold.
LEMMA HeldLemma ==
  ASSUME IInv, NEW t \in Threads, NEW i \in 1 .. taken[t]
  PROVE  /\ stage[t] # "idle" /\ Locks(op[t])[i] \in Guards
         /\ i <= Len(Locks(op[t]))
         /\ Holds(t, Locks(op[t])[i].storage, Locks(op[t])[i].mode)
  <1>0. taken \in [Threads -> 0 .. 3]
    BY DEF IInv, TypeOK
  <1>1. taken[t] # 0 /\ taken[t] \in Nat
    BY <1>0
  <1>2. stage[t] # "idle" /\ stage[t] \in {"lock", "body"}
    BY <1>1 DEF IInv, TypeOK, CallsOK
  <1>3. op[t] # NoOp /\ Locks(op[t]) \in Seq(Guards)
    BY <1>2, BusyLemma
  <1>4. taken[t] <= Len(Locks(op[t]))
    BY <1>1, <1>2, <1>3 DEF IInv, CallsOK
  <1>5. Locks(op[t])[i] \in Guards
    BY <1>1, <1>3, <1>4
  <1>6. Locks(op[t])[i] = [storage |-> Locks(op[t])[i].storage, mode |-> Locks(op[t])[i].mode]
    BY <1>5 DEF Guards
  <1>7. i <= Len(Locks(op[t]))
    BY <1>1, <1>3, <1>4
  <1> QED
    BY <1>2, <1>3, <1>5, <1>6, <1>7 DEF Holds

\* A guard that is granted conflicts with no guard that anybody holds.
LEMMA GrantLemma ==
  ASSUME IInv, NEW t \in Threads, stage[t] = "lock", Grantable(t, NextGuard(t)),
         NEW u \in Threads, NEW j \in 1 .. taken[u],
         NextGuard(t).mode = "write" \/ Locks(op[u])[j].mode = "write"
  PROVE  NextGuard(t).storage # Locks(op[u])[j].storage
  <1> DEFINE h == Locks(op[u])[j]
  <1>1. Holds(u, h.storage, h.mode) /\ h \in Guards
    BY HeldLemma
  <1>2. h.mode \in {"read", "write"}
    BY <1>1 DEF Guards, Modes
  <1>3. NextGuard(t).mode \in {"read", "write"}
    <2>1. Locks(op[t]) \in Seq(Guards) /\ taken[t] \in Nat /\ taken[t] < Len(Locks(op[t]))
      BY BusyLemma DEF IInv, CallsOK
    <2>2. NextGuard(t) \in Guards
      BY <2>1 DEF NextGuard
    <2> QED
      BY <2>2 DEF Guards, Modes
  <1> HIDE DEF h
  <1>4. CASE NextGuard(t).mode = "write"
    BY <1>1, <1>2, <1>4 DEF Grantable, h
  <1>5. CASE NextGuard(t).mode = "read"
    <2>1. h.mode = "write"
      BY <1>5 DEF h
    <2> QED
      BY <1>1, <1>5, <2>1 DEF Grantable, h
  <1> QED
    BY <1>3, <1>4, <1>5

\* Returning gives up all guards.
LEMMA ReturnLemma ==
  ASSUME IInv, NEW t \in Threads, NEW r \in BOOLEAN, NEW e \in Seq(Seq(Values)),
         Return(t, r, e), data' = data, calls' = calls, queued' \subseteq Threads
  PROVE  IInv'
  <1>1. TypeOK'
    BY DEF IInv, TypeOK, Return
  <1>2. /\ op'[t] = NoOp /\ stage'[t] = "idle" /\ taken'[t] = 0 /\ pos'[t] = 1
        /\ \A u \in Threads : u # t =>
              /\ op'[u] = op[u] /\ stage'[u] = stage[u]
              /\ taken'[u] = taken[u] /\ pos'[u] = pos[u]
    BY DEF IInv, TypeOK, Return
  <1>3. CallsOK'
    <2> SUFFICES ASSUME NEW u \in Threads PROVE CallsOK!(u)'
      BY DEF CallsOK
    <2>1. CASE u = t
      <3>1. pos'[u] >= 1
        BY <1>1, <1>2, <2>1 DEF TypeOK
      <3> QED
        BY <1>2, <2>1, <3>1
    <2>2. CASE u # t
      BY <1>2, <2>2 DEF IInv, CallsOK, CheckFails
    <2> QED
      BY <2>1, <2>2
  <1>4. Exclusion'
    <2>1. \A u \in Threads : \A i \in 1 .. taken'[u] : u # t
      BY <1>2
    <2> QED
      BY <1>2, <2>1 DEF IInv, Exclusion
  <1> QED
    BY <1>1, <1>3, <1>4 DEF IInv
-----------------------------------------------------------------------------
(* Every step of a call keeps the invariant.                               *)

LEMMA AcquireLemma ==
  ASSUME IInv, NEW t \in Threads, Acquire(t)
  PROVE  IInv'
  <1> DEFINE n == taken[t] + 1
  <1>0. /\ stage[t] = "lock" /\ Grantable(t, NextGuard(t))
        /\ queued' \subseteq Threads /\ data' = data /\ calls' = calls
    BY DEF Acquire, IInv, TypeOK
  <1>1. CASE CheckFails(op[t], n)
    <2>1. Return(t, FALSE, <<>>)
      BY <1>1 DEF Acquire
    <2>2. <<>> \in Seq(Seq(Values))
      OBVIOUS
    <2> QED
      BY <1>0, <2>1, <2>2, ReturnLemma
  <1>2. CASE ~CheckFails(op[t], n)
    <2>1. /\ op' = op /\ pos' = pos /\ buf' = buf /\ out' = out
          /\ taken' = [taken EXCEPT ![t] = n]
          /\ stage' = [stage EXCEPT ![t] = IF n = Len(Locks(op[t])) THEN "body" ELSE "lock"]
      BY <1>2 DEF Acquire
    <2>2. /\ op[t] # NoOp /\ taken[t] \in Nat /\ Len(Locks(op[t])) \in Nat
          /\ Len(Locks(op[t])) <= 3 /\ taken[t] < Len(Locks(op[t]))
      BY <1>0, BusyLemma DEF IInv, CallsOK
    <2>3. n \in 0 .. 3 /\ n <= Len(Locks(op[t]))
      BY <2>2
    <2>4. TypeOK'
      BY <1>0, <2>1, <2>3 DEF IInv, TypeOK
    <2>5. /\ taken'[t] = n
          /\ \A u \in Threads : u # t => taken'[u] = taken[u] /\ stage'[u] = stage[u]
      BY <2>1 DEF IInv, TypeOK
    <2>6. CallsOK'
      <3> SUFFICES ASSUME NEW u \in Threads PROVE CallsOK!(u)'
        BY DEF CallsOK
      <3>1. CASE u # t
        BY <2>1, <2>5, <3>1 DEF IInv, CallsOK, CheckFails
      <3>2. CASE u = t
        <4>1. stage'[t] = IF n = Len(Locks(op[t])) THEN "body" ELSE "lock"
          BY <2>1 DEF IInv, TypeOK
        <4>2. \A k \in 1 .. n : ~CheckFails(op[t], k)
          BY <1>2, <2>2 DEF IInv, CallsOK
        <4>3. n # Len(Locks(op[t])) => n < Len(Locks(op[t]))
          BY <2>2, <2>3
        <4>4. /\ stage'[t] = "lock" => n < Len(Locks(op[t]))
              /\ stage'[t] = "body" => n = Len(Locks(op[t]))
              /\ stage'[t] # "idle"
          BY <4>1, <4>3
        <4>5. WellFormed(op[t]) /\ pos[t] >= 1
          BY <2>2 DEF IInv, CallsOK
        <4> QED
          BY <2>1, <2>2, <2>5, <3>2, <4>2, <4>4, <4>5 DEF CheckFails
      <3> QED
        BY <3>1, <3>2
    <2>7. Exclusion'
      <3> SUFFICES ASSUME NEW v \in Threads, NEW u \in Threads,
                          NEW i \in 1 .. taken'[v], NEW j \in 1 .. taken'[u],
                          Locks(op[v])[i].mode = "write", v # u \/ i # j
                   PROVE  Locks(op[v])[i].storage # Locks(op[u])[j].storage
        BY <2>1 DEF Exclusion
      <3>1. /\ i \in 1 .. taken[v] \/ (v = t /\ i = n)
            /\ j \in 1 .. taken[u] \/ (u = t /\ j = n)
        BY <2>2, <2>5
      <3>2. CASE i \in 1 .. taken[v] /\ j \in 1 .. taken[u]
        BY <3>2 DEF IInv, Exclusion
      <3>3. CASE v = t /\ i = n /\ j \in 1 .. taken[u]
        BY <1>0, <3>3, GrantLemma DEF NextGuard
      <3>4. CASE u = t /\ j = n /\ i \in 1 .. taken[v]
        BY <1>0, <3>4, GrantLemma DEF NextGuard
      <3> QED
        BY <3>1, <3>2, <3>3, <3>4
    <2> QED
      BY <2>4, <2>6, <2>7 DEF IInv
  <1> QED
    BY <1>1, <1>2

\* Steps that change neither calls nor guards.
LEMMA FrameLemma ==
  ASSUME IInv, UNCHANGED <<op, stage, taken>>, TypeOK', \A t \in Threads : pos'[t] >= 1
  PROVE  IInv'
  <1>1. CallsOK'
    BY DEF IInv, CallsOK, CheckFails
  <1>2. Exclusion'
    BY DEF IInv, Exclusion
  <1> QED
    BY <1>1, <1>2 DEF IInv

LEMMA ParkLemma ==
  ASSUME IInv, NEW t \in Threads, Park(t)
  PROVE  IInv'
  <1>1. TypeOK'
    BY DEF IInv, TypeOK, Park
  <1>2. \A u \in Threads : pos'[u] >= 1
    BY DEF IInv, CallsOK, Park
  <1> QED
    BY <1>1, <1>2, FrameLemma DEF Park

LEMMA StepPosLemma ==
  ASSUME IInv, NEW t \in Threads, pos' = [pos EXCEPT ![t] = @ + 1]
  PROVE  pos' \in [Threads -> Nat] /\ \A u \in Threads : pos'[u] >= 1
  <1>1. pos \in [Threads -> Nat] /\ \A u \in Threads : pos[u] >= 1
    BY DEF IInv, TypeOK, CallsOK
  <1> QED
    BY <1>1

\* A call that works on the elements has passed all its checks.
LEMMA PassedLemma ==
  ASSUME IInv, NEW t \in Threads, stage[t] = "body"
  PROVE  ~Refused(op[t])
  <1>1. CASE op[t].kind # "set"
    BY <1>1 DEF Refused
  <1>2. CASE op[t].kind = "set"
    <2>1. op[t].srcs \in Seq(Tensors) /\ op[t].dst \in Tensors /\ Len(op[t].srcs) = 1
      BY <1>2, BusyLemma DEF Calls, WellFormed
    <2>2. taken[t] = Len(Locks(op[t])) /\ op[t] # NoOp
      BY BusyLemma DEF IInv, CallsOK
    <2>3. Len(Locks(op[t])) = 2
      <3> DEFINE g == Guard(op[t].dst, "write")
                 R == Reads(op[t].srcs)
      <3>1. Locks(op[t]) = <<g>> \o R
        BY <1>2 DEF Locks
      <3>2. g \in Guards /\ Len(R) = 1 /\ R \in Seq(Guards)
        <4>1. op[t].srcs[1] \in Tensors
          BY <2>1
        <4>2. \A x \in Tensors, m \in Modes : Guard(x, m) \in Guards
          BY TensorAssumption DEF Guard, Guards
        <4>3. \A k \in 1 .. 1 : Guard(op[t].srcs[k], "read") \in Guards
          BY <4>1, <4>2 DEF Modes
        <4>4. R = [k \in 1 .. 1 |-> Guard(op[t].srcs[k], "read")]
          BY <2>1 DEF Reads
        <4>5. g \in Guards
          BY <2>1, <4>2 DEF Modes
        <4> HIDE DEF g, R
        <4> QED
          BY <4>3, <4>4, <4>5
      <3> HIDE DEF g, R
      <3> QED
        BY <3>1, <3>2, ConsSeq
    <2>4. 1 \in 1 .. taken[t] /\ 2 \in 1 .. taken[t]
      BY <2>2, <2>3
    <2>5. ~CheckFails(op[t], 1) /\ ~CheckFails(op[t], 2)
      BY <2>2, <2>4 DEF IInv, CallsOK
    <2> QED
      BY <1>2, <2>5 DEF CheckFails, Refused
  <1> QED
    BY <1>1, <1>2

LEMMA WriteStepLemma ==
  ASSUME IInv, NEW t \in Threads, WriteStep(t)
  PROVE  /\ IInv'
         /\ \A s \in Storages : s # StorageOf[op[t].dst] => data'[s] = data[s]
  <1>1. /\ stage[t] = "body" /\ IsWrite(op[t]) /\ pos[t] <= NumElems(op[t])
        /\ ~ElemFails(op[t], pos[t], data)
        /\ data' = WriteElem(op[t], pos[t], data)
        /\ pos' = [pos EXCEPT ![t] = @ + 1]
        /\ UNCHANGED <<op, stage, taken, queued, buf, out, calls>>
    BY DEF WriteStep, Fails
  <1>2. op[t] \in Calls /\ WellFormed(op[t]) /\ pos[t] \in Nat \ {0}
    BY <1>1, BusyLemma
  <1>3. ~Refused(op[t])
    BY <1>1, PassedLemma
  <1>4. data \in Contents
    BY DEF IInv, TypeOK, Contents
  <1>5. /\ data' \in Contents
        /\ \A s \in Storages : s # StorageOf[op[t].dst] => data'[s] = data[s]
    BY <1>1, <1>2, <1>3, <1>4, WriteElemLemma
  <1>6. pos' \in [Threads -> Nat] /\ \A u \in Threads : pos'[u] >= 1
    BY <1>1, StepPosLemma
  <1>7. TypeOK'
    BY <1>1, <1>5, <1>6 DEF IInv, TypeOK, Contents
  <1>8. IInv'
    BY <1>1, <1>6, <1>7, FrameLemma
  <1> QED
    BY <1>5, <1>8

LEMMA ReadStepLemma ==
  ASSUME IInv, NEW t \in Threads, ReadStep(t)
  PROVE  IInv'
  <1> DEFINE e == ReadElem(op[t], pos[t], data)
  <1>1. /\ stage[t] = "body" /\ ~IsWrite(op[t]) /\ pos[t] <= NumElems(op[t])
        /\ buf' = [buf EXCEPT ![t] = Append(@, e)]
        /\ pos' = [pos EXCEPT ![t] = @ + 1]
        /\ UNCHANGED <<op, stage, taken, queued, data, out, calls>>
    BY DEF ReadStep
  <1>2. op[t] \in Calls /\ WellFormed(op[t]) /\ pos[t] \in Nat \ {0}
    BY <1>1, BusyLemma
  <1>3. data \in Contents /\ buf \in [Threads -> Seq(Seq(Values))]
    BY DEF IInv, TypeOK, Contents
  <1>4. e \in Seq(Values)
    BY <1>1, <1>2, <1>3, ReadElemLemma
  <1> HIDE DEF e
  <1>5. buf' \in [Threads -> Seq(Seq(Values))]
    BY <1>1, <1>3, <1>4
  <1>6. pos' \in [Threads -> Nat] /\ \A u \in Threads : pos'[u] >= 1
    BY <1>1, StepPosLemma
  <1>7. TypeOK'
    BY <1>1, <1>5, <1>6 DEF IInv, TypeOK
  <1> QED
    BY <1>1, <1>6, <1>7, FrameLemma

LEMMA NextArgLemma ==
  ASSUME IInv, NEW t \in Threads, NextArg(t)
  PROVE  IInv'
  <1> DEFINE o == [op[t] EXCEPT !.srcs = Tail(@)]
  <1>1. /\ stage[t] = "body" /\ op[t].kind = "cat" /\ Len(op[t].srcs) > 1
        /\ op' = [op EXCEPT ![t] = o]
        /\ stage' = [stage EXCEPT ![t] = "lock"]
        /\ taken' = [taken EXCEPT ![t] = 0]
        /\ pos' = [pos EXCEPT ![t] = 1]
        /\ UNCHANGED <<queued, data, buf, out, calls>>
    BY DEF NextArg, MoreArgs
  <1>2. op[t] \in Calls /\ WellFormed(op[t])
    BY <1>1, BusyLemma
  <1>3. /\ op[t].srcs \in Seq(Tensors) /\ Len(op[t].srcs) \in Nat /\ Len(op[t].srcs) <= 3
        /\ op[t] \in [kind : WriteKinds \cup ReadKinds, dst : Tensors,
                      srcs : Seq(Tensors), arg : Nat]
    BY <1>2 DEF Calls, WellFormed
  <1>4. Tail(op[t].srcs) \in Seq(Tensors) /\ Len(Tail(op[t].srcs)) = Len(op[t].srcs) - 1
    BY <1>1, <1>3
  <1>5. o \in Calls /\ o.kind = "cat" /\ o.srcs = Tail(op[t].srcs)
    BY <1>1, <1>3, <1>4 DEF Calls
  <1>6. WellFormed(o)
    <2>1. Len(o.srcs) >= 1 /\ Len(o.srcs) <= 3
      BY <1>1, <1>3, <1>4, <1>5
    <2> QED
      BY <1>5, <2>1 DEF WellFormed
  <1> HIDE DEF o
  <1>7. o # NoOp /\ 0 < Len(Locks(o))
    <2>1. o # NoOp
      BY <1>5, NoOpAssumption
    <2>2. Locks(o) \in Seq(Guards) /\ 1 <= Len(Locks(o))
      BY <1>5, <1>6, LocksLemma
    <2> QED
      BY <2>1, <2>2
  <1>8. TypeOK'
    BY <1>1, <1>5 DEF IInv, TypeOK
  <1>9. /\ op'[t] = o /\ stage'[t] = "lock" /\ taken'[t] = 0 /\ pos'[t] = 1
        /\ \A u \in Threads : u # t =>
              /\ op'[u] = op[u] /\ stage'[u] = stage[u]
              /\ taken'[u] = taken[u] /\ pos'[u] = pos[u]
    BY <1>1 DEF IInv, TypeOK
  <1>10. CallsOK'
    <2> SUFFICES ASSUME NEW u \in Threads PROVE CallsOK!(u)'
      BY DEF CallsOK
    <2>1. CASE u = t
      <3>1. pos'[u] >= 1
        BY <1>8, <1>9, <2>1 DEF TypeOK
      <3> QED
        BY <1>6, <1>7, <1>9, <2>1, <3>1
    <2>2. CASE u # t
      BY <1>9, <2>2 DEF IInv, CallsOK, CheckFails
    <2> QED
      BY <2>1, <2>2
  <1>11. Exclusion'
    <2>1. \A u \in Threads : \A i \in 1 .. taken'[u] : u # t
      BY <1>9
    <2> QED
      BY <1>9, <2>1 DEF IInv, Exclusion
  <1> QED
    BY <1>8, <1>10, <1>11 DEF IInv

LEMMA FinishLemma ==
  ASSUME IInv, NEW t \in Threads, Finish(t)
  PROVE  IInv'
  <1>1. queued' \subseteq Threads /\ data' = data /\ calls' = calls
    BY DEF Finish, IInv, TypeOK
  <1>2. <<>> \in Seq(Seq(Values)) /\ buf[t] \in Seq(Seq(Values))
    BY DEF IInv, TypeOK
  <1>3. \/ Return(t, FALSE, <<>>) \/ Return(t, TRUE, buf[t])
    BY DEF Finish
  <1> QED
    BY <1>1, <1>2, <1>3, ReturnLemma

LEMMA NextLemma == IInv /\ [Next]_vars => IInv'
  <1> SUFFICES ASSUME IInv, [Next]_vars PROVE IInv'
    OBVIOUS
  <1>1. CASE UNCHANGED vars
    <2>1. TypeOK'
      BY <1>1 DEF vars, IInv, TypeOK
    <2>2. \A t \in Threads : pos'[t] >= 1
      BY <1>1 DEF vars, IInv, CallsOK
    <2> QED
      BY <1>1, <2>1, <2>2, FrameLemma DEF vars
  <1>2. ASSUME NEW t \in Threads, Begin(t) PROVE IInv'
    <2>1. op[t] = NoOp /\ calls[t] < MaxCalls
      BY <1>2 DEF Begin
    <2>2. PICK o \in Calls : WellFormed(o) /\ Start(t, o)
      BY <1>2, BeginLemma
    <2> QED
      BY <2>1, <2>2, StartLemma
  <1>3. ASSUME NEW t \in Threads, Progress(t) PROVE IInv'
    <2>1. CASE Acquire(t)
      BY <2>1, AcquireLemma
    <2>2. CASE Park(t)
      BY <2>2, ParkLemma
    <2>3. CASE WriteStep(t)
      BY <2>3, WriteStepLemma
    <2>4. CASE ReadStep(t)
      BY <2>4, ReadStepLemma
    <2>5. CASE NextArg(t)
      BY <2>5, NextArgLemma
    <2>6. CASE Finish(t)
      BY <2>6, FinishLemma
    <2> QED
      BY <1>3, <2>1, <2>2, <2>3, <2>4, <2>5, <2>6 DEF Progress
  <1> QED
    BY <1>1, <1>2, <1>3 DEF Next

THEOREM Invariance == Spec => []IInv
  BY InitLemma, NextLemma, PTL DEF Spec

\* Every reachable state of the storages, the calls and their results is well
\* typed: in particular every index computed by an in-place call is one of the
\* tensor it writes, and every guard count is one of the call's.
THEOREM TypeCorrect == Spec => []TypeOK
  <1>1. IInv => TypeOK
    BY DEF IInv
  <1> QED
    BY <1>1, Invariance, PTL

\* While a call works on the elements, the storages it reads stay as they
\* are, and the storage it writes changes only by its own steps, whatever the
\* other threads do: the guards are held until the result is complete.
THEOREM ArgsAreStable == Spec => StableArgs
  <1>1. ASSUME IInv, [Next]_vars, NEW t \in Threads, stage[t] = "body"
        PROVE  /\ \A i \in 1 .. Len(op[t].srcs) :
                    (op[t].kind # "cat" \/ i = 1) =>
                      data'[StorageOf[op[t].srcs[i]]] = data[StorageOf[op[t].srcs[i]]]
               /\ (IsWrite(op[t]) /\ pos'[t] = pos[t]) =>
                    data'[StorageOf[op[t].dst]] = data[StorageOf[op[t].dst]]
    <2>1. CASE data' = data
      BY <2>1
    <2>2. CASE \E u \in Threads : WriteStep(u)
      <3>1. PICK u \in Threads : WriteStep(u)
        BY <2>2
      <3>2. /\ stage[u] = "body" /\ IsWrite(op[u])
            /\ pos' = [pos EXCEPT ![u] = @ + 1]
        BY <3>1 DEF WriteStep
      <3>3. /\ op[u] \in Calls /\ WellFormed(op[u]) /\ op[t] \in Calls /\ WellFormed(op[t])
        BY <1>1, <3>2, BusyLemma
      <3>4. PICK i \in 1 .. Len(Locks(op[u])) : Locks(op[u])[i] = Guard(op[u].dst, "write")
        BY <3>2, <3>3, LocksLemma
      <3>5. i \in 1 .. taken[u]
        BY <1>1, <3>2 DEF IInv, CallsOK
      <3>6. Locks(op[u])[i].mode = "write" /\ Locks(op[u])[i].storage = StorageOf[op[u].dst]
        BY <3>4 DEF Guard
      <3>7. \A s \in Storages : s # StorageOf[op[u].dst] => data'[s] = data[s]
        BY <1>1, <3>1, WriteStepLemma
      <3>8. ASSUME NEW k \in 1 .. Len(op[t].srcs), op[t].kind # "cat" \/ k = 1
            PROVE  data'[StorageOf[op[t].srcs[k]]] = data[StorageOf[op[t].srcs[k]]]
        <4>1. PICK j \in 1 .. Len(Locks(op[t])) : Locks(op[t])[j] = Guard(op[t].srcs[k], "read")
          BY <3>3, <3>8, LocksLemma
        <4>2. j \in 1 .. taken[t]
          BY <1>1 DEF IInv, CallsOK
        <4>3. /\ Locks(op[t])[j].mode = "read"
              /\ Locks(op[t])[j].storage = StorageOf[op[t].srcs[k]]
          BY <4>1 DEF Guard
        <4>4. u # t \/ i # j
          BY <3>6, <4>3
        <4>5. StorageOf[op[u].dst] # StorageOf[op[t].srcs[k]]
          BY <1>1, <3>5, <3>6, <4>2, <4>3, <4>4 DEF IInv, Exclusion
        <4>6. StorageOf[op[t].srcs[k]] \in Storages
          <5>1. op[t].srcs[k] \in Tensors
            BY <3>3 DEF Calls
          <5> QED
            BY <5>1, TensorAssumption
        <4> QED
          BY <3>7, <4>5, <4>6
      <3>9. ASSUME IsWrite(op[t]), pos'[t] = pos[t]
            PROVE  data'[StorageOf[op[t].dst]] = data[StorageOf[op[t].dst]]
        <4>1. u # t
          <5>1. pos \in [Threads -> Nat]
            BY <1>1 DEF IInv, TypeOK
          <5> QED
            BY <3>2, <3>9, <5>1
        <4>2. PICK j \in 1 .. Len(Locks(op[t])) : Locks(op[t])[j] = Guard(op[t].dst, "write")
          BY <3>3, <3>9, LocksLemma
        <4>3. j \in 1 .. taken[t]
          BY <1>1 DEF IInv, CallsOK
        <4>4. Locks(op[t])[j].storage = StorageOf[op[t].dst]
          BY <4>2 DEF Guard
        <4>5. StorageOf[op[u].dst] # StorageOf[op[t].dst]
          BY <1>1, <3>5, <3>6, <4>1, <4>3, <4>4 DEF IInv, Exclusion
        <4>6. StorageOf[op[t].dst] \in Storages
          BY <3>3, TensorAssumption DEF Calls
        <4> QED
          BY <3>7, <4>5, <4>6
      <3> QED
        BY <3>8, <3>9
    <2>3. data' = data \/ \E u \in Threads : WriteStep(u)
      <3>1. ASSUME NEW u \in Threads, Begin(u) PROVE data' = data
        BY <3>1, BeginLemma DEF Start
      <3>2. ASSUME NEW u \in Threads, Progress(u) PROVE data' = data \/ WriteStep(u)
        BY <3>2 DEF Progress, Acquire, Park, ReadStep, NextArg, Finish
      <3> QED
        BY <1>1, <3>1, <3>2 DEF Next, vars
    <2> QED
      BY <2>1, <2>2, <2>3
  <1>2. IInv /\ [Next]_vars => StableStep
    BY <1>1 DEF StableStep
  <1> QED
    BY <1>2, Invariance, PTL DEF Spec, StableArgs
-----------------------------------------------------------------------------
(* Who waits for whom.                                                     *)

\* Var::set and slice_set get a source on another storage than they write.
Apart(o) ==
  o.kind \in {"set", "slice_set"} => \A j \in 1 .. Len(o.srcs) : ~same_storage(o.dst, o.srcs[j])

\* Whoever is parked asks for a write guard.
Parked == \A t \in queued : stage[t] = "lock" /\ NextGuard(t).mode = "write"

LInv == Parked /\ \A t \in Threads : op[t] # NoOp => Apart(op[t])

\* What Begin establishes of the storages of a call: those of Var::set and of
\* slice_set are compared first.
LEMMA ApartStart ==
  ASSUME TypeOK, NEW t \in Threads, Begin(t)
  PROVE  Apart(op'[t])
  <1>1. \A o : Start(t, o) => op'[t] = o
    BY DEF Start, TypeOK
  <1>2. ASSUME NEW k \in {"set", "slice_set"}, NEW x \in Tensors, NEW y \in Tensors, NEW n \in Nat,
               ~same_storage(x, y), Start(t, Call(k, x, <<y>>, n))
        PROVE  Apart(op'[t])
    <2> DEFINE xs == <<y>>
               o == Call(k, x, xs, n)
    <2>1. xs \in Seq(Tensors) /\ Len(xs) = 1 /\ xs[1] = y
      OBVIOUS
    <2>2. op'[t] = o
      BY <1>1, <1>2
    <2> HIDE DEF xs
    <2>3. k \in WriteKinds \cup ReadKinds
      BY DEF WriteKinds
    <2>4. o.dst = x /\ o.srcs = xs
      BY <2>1, <2>3, CallLemma
    <2> HIDE DEF o
    <2>5. \A j \in 1 .. Len(xs) : ~same_storage(x, xs[j])
      BY <1>2, <2>1
    <2>6. \A j \in 1 .. Len(o.srcs) : ~same_storage(o.dst, o.srcs[j])
      BY <2>4, <2>5
    <2> QED
      BY <2>2, <2>6 DEF Apart
  <1>3. ASSUME NEW k \in WriteKinds \cup ReadKinds, k \notin {"set", "slice_set"},
               NEW x \in Tensors, NEW xs \in Seq(Tensors), NEW n \in Nat, Start(t, Call(k, x, xs, n))
        PROVE  Apart(op'[t])
    <2>1. op'[t] = Call(k, x, xs, n) /\ Call(k, x, xs, n).kind = k
      BY <1>1, <1>3, CallLemma
    <2> QED
      BY <1>3, <2>1 DEF Apart
  <1>4. 0 \in Nat /\ Values \subseteq Nat /\ \A x, y, z \in Tensors :
          <<>> \in Seq(Tensors) /\ <<x>> \in Seq(Tensors) /\ <<x, y>> \in Seq(Tensors)
            /\ <<x, y, z>> \in Seq(Tensors)
    BY TensorAssumption DEF Values
  <1>5. /\ {"unary", "binary", "where_cond", "cat"} \subseteq WriteKinds \cup ReadKinds
        /\ {"const_set", "scatter_set", "inplace"} \subseteq WriteKinds \cup ReadKinds
    BY DEF WriteKinds, ReadKinds
  <1>6. CASE Unary(t)
    <2>1. PICK x \in Tensors : Start(t, Call("unary", x, <<x>>, 0))
      BY <1>6 DEF Unary
    <2> QED
      BY <1>3, <1>4, <1>5, <2>1
  <1>7. CASE Binary(t)
    <2>1. PICK x \in Tensors, y \in Tensors : Start(t, Call("binary", x, <<x, y>>, 0))
      BY <1>7 DEF Binary
    <2> QED
      BY <1>3, <1>4, <1>5, <2>1
  <1>8. CASE WhereCond(t)
    <2>1. PICK x \in Tensors, y \in Tensors, z \in Tensors :
            Start(t, Call("where_cond", x, <<x, y, z>>, 0))
      BY <1>8 DEF WhereCond
    <2> QED
      BY <1>3, <1>4, <1>5, <2>1
  <1>9. CASE Cat(t)
    <2>1. PICK x \in Tensors, y \in Tensors : Start(t, Call("cat", x, <<x, y>>, 0))
      BY <1>9 DEF Cat
    <2> QED
      BY <1>3, <1>4, <1>5, <2>1
  <1>10. CASE ConstSet(t)
    <2>1. PICK x \in Tensors, v \in Values : Start(t, Call("const_set", x, <<>>, v))
      BY <1>10 DEF ConstSet
    <2> QED
      BY <1>3, <1>4, <1>5, <2>1
  <1>11. CASE VarSet(t)
    <2>1. PICK x \in Tensors, y \in Tensors :
            ~same_storage(x, y) /\ Start(t, Call("set", x, <<y>>, 0))
      BY <1>11 DEF VarSet
    <2> QED
      BY <1>2, <1>4, <2>1
  <1>12. CASE SliceSet(t)
    <2>1. PICK x \in Tensors, y \in Tensors, offset \in Nat :
            ~same_storage(x, y) /\ Start(t, Call("slice_set", x, <<y>>, offset))
      BY <1>12 DEF SliceSet
    <2> QED
      BY <1>2, <2>1
  <1>13. CASE ScatterSet(t)
    <2>1. PICK x \in Tensors, i \in Tensors, y \in Tensors :
            Start(t, Call("scatter_set", x, <<i, y>>, 0))
      BY <1>13 DEF ScatterSet
    <2> QED
      BY <1>3, <1>4, <1>5, <2>1
  <1>14. CASE InplaceOp(t)
    <2>1. PICK x \in Tensors :
            \/ Start(t, Call("inplace", x, <<>>, 0))
            \/ \E y \in Tensors : Start(t, Call("inplace", x, <<y>>, 0))
            \/ \E y, z \in Tensors : Start(t, Call("inplace", x, <<y, z>>, 0))
      BY <1>14 DEF InplaceOp
    <2> QED
      BY <1>3, <1>4, <1>5, <2>1
  <1> QED
    BY <1>6, <1>7, <1>8, <1>9, <1>10, <1>11, <1>12, <1>13, <1>14 DEF Begin

\* The guards of one call: all are for reading if it only reads, and one at most
\* is a write guard; if the operation takes one guard only, or compares the
\* storages of its arguments, they are of different storages.
LEMMA GuardsLemma ==
  ASSUME NEW o \in Calls, WellFormed(o), Apart(o),
         NEW i \in 1 .. Len(Locks(o)), NEW j \in 1 .. Len(Locks(o)), i # j
  PROVE  /\ ~IsWrite(o) => Locks(o)[i].mode = "read"
         /\ ~(Locks(o)[i].mode = "write" /\ Locks(o)[j].mode = "write")
         /\ o.kind \notin UncheckedKinds => Locks(o)[i].storage # Locks(o)[j].storage
  <1> USE DEF WriteKinds, ReadKinds, UncheckedKinds
  <1>0. /\ o.srcs \in Seq(Tensors) /\ o.dst \in Tensors
        /\ o.kind \in WriteKinds \cup ReadKinds
        /\ Len(o.srcs) \in Nat
    BY DEF Calls
  <1>1. PICK n \in Nat : n = Len(o.srcs)
    BY <1>0
  <1>2. \A x, m : Guard(x, m).storage = StorageOf[x] /\ Guard(x, m).mode = m
    BY DEF Guard
  <1>3. \A k \in 1 .. n : Reads(o.srcs)[k] = Guard(o.srcs[k], "read")
    BY <1>1 DEF Reads
  <1>4. Reads(o.srcs) \in Seq(Guards) /\ Len(Reads(o.srcs)) = n
    <2>1. \A k \in 1 .. n : o.srcs[k] \in Tensors
      BY <1>0, <1>1
    <2>2. \A x \in Tensors : Guard(x, "read") \in Guards
      BY TensorAssumption DEF Guard, Guards, Modes
    <2> QED
      BY <1>1, <2>1, <2>2 DEF Reads
  <1>5. CASE o.kind \in {"unary", "binary", "where_cond"}
    <2>1. Locks(o) = Reads(o.srcs) /\ ~IsWrite(o)
      BY <1>5 DEF Locks, IsWrite
    <2>2. i \in 1 .. n /\ j \in 1 .. n
      BY <1>4, <2>1
    <2>3. /\ Locks(o)[i].mode = "read" /\ Locks(o)[i].storage = StorageOf[o.srcs[i]]
          /\ Locks(o)[j].mode = "read" /\ Locks(o)[j].storage = StorageOf[o.srcs[j]]
      BY <1>2, <1>3, <2>1, <2>2
    <2>4. o.kind \in UncheckedKinds
      <3>1. o.kind = "unary" => n = 1
        BY <1>1 DEF WellFormed
      <3> QED
        BY <1>5, <2>2, <3>1
    <2> QED
      BY <2>1, <2>3, <2>4
  <1>6. CASE o.kind = "cat"
    <2>1. Locks(o) = Reads(<<Head(o.srcs)>>)
      BY <1>6 DEF Locks
    <2>2. Len(Locks(o)) = 1
      BY <2>1 DEF Reads
    <2>3. FALSE
      BY <2>2
    <2> QED
      BY <2>3
  <1>7. CASE o.kind = "slice_set"
    <2> DEFINE W == <<Guard(o.dst, "write")>>
               R == Reads(o.srcs)
    <2>1. Locks(o) = R \o W /\ n = 1
      BY <1>1, <1>7 DEF Locks, WellFormed
    <2>2. W \in Seq(Guards) /\ Len(W) = 1 /\ W[1] = Guard(o.dst, "write")
      BY <1>0, TensorAssumption DEF Guard, Guards, Modes
    <2>3. R \in Seq(Guards) /\ Len(R) = 1 /\ R[1] = Guard(o.srcs[1], "read")
      BY <1>3, <1>4, <2>1
    <2> HIDE DEF W, R
    <2>31. /\ Len(R \o W) = Len(R) + Len(W)
          /\ \A k \in 1 .. Len(R) + Len(W) :
               (R \o W)[k] = IF k <= Len(R) THEN R[k] ELSE W[k - Len(R)]
      BY <2>2, <2>3, ConcatProperties
    <2>4. /\ Len(Locks(o)) = 2 /\ Locks(o)[1] = Guard(o.srcs[1], "read")
          /\ Locks(o)[2] = Guard(o.dst, "write")
      BY <2>1, <2>2, <2>3, <2>31
    <2>5. StorageOf[o.dst] # StorageOf[o.srcs[1]] /\ IsWrite(o)
      BY <1>1, <1>7, <2>1 DEF Apart, same_storage, IsWrite
    <2>6. (i = 1 /\ j = 2) \/ (i = 2 /\ j = 1)
      BY <2>4
    <2> QED
      BY <1>2, <2>4, <2>5, <2>6
  <1>8. CASE o.kind \in WriteKinds \ {"slice_set"}
    <2> DEFINE R == Reads(o.srcs)
               g == Guard(o.dst, "write")
    <2>1. g \in Guards
      BY <1>0, TensorAssumption DEF Guard, Guards, Modes
    <2>2. Locks(o) = <<g>> \o R /\ IsWrite(o)
      BY <1>8 DEF Locks, IsWrite
    <2>3. R \in Seq(Guards) /\ Len(R) = n
      BY <1>4
    <2> HIDE DEF R, g
    <2>4. /\ Len(Locks(o)) = n + 1 /\ Locks(o)[1] = g
          /\ \A k \in 1 .. n : Locks(o)[k + 1] = R[k]
      BY <2>1, <2>2, <2>3, ConsSeq
    <2>0. (o.kind = "const_set" => n = 0) /\ (o.kind = "set" => n = 1)
      BY <1>1 DEF WellFormed
    <2>5. ASSUME NEW k \in 1 .. n + 1, k # 1
          PROVE  /\ Locks(o)[k].mode = "read"
                 /\ o.kind \notin UncheckedKinds => Locks(o)[k].storage # StorageOf[o.dst]
      <3>1. k - 1 \in 1 .. n /\ (k - 1) + 1 = k
        BY <2>5
      <3>2. Locks(o)[k] = Guard(o.srcs[k - 1], "read")
        BY <1>3, <2>4, <3>1 DEF R
      <3>3. o.kind \notin UncheckedKinds => o.kind = "set"
        BY <1>8, <2>0, <3>1
      <3>4. o.kind = "set" => ~same_storage(o.dst, o.srcs[k - 1])
        BY <1>1, <3>1 DEF Apart
      <3>5. o.kind \notin UncheckedKinds => StorageOf[o.srcs[k - 1]] # StorageOf[o.dst]
        BY <3>3, <3>4 DEF same_storage
      <3> QED
        BY <1>2, <3>2, <3>5
    <2>6. Locks(o)[1].mode = "write" /\ Locks(o)[1].storage = StorageOf[o.dst]
      BY <1>2, <2>4 DEF g
    <2>7. i \in 1 .. n + 1 /\ j \in 1 .. n + 1 /\ (i = 1 \/ j = 1 \/ n >= 2)
      BY <2>4
    <2>8. n >= 2 => o.kind \in UncheckedKinds
      BY <1>8, <2>0
    <2> QED
      BY <2>2, <2>5, <2>6, <2>7, <2>8
  <1> QED
    BY <1>0, <1>5, <1>6, <1>7, <1>8

\* The guard a thread asks for is one of its call's, after those it holds.
LEMMA AskLemma ==
  ASSUME IInv, NEW t \in Threads, stage[t] = "lock"
  PROVE  /\ op[t] \in Calls /\ op[t] # NoOp /\ WellFormed(op[t])
         /\ taken[t] + 1 \in 1 .. Len(Locks(op[t])) /\ NextGuard(t) \in Guards
         /\ \A i \in 1 .. taken[t] : i \in 1 .. Len(Locks(op[t])) /\ i # taken[t] + 1
  <1>1. /\ Locks(op[t]) \in Seq(Guards) /\ taken[t] \in Nat /\ Len(Locks(op[t])) \in Nat
        /\ taken[t] < Len(Locks(op[t]))
    BY BusyLemma DEF IInv, CallsOK
  <1>2. taken[t] + 1 \in 1 .. Len(Locks(op[t]))
    BY <1>1
  <1>3. NextGuard(t) \in Guards
    BY <1>1, <1>2 DEF NextGuard
  <1>4. \A i \in 1 .. taken[t] : i \in 1 .. Len(Locks(op[t])) /\ i # taken[t] + 1
    BY <1>1
  <1> QED
    BY <1>2, <1>3, <1>4, BusyLemma

\* A call that only reads asks for and holds read guards only.
LEMMA ReaderLemma ==
  ASSUME IInv, NEW t \in Threads, stage[t] = "lock", ~IsWrite(op[t])
  PROVE  \A k \in 1 .. Len(Locks(op[t])) : Locks(op[t])[k].mode = "read"
  <1>1. op[t] \in Calls /\ op[t].kind \in ReadKinds
    BY AskLemma DEF Calls, IsWrite
  <1>2. \A x : Guard(x, "read").mode = "read"
    BY DEF Guard
  <1>3. \A xs \in Seq(Tensors) : \A k \in 1 .. Len(Reads(xs)) : Reads(xs)[k].mode = "read"
    <2> SUFFICES ASSUME NEW xs \in Seq(Tensors), NEW k \in 1 .. Len(Reads(xs))
                 PROVE  Reads(xs)[k].mode = "read"
      OBVIOUS
    <2>1. Len(xs) \in Nat /\ Reads(xs) = [i \in 1 .. Len(xs) |-> Guard(xs[i], "read")]
      BY DEF Reads
    <2>2. Len(Reads(xs)) = Len(xs)
      BY <2>1
    <2>3. Reads(xs)[k] = Guard(xs[k], "read")
      BY <2>1, <2>2
    <2> QED
      BY <1>2, <2>3
  <1>4. op[t].srcs \in Seq(Tensors) /\ Len(op[t].srcs) >= 1
    BY <1>1, AskLemma DEF Calls, WellFormed
  <1>5. CASE op[t].kind = "cat"
    <2>1. <<Head(op[t].srcs)>> \in Seq(Tensors)
      BY <1>4
    <2>2. Locks(op[t]) = Reads(<<Head(op[t].srcs)>>)
      BY <1>5 DEF Locks
    <2> QED
      BY <1>3, <2>1, <2>2
  <1>6. CASE op[t].kind # "cat"
    <2>1. Locks(op[t]) = Reads(op[t].srcs)
      BY <1>1, <1>6 DEF Locks, ReadKinds
    <2> QED
      BY <1>3, <1>4, <2>1
  <1> QED
    BY <1>5, <1>6

\* Who holds a write guard, asks for one or is parked works in place.
LEMMA WriterLemma ==
  ASSUME IInv, LInv, NEW u \in Threads, NEW s, stage[u] = "lock",
         Holds(u, s, "write") \/ NextGuard(u).mode = "write" \/ u \in queued
  PROVE  IsWrite(op[u])
  <1>1. PICK k \in 1 .. Len(Locks(op[u])) : Locks(op[u])[k].mode = "write"
    <2>1. CASE Holds(u, s, "write")
      BY <2>1, AskLemma DEF Holds
    <2>2. CASE NextGuard(u).mode = "write" \/ u \in queued
      BY <2>2, AskLemma DEF NextGuard, LInv, Parked
    <2> QED
      BY <2>1, <2>2
  <1> QED
    BY <1>1, ReaderLemma

\* Only an operation that does not compare the storages of its arguments asks
\* for a storage it keeps.
LEMMA KeepsAsked ==
  ASSUME IInv, LInv, NEW t \in Threads, stage[t] = "lock", Keeps(t, Asks(t))
  PROVE  AsksAgain(t)
  <1>1. PICK i \in 1 .. taken[t] : Locks(op[t])[i].storage = Asks(t)
    BY DEF Keeps, Holds
  <1>2. /\ op[t] \in Calls /\ WellFormed(op[t]) /\ Apart(op[t])
        /\ taken[t] + 1 \in 1 .. Len(Locks(op[t]))
        /\ i \in 1 .. Len(Locks(op[t])) /\ i # taken[t] + 1
    BY AskLemma DEF LInv
  <1>3. op[t].kind \in UncheckedKinds
    BY <1>1, <1>2, GuardsLemma DEF Asks, NextGuard
  <1> QED
    BY <1>3 DEF AsksAgain

\* A call that waits for itself asks for a storage it keeps.
LEMMA WaitsForItself ==
  ASSUME IInv, LInv, NEW t \in Threads, stage[t] = "lock", WaitsFor(t, t)
  PROVE  AsksAgain(t)
  <1>1. ~(NextGuard(t).mode = "read" /\ t \in queued)
    BY DEF LInv, Parked
  <1>2. Keeps(t, Asks(t))
    BY <1>1 DEF WaitsFor, Keeps, Asks
  <1> QED
    BY <1>2, KeepsAsked

\* A call that only reads waits for one that works in place: it holds a write
\* guard, or asks for one of the same storage.
LEMMA ReaderWaits ==
  ASSUME IInv, LInv, NEW t \in Threads, NEW u \in Threads,
         stage[t] = "lock", stage[u] = "lock", ~IsWrite(op[t]), WaitsFor(t, u)
  PROVE  /\ IsWrite(op[u])
         /\ \/ Holds(u, Asks(t), "write")
            \/ NextGuard(u).mode = "write" /\ Asks(u) = Asks(t)
  <1>1. NextGuard(t).mode = "read"
    BY AskLemma, ReaderLemma DEF NextGuard
  <1>2. \/ Holds(u, Asks(t), "write")
        \/ u \in queued /\ Asks(u) = Asks(t)
    BY <1>1 DEF WaitsFor, Asks
  <1>3. u \in queued => NextGuard(u).mode = "write"
    BY DEF LInv, Parked
  <1> QED
    BY <1>2, <1>3, WriterLemma

\* Of two calls that wait for each other one asks again or both work in place:
\* one that works in place has a single write guard.
LEMMA WaitForEachOther ==
  ASSUME IInv, LInv, NEW m \in Threads, NEW u \in Threads,
         stage[m] = "lock", stage[u] = "lock", ~IsWrite(op[u]),
         WaitsFor(m, u), WaitsFor(u, m)
  PROVE  AsksAgain(u)
  <1> SUFFICES ASSUME ~AsksAgain(u) PROVE FALSE
    OBVIOUS
  <1>1. u \notin queued /\ ~Holds(u, Asks(m), "write")
    BY WriterLemma
  <1>2. NextGuard(m).mode = "write" /\ Holds(u, Asks(m), "read")
    BY <1>1 DEF WaitsFor, Asks
  <1>3. Asks(u) # Asks(m)
    BY <1>2, KeepsAsked DEF Keeps
  <1>4. Holds(m, Asks(u), "write")
    BY <1>3, ReaderWaits
  <1>5. PICK k \in 1 .. taken[m] : Locks(op[m])[k].mode = "write"
    BY <1>4 DEF Holds
  <1>6. /\ op[m] \in Calls /\ WellFormed(op[m]) /\ Apart(op[m])
        /\ taken[m] + 1 \in 1 .. Len(Locks(op[m]))
        /\ k \in 1 .. Len(Locks(op[m])) /\ k # taken[m] + 1
    BY AskLemma DEF LInv
  <1> QED
    BY <1>2, <1>5, <1>6, GuardsLemma DEF NextGuard

\* Whoever waits, waits for a call that keeps the storage, or for one that
\* waits for such a call.
LEMMA Kept ==
  ASSUME IInv, LInv, NEW W \in SUBSET Waiting, Deadlocked(W), NEW t \in W
  PROVE  \E u \in W : Keeps(u, Asks(t))
  <1>1. PICK u \in W : WaitsFor(t, u)
    BY DEF Deadlocked
  <1>2. CASE Keeps(u, Asks(t))
    BY <1>2
  <1>3. CASE ~Keeps(u, Asks(t))
    <2>1. u \in queued /\ Asks(u) = Asks(t)
      BY <1>1, <1>3 DEF WaitsFor, Asks, Keeps
    <2>2. NextGuard(u).mode = "write"
      BY <2>1 DEF LInv, Parked
    <2>3. PICK v \in W : WaitsFor(u, v)
      BY DEF Deadlocked
    <2>4. Keeps(v, Asks(u))
      BY <2>2, <2>3 DEF WaitsFor, Asks, Keeps
    <2> QED
      BY <2>1, <2>4
  <1> QED
    BY <1>2, <1>3

LEMMA LInvNext ==
  ASSUME IInv, LInv, [Next]_vars
  PROVE  LInv'
  <1> USE DEF NextGuard
  <1>0. /\ TypeOK /\ op \in [Threads -> Calls \cup {NoOp}]
        /\ stage \in [Threads -> {"idle", "lock", "body"}]
        /\ taken \in [Threads -> 0 .. 3] /\ queued \subseteq Threads
    BY DEF IInv, TypeOK
  <1>1. ASSUME UNCHANGED <<op, stage, taken, queued>> PROVE LInv'
    BY <1>1 DEF LInv, Parked
  <1>2. ASSUME NEW t \in Threads, NEW o, NEW st, NEW n,
               op' = [op EXCEPT ![t] = o], stage' = [stage EXCEPT ![t] = st],
               taken' = [taken EXCEPT ![t] = n], queued' = queued \ {t},
               o # NoOp => Apart(o)
        PROVE  LInv'
    <2>1. \A u \in Threads : u # t =>
             op'[u] = op[u] /\ stage'[u] = stage[u] /\ taken'[u] = taken[u]
      BY <1>0, <1>2
    <2>2. op'[t] = o
      BY <1>0, <1>2
    <2>3. Parked'
      BY <1>0, <1>2, <2>1 DEF LInv, Parked
    <2>4. ASSUME NEW u \in Threads, op'[u] # NoOp PROVE Apart(op'[u])
      BY <1>2, <2>1, <2>2, <2>4 DEF LInv
    <2> QED
      BY <2>3, <2>4 DEF LInv
  <1>3. ASSUME NEW t \in Threads, stage[t] # "lock" PROVE queued \ {t} = queued
    BY <1>3 DEF LInv, Parked
  <1>4. ASSUME NEW t \in Threads, Begin(t) PROVE LInv'
    <2>1. PICK o : Start(t, o)
      BY <1>4, BeginLemma
    <2>2. op[t] = NoOp
      BY <1>4 DEF Begin
    <2>3. stage[t] = "idle"
      BY <2>2 DEF IInv, CallsOK
    <2>4. Apart(op'[t]) /\ op'[t] = o
      BY <1>0, <1>4, <2>1, ApartStart DEF Start
    <2>5. taken' = [taken EXCEPT ![t] = taken[t]]
      BY <1>0, <2>1 DEF Start
    <2>6. /\ op' = [op EXCEPT ![t] = o] /\ stage' = [stage EXCEPT ![t] = "lock"]
          /\ queued' = queued \ {t}
      BY <1>3, <2>1, <2>3 DEF Start
    <2> QED
      BY <1>2, <2>4, <2>5, <2>6
  <1>5. ASSUME NEW t \in Threads, NEW r, NEW e, Return(t, r, e), queued' = queued \ {t}
        PROVE  LInv'
    <2>1. /\ op' = [op EXCEPT ![t] = NoOp] /\ stage' = [stage EXCEPT ![t] = "idle"]
          /\ taken' = [taken EXCEPT ![t] = 0]
      BY <1>5 DEF Return
    <2> QED
      BY <1>2, <1>5, <2>1
  <1>6. ASSUME NEW t \in Threads, Acquire(t) PROVE LInv'
    <2>1. queued' = queued \ {t} /\ stage[t] = "lock"
      BY <1>6 DEF Acquire
    <2>2. CASE Return(t, FALSE, <<>>)
      BY <1>5, <2>1, <2>2
    <2>3. CASE ~Return(t, FALSE, <<>>)
      <3> DEFINE st == IF taken[t] + 1 = Len(Locks(op[t])) THEN "body" ELSE "lock"
      <3>1. /\ op' = op /\ taken' = [taken EXCEPT ![t] = taken[t] + 1]
            /\ stage' = [stage EXCEPT ![t] = st]
        BY <1>6, <2>3 DEF Acquire
      <3>2. op' = [op EXCEPT ![t] = op[t]] /\ Apart(op[t])
        BY <1>0, <2>1, <3>1, AskLemma DEF LInv
      <3> HIDE DEF st
      <3> QED
        BY <1>2, <2>1, <3>1, <3>2
    <2> QED
      BY <2>2, <2>3
  <1>7. ASSUME NEW t \in Threads, Park(t) PROVE LInv'
    BY <1>0, <1>7 DEF Park, LInv, Parked
  <1>8. ASSUME NEW t \in Threads, NextArg(t) PROVE LInv'
    <2> DEFINE o == [op[t] EXCEPT !.srcs = Tail(@)]
    <2>1. /\ stage[t] = "body" /\ op[t].kind = "cat"
          /\ op' = [op EXCEPT ![t] = o] /\ stage' = [stage EXCEPT ![t] = "lock"]
          /\ taken' = [taken EXCEPT ![t] = 0] /\ queued' = queued
      BY <1>8 DEF NextArg, MoreArgs
    <2>2. op[t] \in Calls
      BY <2>1, BusyLemma
    <2>3. o.kind = "cat"
      BY <2>1, <2>2 DEF Calls
    <2> HIDE DEF o
    <2>4. Apart(o)
      BY <2>3 DEF Apart
    <2>5. queued' = queued \ {t}
      BY <1>3, <2>1
    <2> QED
      BY <1>2, <2>1, <2>4, <2>5
  <1>9. ASSUME NEW t \in Threads, Finish(t) PROVE LInv'
    <2>1. queued' = queued \ {t}
      BY <1>3, <1>9 DEF Finish
    <2>2. Return(t, FALSE, <<>>) \/ Return(t, TRUE, buf[t])
      BY <1>9 DEF Finish
    <2> QED
      BY <1>5, <2>1, <2>2
  <1>10. ASSUME NEW t \in Threads, WriteStep(t) \/ ReadStep(t) PROVE LInv'
    BY <1>1, <1>10 DEF WriteStep, ReadStep
  <1> QED
    BY <1>1, <1>4, <1>6, <1>7, <1>8, <1>9, <1>10 DEF Next, Progress, vars

\* However many threads call what operations on whatever tensors, in-place ones
\* and arguments on one storage included: if calls wait for each other, one of
\* them was given a storage twice that the operation does not compare, or two
\* of them work in place, and the guards they have and ask for form a ring.
THEOREM DeadlocksAreExplained == Spec => []DeadlocksExplained
  <1>1. Init => LInv
    <2> SUFFICES ASSUME Init PROVE LInv
      OBVIOUS
    <2>1. queued = {} /\ \A t \in Threads : op[t] = NoOp
      BY DEF Init
    <2> QED
      BY <2>1 DEF LInv, Parked
  <1>2. IInv /\ LInv /\ [Next]_vars => LInv'
    BY LInvNext
  <1>3. IInv /\ LInv => DeadlocksExplained
    <2> SUFFICES ASSUME IInv, LInv, NEW W \in SUBSET Waiting, Deadlocked(W)
                 PROVE  Explained(W)
      BY DEF DeadlocksExplained
    <2>1. /\ W # {} /\ W \subseteq Threads /\ \A t \in W : stage[t] = "lock"
          /\ \A t \in W : \E u \in W : WaitsFor(t, u)
      BY DEF Deadlocked, Waiting
    <2>2. RingOf(W)
      <3> DEFINE S == {Asks(t) : t \in W}
      <3>1. S \in SUBSET Storages
        BY <2>1, AskLemma DEF Asks, Guards
      <3>2. S # {}
        BY <2>1
      <3>3. \A s \in S : \E t \in W : Keeps(t, s) /\ Asks(t) \in S
        BY Kept
      <3> QED
        BY <3>1, <3>2, <3>3 DEF RingOf
    <2>3. PICK m \in W : IsWrite(op[m])
      <3>1. PICK t \in W : TRUE
        BY <2>1
      <3>2. PICK u \in W : WaitsFor(t, u)
        BY <2>1
      <3> QED
        BY <2>1, <3>2, ReaderWaits
    <2>4. (\E t \in W : AsksAgain(t)) \/ \E t, u \in W : t # u /\ IsWrite(op[t]) /\ IsWrite(op[u])
      <3> SUFFICES ASSUME \A t \in W : ~AsksAgain(t), \A t \in W : IsWrite(op[t]) => t = m
                   PROVE  FALSE
        BY <2>3
      <3>1. PICK u \in W : WaitsFor(m, u)
        BY <2>1
      <3>2. u # m
        BY <2>1, <3>1, WaitsForItself
      <3>3. ~IsWrite(op[u])
        BY <3>2
      <3>4. PICK v \in W : WaitsFor(u, v)
        BY <2>1
      <3>5. v = m
        BY <2>1, <3>3, <3>4, ReaderWaits
      <3> QED
        BY <2>1, <3>1, <3>3, <3>4, <3>5, WaitForEachOther
    <2> QED
      BY <2>2, <2>3, <2>4 DEF Explained
  <1> QED
    BY <1>1, <1>2, <1>3, Invariance, PTL DEF Spec

-----------------------------------------------------------------------------
(* RunFrom is recursive over the elements.  What it computes is shown by   *)
(* looking at the first element for which it would be otherwise.           *)

LEMMA NatMin ==
  ASSUME NEW T \in SUBSET Nat, T # {}
  PROVE  \E x \in T : \A y \in T : x <= y
  <1> DEFINE R == {ss \in Nat \X Nat : ss[1] < ss[2]}
  <1>1. IsWellFoundedOn(R, Nat)
    BY NatLessThanWellFounded DEF OpToRel
  <1>2. \E x \in T : \A y \in T : ~ (<<y, x>> \in R)
    BY <1>1, WFMin
  <1>3. PICK x \in T : \A y \in T : ~ (<<y, x>> \in R)
    BY <1>2
  <1>4. ASSUME NEW y \in T PROVE x <= y
    <2>1. x \in Nat /\ y \in Nat
      OBVIOUS
    <2>2. ~ (y < x)
      BY <1>3, <2>1
    <2> QED
      BY <2>1, <2>2
  <1> QED
    BY <1>3, <1>4

\* A set of numbers that has n if it has every number below n has them all.
LEMMA NatInd ==
  ASSUME NEW T \in SUBSET Nat, 0 \in T, \A n \in Nat : n \in T => n + 1 \in T
  PROVE  T = Nat
  <1> SUFFICES ASSUME T # Nat PROVE FALSE
    OBVIOUS
  <1>1. Nat \ T \in SUBSET Nat /\ Nat \ T # {}
    OBVIOUS
  <1>2. PICK m \in Nat \ T : \A y \in Nat \ T : m <= y
    BY <1>1, NatMin
  <1>3. m # 0 /\ m - 1 \in Nat
    BY <1>2
  <1>4. m - 1 \in T
    BY <1>2, <1>3
  <1>5. (m - 1) + 1 = m
    BY <1>2
  <1> QED
    BY <1>2, <1>3, <1>4, <1>5

\* One step of RunFrom.
After(o, i, r) ==
  IF ~r.ok \/ ElemFails(o, i, r.data)
  THEN [r EXCEPT !.ok = FALSE]
  ELSE [r EXCEPT !.data = WriteElem(o, i, @)]

Before(o, d) == [data |-> d, ok |-> ~BodyFails(o)]

\* R lists what RunFrom has done after each of the elements k .. n.
IsRun(o, k, d, n, R) ==
  R = [i \in (k - 1) .. n |-> IF i = k - 1 THEN Before(o, d) ELSE After(o, i, R[i - 1])]

LEMMA RunExists ==
  ASSUME NEW o, NEW d, NEW k \in Nat \ {0}, NEW n \in Nat
  PROVE  n >= k - 1 => \E R : IsRun(o, k, d, n, R)
  <1> DEFINE T == {j \in Nat : j >= k - 1 => \E R : IsRun(o, k, d, j, R)}
  <1>1. ASSUME NEW j \in Nat, j <= k - 1 PROVE j \in T
    <2>1. CASE j < k - 1
      BY <2>1
    <2>2. CASE j = k - 1
      <3> DEFINE R == [i \in (k - 1) .. j |-> Before(o, d)]
      <3>1. IsRun(o, k, d, j, R)
        BY <2>2 DEF IsRun
      <3> QED
        BY <3>1
    <2> QED
      BY <1>1, <2>1, <2>2
  <1>2. 0 \in T
    BY <1>1
  <1>3. ASSUME NEW j \in Nat, j \in T PROVE j + 1 \in T
    <2>1. CASE j + 1 <= k - 1
      BY <1>1, <2>1
    <2>2. CASE j >= k - 1
      <3>1. PICK R : IsRun(o, k, d, j, R)
        BY <1>3, <2>2
      <3> DEFINE Q == [i \in (k - 1) .. (j + 1) |->
                         IF i = j + 1 THEN After(o, i, R[j]) ELSE R[i]]
      <3>2. \A i \in (k - 1) .. (j + 1) :
              Q[i] = IF i = k - 1 THEN Before(o, d) ELSE After(o, i, Q[i - 1])
        <4> SUFFICES ASSUME NEW i \in (k - 1) .. (j + 1)
                     PROVE  Q[i] = IF i = k - 1 THEN Before(o, d) ELSE After(o, i, Q[i - 1])
          OBVIOUS
        <4>1. CASE i = j + 1
          <5>1. Q[i] = After(o, i, R[j])
            BY <4>1
          <5>2. j \in (k - 1) .. (j + 1) /\ j # j + 1 /\ i - 1 = j /\ i # k - 1
            BY <2>2, <4>1
          <5>3. Q[i - 1] = R[j]
            BY <5>2
          <5> QED
            BY <5>1, <5>2, <5>3
        <4>2. CASE i \in (k - 1) .. j
          <5>1. Q[i] = R[i] /\ i # j + 1
            BY <4>2
          <5>2. R[i] = IF i = k - 1 THEN Before(o, d) ELSE After(o, i, R[i - 1])
            BY <3>1, <4>2 DEF IsRun
          <5>3. i # k - 1 => Q[i - 1] = R[i - 1]
            BY <4>2
          <5> HIDE DEF Q
          <5> QED
            BY <5>1, <5>2, <5>3
        <4> QED
          BY <4>1, <4>2
      <3>3. IsRun(o, k, d, j + 1, Q)
        <4>1. Q = [i \in (k - 1) .. (j + 1) |-> Q[i]]
          OBVIOUS
        <4> HIDE DEF Q
        <4> QED
          BY <3>2, <4>1 DEF IsRun
      <3> QED
        BY <3>3
    <2> QED
      BY <2>1, <2>2
  <1> HIDE DEF T
  <1>4. T = Nat
    <2>1. T \in SUBSET Nat
      BY DEF T
    <2> QED
      BY <1>2, <1>3, <2>1, NatInd
  <1> QED
    BY <1>4 DEF T

\* RunFrom is what there is after the last element.
LEMMA RunFromIs ==
  ASSUME NEW o, NEW d, NEW k \in Nat \ {0}, NumElems(o) \in Nat, k <= NumElems(o) + 1
  PROVE  \E R : IsRun(o, k, d, NumElems(o), R) /\ RunFrom(o, k, d) = R[NumElems(o)]
  <1> DEFINE N == NumElems(o)
             run == CHOOSE R : IsRun(o, k, d, N, R)
  <1>1. \E R : IsRun(o, k, d, N, R)
    <2>1. N \in Nat /\ N >= k - 1
      OBVIOUS
    <2> HIDE DEF N
    <2> QED
      BY <2>1, RunExists
  <1>2. IsRun(o, k, d, N, run)
    BY <1>1
  <1>3. RunFrom(o, k, d) = run[N]
    BY DEF RunFrom, IsRun, Before, After
  <1> QED
    BY <1>2, <1>3

LEMMA RunAfterLast ==
  ASSUME NEW o, NEW d, NumElems(o) \in Nat
  PROVE  RunFrom(o, NumElems(o) + 1, d) = Before(o, d)
  <1> DEFINE N == NumElems(o)
  <1>1. N + 1 \in Nat \ {0} /\ N + 1 <= N + 1
    OBVIOUS
  <1>2. PICK R : IsRun(o, N + 1, d, N, R) /\ RunFrom(o, N + 1, d) = R[N]
    BY <1>1, RunFromIs
  <1>3. (N + 1) - 1 = N /\ N \in N .. N
    OBVIOUS
  <1>4. R[N] = Before(o, d)
    BY <1>2, <1>3 DEF IsRun
  <1> QED
    BY <1>2, <1>4

LEMMA RunFails ==
  ASSUME NEW o, NEW d, NEW k \in Nat \ {0}, NumElems(o) \in Nat, k <= NumElems(o),
         BodyFails(o) \/ ElemFails(o, k, d)
  PROVE  RunFrom(o, k, d) = [data |-> d, ok |-> FALSE]
  <1> DEFINE N == NumElems(o)
             stop == [data |-> d, ok |-> FALSE]
  <1>1. PICK R : IsRun(o, k, d, N, R) /\ RunFrom(o, k, d) = R[N]
    BY RunFromIs
  <1>2. \A i \in (k - 1) .. N :
          R[i] = IF i = k - 1 THEN Before(o, d) ELSE After(o, i, R[i - 1])
    BY <1>1 DEF IsRun
  <1>3. k \in (k - 1) .. N /\ k - 1 \in (k - 1) .. N /\ k # k - 1
    OBVIOUS
  <1>4. R[k] = After(o, k, Before(o, d))
    BY <1>2, <1>3
  <1>5. R[k] = stop
    BY <1>4 DEF After, Before
  <1>6. \A i \in Nat : After(o, i, stop) = stop
    BY DEF After
  <1> DEFINE T == {j \in Nat : k + j <= N => R[k + j] = stop}
  <1> HIDE DEF stop, N
  <1>7. 0 \in T
    BY <1>5
  <1>8. ASSUME NEW j \in Nat, j \in T PROVE j + 1 \in T
    <2> SUFFICES ASSUME k + (j + 1) <= N PROVE R[k + (j + 1)] = stop
      OBVIOUS
    <2>1. N \in Nat
      BY DEF N
    <2>2. /\ k + (j + 1) \in (k - 1) .. N /\ k + (j + 1) # k - 1
          /\ k + (j + 1) - 1 = k + j /\ k + j <= N
      BY <2>1
    <2>3. R[k + j] = stop
      BY <1>8, <2>2
    <2>4. R[k + (j + 1)] = After(o, k + (j + 1), R[k + j])
      BY <1>2, <2>2
    <2> QED
      BY <1>6, <2>3, <2>4
  <1>9. T = Nat
    <2>1. T \in SUBSET Nat
      OBVIOUS
    <2> HIDE DEF T
    <2> QED
      BY <1>7, <1>8, <2>1, NatInd
  <1>10. N \in Nat /\ N - k \in Nat /\ k + (N - k) = N
    BY DEF N
  <1>11. R[N] = stop
    BY <1>9, <1>10
  <1> QED
    BY <1>1, <1>11 DEF stop, N

LEMMA RunGoesOn ==
  ASSUME NEW o, NEW d, NEW k \in Nat \ {0}, NumElems(o) \in Nat, k <= NumElems(o),
         ~BodyFails(o), ~ElemFails(o, k, d)
  PROVE  RunFrom(o, k, d) = RunFrom(o, k + 1, WriteElem(o, k, d))
  <1> DEFINE N == NumElems(o)
             e == WriteElem(o, k, d)
  <1>0. N \in Nat /\ k + 1 \in Nat \ {0} /\ k + 1 <= N + 1 /\ (k + 1) - 1 = k
    OBVIOUS
  <1>1. PICK R : IsRun(o, k, d, N, R) /\ RunFrom(o, k, d) = R[N]
    BY RunFromIs
  <1>2. PICK Q : IsRun(o, k + 1, e, N, Q) /\ RunFrom(o, k + 1, e) = Q[N]
    BY <1>0, RunFromIs
  <1>3. \A i \in (k - 1) .. N :
          R[i] = IF i = k - 1 THEN Before(o, d) ELSE After(o, i, R[i - 1])
    BY <1>1 DEF IsRun
  <1>4. \A i \in k .. N :
          Q[i] = IF i = k THEN Before(o, e) ELSE After(o, i, Q[i - 1])
    BY <1>0, <1>2 DEF IsRun
  <1>5. k \in (k - 1) .. N /\ k - 1 \in (k - 1) .. N /\ k # k - 1 /\ k \in k .. N
    OBVIOUS
  <1>6. R[k] = After(o, k, Before(o, d)) /\ Q[k] = Before(o, e)
    BY <1>3, <1>4, <1>5
  <1>7. R[k] = Q[k]
    BY <1>6 DEF After, Before
  <1> DEFINE T == {j \in Nat : k + j <= N => R[k + j] = Q[k + j]}
  <1> HIDE DEF e, N
  <1>8. 0 \in T
    BY <1>7
  <1>9. ASSUME NEW j \in Nat, j \in T PROVE j + 1 \in T
    <2> SUFFICES ASSUME k + (j + 1) <= N PROVE R[k + (j + 1)] = Q[k + (j + 1)]
      OBVIOUS
    <2>1. /\ k + (j + 1) \in (k - 1) .. N /\ k + (j + 1) # k - 1
          /\ k + (j + 1) \in k .. N /\ k + (j + 1) # k
          /\ k + (j + 1) - 1 = k + j /\ k + j <= N
      BY <1>0
    <2>2. R[k + j] = Q[k + j]
      BY <1>9, <2>1
    <2>3. R[k + (j + 1)] = After(o, k + (j + 1), R[k + j])
      BY <1>3, <2>1
    <2>4. Q[k + (j + 1)] = After(o, k + (j + 1), Q[k + j])
      BY <1>4, <2>1
    <2> QED
      BY <2>2, <2>3, <2>4
  <1>10. T = Nat
    <2>1. T \in SUBSET Nat
      OBVIOUS
    <2> HIDE DEF T
    <2> QED
      BY <1>8, <1>9, <2>1, NatInd
  <1>11. N - k \in Nat /\ k + (N - k) = N
    BY <1>0 DEF N
  <1>12. R[N] = Q[N]
    <2>1. N - k \in T
      <3> HIDE DEF T
      <3> QED
        BY <1>10, <1>11
    <2>2. R[k + (N - k)] = Q[k + (N - k)]
      BY <1>0, <1>11, <2>1
    <2> QED
      BY <1>11, <2>2
  <1> QED
    BY <1>1, <1>2, <1>12 DEF e

-----------------------------------------------------------------------------
(* What a writing call may assume of its elements, and what it does.       *)

LEMMA NumElemsLemma ==
  ASSUME NEW o \in Calls, WellFormed(o)
  PROVE  NumElems(o) \in Nat
  <1>1. /\ o.srcs \in Seq(Tensors) /\ o.dst \in Tensors
        /\ \A x \in Tensors : Len(LayoutOf[x]) \in Nat
        /\ o.kind \in WriteKinds \cup ReadKinds
    BY TensorAssumption DEF Calls
  <1>2. o.kind = "scatter_set" => o.srcs[2] \in Tensors
    BY <1>1 DEF WellFormed
  <1>3. o.kind \in {"set", "slice_set"} \cup ReadKinds => o.srcs[1] \in Tensors
    BY <1>1 DEF WellFormed
  <1> QED
    BY <1>1, <1>2, <1>3 DEF NumElems, WriteKinds, ReadKinds

Writes(o) == o \in Calls /\ WellFormed(o) /\ IsWrite(o) /\ ~Refused(o)

LEMMA RunFrame ==
  ASSUME NEW o, Writes(o), NEW k \in Nat \ {0}, k <= NumElems(o) + 1, NEW d \in Contents
  PROVE  /\ RunFrom(o, k, d).data \in Contents
         /\ \A s \in Storages : s # StorageOf[o.dst] => RunFrom(o, k, d).data[s] = d[s]
         /\ RunFrom(o, k, d).ok \in BOOLEAN
  <1> DEFINE N == NumElems(o)
             P(i, x) == /\ RunFrom(o, i, x).data \in Contents
                        /\ \A s \in Storages :
                             s # StorageOf[o.dst] => RunFrom(o, i, x).data[s] = x[s]
                        /\ RunFrom(o, i, x).ok \in BOOLEAN
             T == {j \in Nat : j <= N => \A x \in Contents : P(N + 1 - j, x)}
  <1>0. N \in Nat /\ o \in Calls /\ WellFormed(o) /\ IsWrite(o) /\ ~Refused(o)
    BY NumElemsLemma DEF Writes
  <1> HIDE DEF P
  <1>1. 0 \in T
    <2>1. ASSUME NEW x \in Contents PROVE P(N + 1, x)
      <3>1. RunFrom(o, N + 1, x) = Before(o, x)
        BY <1>0, RunAfterLast
      <3>2. Before(o, x).data = x /\ Before(o, x).ok \in BOOLEAN
        BY DEF Before, BodyFails
      <3> QED
        BY <3>1, <3>2 DEF P
    <2>2. N + 1 - 0 = N + 1
      BY <1>0
    <2> QED
      BY <2>1, <2>2
  <1>2. ASSUME NEW j \in Nat, j \in T PROVE j + 1 \in T
    <2> DEFINE i == N - j
    <2> SUFFICES ASSUME j + 1 <= N, NEW x \in Contents PROVE P(i, x)
      <3>1. N + 1 - (j + 1) = N - j
        BY <1>0
      <3> QED
        BY <3>1
    <2>1. i \in Nat \ {0} /\ i <= N /\ N + 1 - j = i + 1 /\ j <= N
      BY <1>0
    <2>2. CASE BodyFails(o) \/ ElemFails(o, i, x)
      <3>1. RunFrom(o, i, x) = [data |-> x, ok |-> FALSE]
        BY <1>0, <2>1, <2>2, RunFails
      <3> HIDE DEF i, T, N
      <3>2. RunFrom(o, i, x).data = x /\ RunFrom(o, i, x).ok \in BOOLEAN
        BY <3>1
      <3> QED
        BY <3>2 DEF P
    <2>3. CASE ~BodyFails(o) /\ ~ElemFails(o, i, x)
      <3> DEFINE y == WriteElem(o, i, x)
      <3>1. RunFrom(o, i, x) = RunFrom(o, i + 1, y)
        BY <1>0, <2>1, <2>3, RunGoesOn
      <3>2. y \in Contents /\ \A s \in Storages : s # StorageOf[o.dst] => y[s] = x[s]
        BY <1>0, <2>1, <2>3, WriteElemLemma
      <3> HIDE DEF y, i
      <3>3. P(i + 1, y)
        BY <1>2, <2>1, <3>2
      <3> QED
        BY <3>1, <3>2, <3>3 DEF P
    <2> QED
      BY <2>2, <2>3
  <1>3. T = Nat
    <2>1. T \in SUBSET Nat
      OBVIOUS
    <2> HIDE DEF T
    <2> QED
      BY <1>1, <1>2, <2>1, NatInd
  <1>4. N + 1 - k \in Nat /\ N + 1 - k <= N /\ N + 1 - (N + 1 - k) = k
    BY <1>0
  <1>5. P(k, d)
    BY <1>3, <1>4
  <1> QED
    BY <1>5 DEF P

\* The storages whose contents a call depends on.
Touched(o) == {StorageOf[o.dst]} \cup {StorageOf[o.srcs[i]] : i \in 1 .. Len(o.srcs)}

Agree(o, d, e) == \A s \in Touched(o) : d[s] = e[s]

LEMMA ElemAgrees ==
  ASSUME NEW o \in Calls, NEW d, NEW e, Agree(o, d, e), NEW k
  PROVE  /\ Elem(d, o.dst, k) = Elem(e, o.dst, k)
         /\ \A i \in 1 .. Len(o.srcs) : Elem(d, o.srcs[i], k) = Elem(e, o.srcs[i], k)
  BY DEF Agree, Touched, Elem

LEMMA StepAgrees ==
  ASSUME NEW o, Writes(o), NEW d \in Contents, NEW e \in Contents, Agree(o, d, e),
         NEW k \in Nat \ {0}, k <= NumElems(o)
  PROVE  /\ ElemFails(o, k, d) <=> ElemFails(o, k, e)
         /\ ~ElemFails(o, k, d) => Agree(o, WriteElem(o, k, d), WriteElem(o, k, e))
  <1>0. /\ o \in Calls /\ WellFormed(o) /\ IsWrite(o) /\ ~Refused(o)
        /\ o.srcs \in Seq(Tensors) /\ o.dst \in Tensors /\ Len(o.srcs) \in Nat
    BY DEF Writes, Calls
  <1>1. /\ Elem(d, o.dst, k) = Elem(e, o.dst, k)
        /\ \A i \in 1 .. Len(o.srcs) : Elem(d, o.srcs[i], k) = Elem(e, o.srcs[i], k)
    <2>1. o \in Calls /\ Agree(o, d, e)
      BY <1>0
    <2> QED
      BY ONLY <2>1, ElemAgrees
  <1>2. o.kind = "scatter_set" => 1 \in 1 .. Len(o.srcs) /\ 2 \in 1 .. Len(o.srcs)
    BY <1>0 DEF WellFormed
  <1>3. o.kind \in {"set", "slice_set"} => 1 \in 1 .. Len(o.srcs)
    <2>1. o.kind \in {"set", "slice_set"} => Len(o.srcs) = 1
      BY <1>0, Zenon DEF WellFormed
    <2> QED
      BY <2>1
  <1>4. o.kind = "scatter_set" => ScatterIndex(o, k, d) = ScatterIndex(o, k, e)
    BY <1>1, <1>2 DEF ScatterIndex
  <1>5. ElemFails(o, k, d) <=> ElemFails(o, k, e)
    BY <1>4 DEF ElemFails
  <1>6. TargetElem(o, k, d) = TargetElem(o, k, e)
    BY <1>4 DEF TargetElem
  <1>7. ElemValue(o, k, d) = ElemValue(o, k, e)
    <2>1. CASE o.kind = "const_set"
      BY <2>1 DEF ElemValue
    <2>2. CASE o.kind = "scatter_set"
      BY <1>1, <1>2, <2>2 DEF ElemValue
    <2>3. CASE o.kind = "inplace"
      <3>1. /\ Len(o.srcs) > 0 => Elem(d, o.srcs[1], k) = Elem(e, o.srcs[1], k)
            /\ Len(o.srcs) > 1 => Elem(d, o.srcs[2], k) = Elem(e, o.srcs[2], k)
        BY <1>0, <1>1
      <3> QED
        BY <1>1, <2>3, <3>1 DEF ElemValue
    <2>4. CASE o.kind \in {"set", "slice_set"}
      BY <1>1, <1>3, <2>4 DEF ElemValue
    <2> QED
      BY <1>0, <2>1, <2>2, <2>3, <2>4 DEF IsWrite, WriteKinds
  <1>8. ASSUME ~ElemFails(o, k, d), NEW s \in Touched(o)
        PROVE  WriteElem(o, k, d)[s] = WriteElem(o, k, e)[s]
    <2>1. d[s] = e[s] /\ d[StorageOf[o.dst]] = e[StorageOf[o.dst]]
      BY <1>8 DEF Agree, Touched
    <2>2. s \in Storages /\ StorageOf[o.dst] \in Storages
      <3>1. \A i \in 1 .. Len(o.srcs) : o.srcs[i] \in Tensors
        BY <1>0
      <3> QED
        BY <1>0, <1>8, <3>1, TensorAssumption DEF Touched
    <2> DEFINE a == TargetElem(o, k, d)
               v == ElemValue(o, k, d)
    <2>3. CASE a = 0
      BY <1>6, <2>1, <2>3 DEF WriteElem
    <2>4. CASE a # 0
      <3>1. /\ WriteElem(o, k, d) = [d EXCEPT ![StorageOf[o.dst]][LayoutOf[o.dst][a]] = v]
            /\ WriteElem(o, k, e) = [e EXCEPT ![StorageOf[o.dst]][LayoutOf[o.dst][a]] = v]
        BY <1>6, <1>7, <2>4 DEF WriteElem
      <3> HIDE DEF a, v
      <3> QED
        BY <2>1, <2>2, <3>1 DEF Contents
    <2> QED
      BY <2>3, <2>4
  <1> QED
    BY <1>5, <1>8 DEF Agree

\* A call does the same to two states of the data that agree on what it touches.
LEMMA RunAgrees ==
  ASSUME NEW o, Writes(o), NEW k \in Nat \ {0}, k <= NumElems(o) + 1,
         NEW d \in Contents, NEW e \in Contents, Agree(o, d, e)
  PROVE  /\ RunFrom(o, k, d).data[StorageOf[o.dst]] = RunFrom(o, k, e).data[StorageOf[o.dst]]
         /\ RunFrom(o, k, d).ok = RunFrom(o, k, e).ok
  <1> DEFINE N == NumElems(o)
             S == StorageOf[o.dst]
             P(i, x, y) == /\ RunFrom(o, i, x).data[S] = RunFrom(o, i, y).data[S]
                           /\ RunFrom(o, i, x).ok = RunFrom(o, i, y).ok
             T == {j \in Nat : j <= N =>
                     \A x, y \in Contents : Agree(o, x, y) => P(N + 1 - j, x, y)}
  <1>0. /\ N \in Nat /\ o \in Calls /\ WellFormed(o) /\ IsWrite(o) /\ ~Refused(o)
        /\ S \in Touched(o)
    BY NumElemsLemma DEF Writes, Touched
  <1> HIDE DEF P
  <1>1. 0 \in T
    <2>1. ASSUME NEW x \in Contents, NEW y \in Contents, Agree(o, x, y) PROVE P(N + 1, x, y)
      <3>1. RunFrom(o, N + 1, x) = Before(o, x) /\ RunFrom(o, N + 1, y) = Before(o, y)
        BY <1>0, RunAfterLast
      <3>2. /\ Before(o, x).data = x /\ Before(o, x).ok = ~BodyFails(o)
            /\ Before(o, y).data = y /\ Before(o, y).ok = ~BodyFails(o)
        BY DEF Before
      <3>3. x[S] = y[S]
        BY <1>0, <2>1 DEF Agree
      <3> QED
        BY <3>1, <3>2, <3>3 DEF P
    <2>2. N + 1 - 0 = N + 1
      BY <1>0
    <2> QED
      BY <2>1, <2>2
  <1>2. ASSUME NEW j \in Nat, j \in T PROVE j + 1 \in T
    <2> DEFINE i == N - j
    <2> SUFFICES ASSUME j + 1 <= N, NEW x \in Contents, NEW y \in Contents, Agree(o, x, y)
                 PROVE P(i, x, y)
      <3>1. N + 1 - (j + 1) = N - j
        BY <1>0
      <3> QED
        BY <3>1
    <2>1. i \in Nat \ {0} /\ i <= N /\ N + 1 - j = i + 1 /\ j <= N
      BY <1>0
    <2> HIDE DEF i
    <2>2. /\ ElemFails(o, i, x) <=> ElemFails(o, i, y)
          /\ ~ElemFails(o, i, x) => Agree(o, WriteElem(o, i, x), WriteElem(o, i, y))
      BY <2>1, StepAgrees
    <2>3. CASE BodyFails(o) \/ ElemFails(o, i, x)
      <3>1. /\ RunFrom(o, i, x) = [data |-> x, ok |-> FALSE]
            /\ RunFrom(o, i, y) = [data |-> y, ok |-> FALSE]
        BY <1>0, <2>1, <2>2, <2>3, RunFails
      <3>2. x[S] = y[S]
        BY <1>0 DEF Agree
      <3> QED
        BY <3>1, <3>2 DEF P
    <2>4. CASE ~BodyFails(o) /\ ~ElemFails(o, i, x)
      <3> DEFINE x2 == WriteElem(o, i, x)
                 y2 == WriteElem(o, i, y)
      <3>1. /\ RunFrom(o, i, x) = RunFrom(o, i + 1, x2)
            /\ RunFrom(o, i, y) = RunFrom(o, i + 1, y2)
        BY <1>0, <2>1, <2>2, <2>4, RunGoesOn
      <3>2. x2 \in Contents /\ y2 \in Contents /\ Agree(o, x2, y2)
        BY <1>0, <2>1, <2>2, <2>4, WriteElemLemma
      <3> HIDE DEF x2, y2
      <3>3. P(i + 1, x2, y2)
        BY <1>2, <2>1, <3>2
      <3> QED
        BY <3>1, <3>3 DEF P
    <2> QED
      BY <2>3, <2>4
  <1>3. T = Nat
    <2>1. T \in SUBSET Nat
      OBVIOUS
    <2> HIDE DEF T
    <2> QED
      BY <1>1, <1>2, <2>1, NatInd
  <1>4. N + 1 - k \in Nat /\ N + 1 - k <= N /\ N + 1 - (N + 1 - k) = k
    BY <1>0
  <1>5. P(k, d, e)
    BY <1>3, <1>4
  <1> QED
    BY <1>5 DEF P

-----------------------------------------------------------------------------
(* What a reading call returns.                                            *)

LEMMA ReadAgrees ==
  ASSUME NEW o \in Calls, WellFormed(o), ~IsWrite(o), NEW k \in Nat,
         NEW d, NEW e,
         \A i \in 1 .. Len(o.srcs) :
           (o.kind # "cat" \/ i = 1) => d[StorageOf[o.srcs[i]]] = e[StorageOf[o.srcs[i]]]
  PROVE  /\ ReadElem(o, k, d) = ReadElem(o, k, e)
         /\ ReadFrom(o, k, d) = ReadFrom(o, k, e)
  <1>0. o.srcs \in Seq(Tensors) /\ Len(o.srcs) \in Nat /\ o.kind \in ReadKinds
    BY DEF Calls, IsWrite
  <1>1. ASSUME NEW j PROVE ReadElem(o, j, d) = ReadElem(o, j, e)
    <2> DEFINE n == IF o.kind = "cat" THEN 1 ELSE Len(o.srcs)
    <2>1. \A i \in 1 .. n : i \in 1 .. Len(o.srcs) /\ (o.kind # "cat" \/ i = 1)
      BY <1>0 DEF WellFormed
    <2>2. \A i \in 1 .. n : Elem(d, o.srcs[i], j) = Elem(e, o.srcs[i], j)
      BY <2>1 DEF Elem
    <2> HIDE DEF n
    <2>3. [i \in 1 .. n |-> Elem(d, o.srcs[i], j)] = [i \in 1 .. n |-> Elem(e, o.srcs[i], j)]
      BY <2>2
    <2> QED
      BY <2>3 DEF ReadElem, n
  <1> QED
    BY <1>1 DEF ReadFrom

LEMMA ReadFromIs ==
  ASSUME NEW o \in Calls, WellFormed(o), ~IsWrite(o), NEW d \in Contents,
         NEW k \in Nat \ {0}, k <= NumElems(o) + 1
  PROVE  /\ ReadFrom(o, k, d) \in Seq(Seq(Values))
         /\ k = NumElems(o) + 1 => ReadFrom(o, k, d) = <<>>
         /\ k <= NumElems(o) =>
              ReadFrom(o, k, d) = <<ReadElem(o, k, d)>> \o ReadFrom(o, k + 1, d)
  <1> DEFINE N == NumElems(o)
             L(j) == N - j + 1
             E(j) == ReadElem(o, j, d)
  <1>0. N \in Nat /\ k <= N + 1
    BY NumElemsLemma
  <1>1. \A j \in Nat \ {0} : j <= N => E(j) \in Seq(Values)
    BY ReadElemLemma
  <1>2. \A j \in Nat \ {0} : ReadFrom(o, j, d) = [i \in 1 .. L(j) |-> E(j + i - 1)]
    BY DEF ReadFrom
  <1> HIDE DEF N, E
  <1>3. ASSUME NEW j \in Nat \ {0}, j <= N + 1
        PROVE  /\ ReadFrom(o, j, d) \in Seq(Seq(Values))
               /\ Len(ReadFrom(o, j, d)) = L(j)
               /\ \A i \in 1 .. L(j) : ReadFrom(o, j, d)[i] = E(j + i - 1)
    <2>1. L(j) \in Nat
      BY <1>0, <1>3
    <2>2. \A i \in 1 .. L(j) : E(j + i - 1) \in Seq(Values)
      <3>1. \A i \in 1 .. L(j) : j + i - 1 \in Nat \ {0} /\ j + i - 1 <= N
        BY <1>0
      <3> QED
        BY <1>1, <3>1
    <2> DEFINE l == L(j)
               q == [i \in 1 .. l |-> E(j + i - 1)]
    <2>3. l \in Nat /\ \A i \in 1 .. l : E(j + i - 1) \in Seq(Values)
      BY <2>1, <2>2
    <2> HIDE DEF l
    <2>4. q \in Seq(Seq(Values)) /\ Len(q) = l /\ \A i \in 1 .. l : q[i] = E(j + i - 1)
      BY <2>3
    <2>5. ReadFrom(o, j, d) = q
      BY <1>2 DEF l
    <2> HIDE DEF q
    <2> QED
      BY <2>4, <2>5 DEF l
  <1>4. ASSUME k = N + 1 PROVE ReadFrom(o, k, d) = <<>>
    BY <1>0, <1>3, <1>4
  <1>5. ASSUME k <= N
        PROVE  ReadFrom(o, k, d) = <<ReadElem(o, k, d)>> \o ReadFrom(o, k + 1, d)
    <2> DEFINE r == ReadFrom(o, k, d)
               q == ReadFrom(o, k + 1, d)
               e == E(k)
               n == N - k
    <2>1. n \in Nat /\ L(k) = n + 1 /\ L(k + 1) = n /\ k + 1 <= N + 1
      BY <1>0, <1>5
    <2> HIDE DEF L, n, r, q
    <2>2. /\ r \in Seq(Seq(Values)) /\ Len(r) = n + 1
          /\ \A i \in 1 .. n + 1 : r[i] = E(k + i - 1)
      <3>1. /\ r \in Seq(Seq(Values)) /\ Len(r) = L(k)
            /\ \A i \in 1 .. L(k) : r[i] = E(k + i - 1)
        BY <1>0, <1>3 DEF r
      <3> QED
        BY <2>1, <3>1
    <2>3. /\ q \in Seq(Seq(Values)) /\ Len(q) = n
          /\ \A i \in 1 .. n : q[i] = E(k + 1 + i - 1)
      <3>1. /\ q \in Seq(Seq(Values)) /\ Len(q) = L(k + 1)
            /\ \A i \in 1 .. L(k + 1) : q[i] = E(k + 1 + i - 1)
        BY <1>3, <2>1 DEF q
      <3> QED
        BY <2>1, <3>1
    <2>4. e \in Seq(Values)
      BY <1>1, <1>5
    <2> HIDE DEF e
    <2>5. /\ <<e>> \o q \in Seq(Seq(Values)) /\ Len(<<e>> \o q) = n + 1
          /\ (<<e>> \o q)[1] = e /\ \A i \in 1 .. n : (<<e>> \o q)[i + 1] = q[i]
      <3>1. n \in Nat /\ q \in Seq(Seq(Values)) /\ Len(q) = n /\ e \in Seq(Values)
        BY <2>1, <2>3, <2>4
      <3> QED
        BY ONLY <3>1, ConsSeq
    <2>6. ASSUME NEW i \in 1 .. n + 1 PROVE r[i] = (<<e>> \o q)[i]
      <3>1. CASE i = 1
        <4>1. r[1] = E(k)
          <5>1. 1 \in 1 .. n + 1 /\ k + 1 - 1 = k
            BY <2>1
          <5> QED
            BY <2>2, <5>1
        <4> QED
          BY <2>5, <3>1, <4>1 DEF e
      <3>2. CASE i # 1
        <4>1. i - 1 \in 1 .. n /\ (i - 1) + 1 = i /\ k + 1 + (i - 1) - 1 = k + i - 1
          BY <2>1, <3>2
        <4>2. (<<e>> \o q)[i] = q[i - 1]
          BY <2>5, <4>1
        <4>3. q[i - 1] = E(k + i - 1)
          BY <2>3, <4>1
        <4> QED
          BY <2>2, <4>2, <4>3
      <3> QED
        BY <3>1, <3>2
    <2>7. r = <<e>> \o q
      <3> DEFINE w == <<e>> \o q
      <3>1. w \in Seq(Seq(Values)) /\ Len(w) = n + 1 /\ \A i \in 1 .. n + 1 : r[i] = w[i]
        BY <2>5, <2>6
      <3> HIDE DEF w
      <3>2. r = w
        BY <2>2, <3>1, SeqEqual
      <3> QED
        BY <3>2 DEF w
    <2> QED
      BY <2>7 DEF r, e, q, E
  <1> QED
    BY <1>3, <1>4, <1>5 DEF N

-----------------------------------------------------------------------------
(* The operators of TensorOps as TensorAtomic sees them.                   *)

LEMMA AbsRunFrom ==
  ASSUME NEW o, NEW k, NEW d
  PROVE  Abs!RunFrom(o, k, d) = RunFrom(o, k, d)
  BY DEF Abs!RunFrom, RunFrom, Abs!NumElems, NumElems, Abs!BodyFails, BodyFails,
         Abs!ElemFails, ElemFails, Abs!WriteElem, WriteElem, Abs!is_contiguous, is_contiguous,
         Abs!ScatterIndex, ScatterIndex, Abs!SkipIndex, SkipIndex, Abs!Elem, Elem,
         Abs!TargetElem, TargetElem, Abs!ElemValue, ElemValue

LEMMA AbsReadFrom ==
  ASSUME NEW o, NEW k, NEW d
  PROVE  Abs!ReadFrom(o, k, d) = ReadFrom(o, k, d)
  BY DEF Abs!ReadFrom, ReadFrom, Abs!NumElems, NumElems, Abs!ReadElem, ReadElem, Abs!Elem, Elem

LEMMA AbsOps ==
  ASSUME NEW o
  PROVE  /\ Abs!IsWrite(o) <=> IsWrite(o)
         /\ Abs!Refused(o) <=> Refused(o)
         /\ Abs!MoreArgs(o) <=> MoreArgs(o)
         /\ Abs!Calls = Calls
         /\ Abs!Empty = [ok |-> TRUE, elems |-> <<>>]
         /\ Abs!Failed = [ok |-> FALSE, elems |-> <<>>]
  BY DEF Abs!IsWrite, IsWrite, Abs!Refused, Refused, Abs!MoreArgs, MoreArgs, Abs!Calls, Calls,
         Abs!WriteKinds, WriteKinds, Abs!ReadKinds, ReadKinds, Abs!Empty, Abs!Failed,
         Abs!is_contiguous, is_contiguous, Abs!SameLen, SameLen

-----------------------------------------------------------------------------
(* The invariant of the refinement: besides IInv, where a call stands.     *)

Quiet ==
  \A t \in Threads :
    /\ stage[t] = "idle" => buf[t] = <<>>
    /\ stage[t] # "body" => pos[t] = 1
    /\ op[t] # NoOp =>
         /\ IsWrite(op[t]) => buf[t] = <<>>
         /\ pos[t] <= NumElems(op[t]) + 1

RInv == IInv /\ Quiet

\* Threads that take no step stay as they are.
LEMMA QuietFrame ==
  ASSUME Quiet, NEW t \in Threads,
         \A u \in Threads : u # t =>
           op'[u] = op[u] /\ stage'[u] = stage[u] /\ pos'[u] = pos[u] /\ buf'[u] = buf[u],
         stage'[t] = "idle" => buf'[t] = <<>>,
         stage'[t] # "body" => pos'[t] = 1,
         op'[t] # NoOp => /\ IsWrite(op'[t]) => buf'[t] = <<>>
                          /\ pos'[t] <= NumElems(op'[t]) + 1
  PROVE  Quiet'
  <1> SUFFICES ASSUME NEW u \in Threads PROVE Quiet!(u)'
    BY DEF Quiet
  <1>1. CASE u = t
    BY <1>1
  <1>2. CASE u # t
    <2>1. op'[u] = op[u] /\ stage'[u] = stage[u] /\ pos'[u] = pos[u] /\ buf'[u] = buf[u]
      BY <1>2
    <2> QED
      BY <2>1 DEF Quiet
  <1> QED
    BY <1>1, <1>2

LEMMA ReturnQuiet ==
  ASSUME RInv, NEW t \in Threads, NEW r, NEW e, Return(t, r, e)
  PROVE  Quiet'
  <1>1. /\ op'[t] = NoOp /\ stage'[t] = "idle" /\ pos'[t] = 1 /\ buf'[t] = <<>>
        /\ \A u \in Threads : u # t =>
             op'[u] = op[u] /\ stage'[u] = stage[u] /\ pos'[u] = pos[u] /\ buf'[u] = buf[u]
    BY DEF RInv, IInv, TypeOK, Return
  <1> QED
    BY <1>1, QuietFrame DEF RInv

LEMMA QuietNext ==
  ASSUME RInv, NEW t \in Threads, Begin(t) \/ Progress(t)
  PROVE  Quiet'
  <1> USE DEF RInv
  <1>t. /\ op \in [Threads -> Calls \cup {NoOp}]
        /\ stage \in [Threads -> {"idle", "lock", "body"}]
        /\ pos \in [Threads -> Nat] /\ DOMAIN buf = Threads
    BY DEF IInv, TypeOK
  <1>b. ASSUME stage[t] # "idle"
        PROVE  /\ op[t] \in Calls /\ op[t] # NoOp /\ WellFormed(op[t])
               /\ NumElems(op[t]) \in Nat /\ pos[t] \in Nat \ {0}
               /\ pos[t] <= NumElems(op[t]) + 1
    BY <1>b, BusyLemma, NumElemsLemma DEF Quiet
  <1>1. CASE Begin(t)
    <2>1. op[t] = NoOp
      BY <1>1 DEF Begin
    <2>2. PICK o \in Calls : WellFormed(o) /\ Start(t, o)
      BY <1>1, BeginLemma
    <2>3. stage[t] = "idle"
      BY <2>1 DEF IInv, CallsOK
    <2>4. buf[t] = <<>> /\ pos[t] = 1 /\ NumElems(o) \in Nat
      BY <2>2, <2>3, NumElemsLemma DEF Quiet
    <2>5. /\ op'[t] = o /\ stage'[t] = "lock" /\ pos' = pos /\ buf' = buf
          /\ \A u \in Threads : u # t => op'[u] = op[u] /\ stage'[u] = stage[u]
      BY <1>t, <2>2 DEF Start
    <2>6. 1 <= NumElems(o) + 1
      BY <2>4
    <2> QED
      BY <2>4, <2>5, <2>6, QuietFrame
  <1>2. CASE Acquire(t)
    <2> DEFINE n == taken[t] + 1
    <2>1. CASE CheckFails(op[t], n)
      BY <1>2, <2>1, ReturnQuiet DEF Acquire
    <2>2. CASE ~CheckFails(op[t], n)
      <3>1. stage[t] = "lock" /\ UNCHANGED <<op, pos, buf>>
        BY <1>2, <2>2 DEF Acquire
      <3>2. /\ stage'[t] # "idle"
            /\ \A u \in Threads : u # t => stage'[u] = stage[u]
        BY <1>2, <1>t, <2>2 DEF Acquire
      <3>3. pos[t] = 1
        BY <3>1 DEF Quiet
      <3>4. op[t] # NoOp => /\ IsWrite(op[t]) => buf[t] = <<>>
                            /\ pos[t] <= NumElems(op[t]) + 1
        BY DEF Quiet
      <3> QED
        BY <3>1, <3>2, <3>3, <3>4, QuietFrame
    <2> QED
      BY <2>1, <2>2
  <1>3. CASE Park(t)
    BY <1>3 DEF Park, Quiet
  <1>4. CASE WriteStep(t)
    <2>1. /\ stage[t] = "body" /\ IsWrite(op[t]) /\ pos[t] <= NumElems(op[t])
          /\ pos' = [pos EXCEPT ![t] = @ + 1] /\ UNCHANGED <<op, stage, buf>>
      BY <1>4 DEF WriteStep
    <2>2. pos'[t] = pos[t] + 1 /\ \A u \in Threads : u # t => pos'[u] = pos[u]
      BY <1>t, <2>1
    <2>3. pos'[t] <= NumElems(op[t]) + 1
      BY <1>b, <2>1, <2>2
    <2>4. op[t] # NoOp /\ buf[t] = <<>>
      BY <1>b, <2>1 DEF Quiet
    <2> QED
      BY <2>1, <2>2, <2>3, <2>4, QuietFrame
  <1>5. CASE ReadStep(t)
    <2>1. /\ stage[t] = "body" /\ ~IsWrite(op[t]) /\ pos[t] <= NumElems(op[t])
          /\ pos' = [pos EXCEPT ![t] = @ + 1] /\ UNCHANGED <<op, stage>>
          /\ \A u \in Threads : u # t => buf'[u] = buf[u]
      BY <1>5, <1>t DEF ReadStep
    <2>2. pos'[t] = pos[t] + 1 /\ \A u \in Threads : u # t => pos'[u] = pos[u]
      BY <1>t, <2>1
    <2>3. pos'[t] <= NumElems(op[t]) + 1
      BY <1>b, <2>1, <2>2
    <2> QED
      BY <2>1, <2>2, <2>3, QuietFrame
  <1>6. CASE NextArg(t)
    <2> DEFINE o == [op[t] EXCEPT !.srcs = Tail(@)]
    <2>1. /\ stage[t] = "body" /\ op[t].kind = "cat" /\ Len(op[t].srcs) > 1
          /\ op' = [op EXCEPT ![t] = o]
          /\ stage' = [stage EXCEPT ![t] = "lock"]
          /\ pos' = [pos EXCEPT ![t] = 1] /\ buf' = buf
      BY <1>6 DEF NextArg, MoreArgs
    <2>2. IInv'
      BY <1>6, NextArgLemma
    <2> HIDE DEF o
    <2>3. /\ op'[t] = o /\ stage'[t] = "lock" /\ pos'[t] = 1
          /\ \A u \in Threads : u # t =>
               op'[u] = op[u] /\ stage'[u] = stage[u] /\ pos'[u] = pos[u]
      BY <1>t, <2>1
    <2>4. op'[t] # NoOp /\ op'[t] \in Calls /\ WellFormed(op'[t])
      BY <2>2, <2>3 DEF IInv, TypeOK, CallsOK
    <2>5. ~IsWrite(op'[t])
      <3>1. o.kind = "cat"
        BY <1>b, <2>1 DEF Calls, o
      <3> QED
        BY <2>3, <3>1 DEF IsWrite, WriteKinds
    <2>6. pos'[t] <= NumElems(op'[t]) + 1
      BY <2>3, <2>4, NumElemsLemma
    <2> QED
      BY <2>1, <2>3, <2>5, <2>6, QuietFrame
  <1>7. CASE Finish(t)
    BY <1>7, ReturnQuiet DEF Finish
  <1> QED
    BY <1>1, <1>2, <1>3, <1>4, <1>5, <1>6, <1>7 DEF Progress

LEMMA RInvariance == Spec => []RInv
  <1>1. Init => RInv
    <2>1. Init => Quiet
      BY DEF Init, Quiet
    <2> QED
      BY <2>1, InitLemma DEF RInv
  <1>2. RInv /\ [Next]_vars => RInv'
    <2> SUFFICES ASSUME RInv, [Next]_vars PROVE Quiet'
      BY NextLemma DEF RInv
    <2>1. CASE UNCHANGED vars
      BY <2>1 DEF vars, RInv, Quiet
    <2>2. CASE Next
      BY <2>2, QuietNext DEF Next
    <2> QED
      BY <2>1, <2>2
  <1> QED
    BY <1>1, <1>2, PTL DEF Spec

-----------------------------------------------------------------------------
(* The abstract state.                                                     *)

Works(t) == stage[t] = "body" /\ IsWrite(op[t])

DataAt(s) ==
  IF Writer(s) = {} THEN data[s]
  ELSE LET t == CHOOSE u \in Writer(s) : TRUE
       IN  RunFrom(op[t], pos[t], data).data[s]

ResOf(t) ==
  IF Works(t)
  THEN [ok |-> RunFrom(op[t], pos[t], data).ok, elems |-> <<>>]
  ELSE [ok |-> TRUE,
        elems |-> IF stage[t] = "body" THEN buf[t] \o ReadFrom(op[t], pos[t], data)
                  ELSE buf[t]]

Applied == [t \in Threads |-> stage[t] = "body"]

LEMMA AbsState ==
  /\ AbsData = [s \in Storages |-> DataAt(s)]
  /\ AbsRes = [t \in Threads |-> ResOf(t)]
  BY DEF AbsData, DataAt, AbsRes, ResOf, Works

\* A call that works on the elements.
BodyFacts ==
  \A t \in Threads : stage[t] = "body" =>
    /\ op[t] \in Calls /\ op[t] # NoOp /\ WellFormed(op[t])
    /\ StorageOf[op[t].dst] \in Storages
    /\ NumElems(op[t]) \in Nat /\ pos[t] \in Nat \ {0} /\ pos[t] <= NumElems(op[t]) + 1
    /\ IsWrite(op[t]) => Writes(op[t]) /\ buf[t] = <<>>

LEMMA BodyLemma == RInv => BodyFacts
  <1> SUFFICES ASSUME RInv, NEW t \in Threads, stage[t] = "body"
               PROVE  BodyFacts!(t)
    BY DEF BodyFacts
  <1>1. /\ op[t] \in Calls /\ op[t] # NoOp /\ WellFormed(op[t]) /\ pos[t] \in Nat \ {0}
        /\ ~Refused(op[t])
    BY BusyLemma, PassedLemma DEF RInv
  <1>2. NumElems(op[t]) \in Nat /\ StorageOf[op[t].dst] \in Storages
    BY <1>1, NumElemsLemma, TensorAssumption DEF Calls
  <1>3. /\ pos[t] <= NumElems(op[t]) + 1
        /\ IsWrite(op[t]) => buf[t] = <<>>
    BY <1>1 DEF RInv, Quiet
  <1> QED
    BY <1>1, <1>2, <1>3 DEF Writes

\* The storages that a call reads or writes are nobody else's to write.
ApartFacts ==
  \A t, u \in Threads : stage[t] = "body" /\ Works(u) /\ t # u =>
    /\ \A i \in 1 .. Len(op[t].srcs) :
         (op[t].kind # "cat" \/ i = 1) => StorageOf[op[t].srcs[i]] # StorageOf[op[u].dst]
    /\ IsWrite(op[t]) => StorageOf[op[t].dst] # StorageOf[op[u].dst]

LEMMA ApartLemma == RInv => ApartFacts
  <1> SUFFICES ASSUME RInv, NEW t \in Threads, NEW u \in Threads,
                      stage[t] = "body", Works(u), t # u
               PROVE  ApartFacts!(t, u)
    BY DEF ApartFacts
  <1>1. /\ op[t] \in Calls /\ WellFormed(op[t]) /\ op[u] \in Calls /\ WellFormed(op[u])
        /\ stage[u] = "body" /\ IsWrite(op[u])
    BY BodyLemma DEF BodyFacts, Works
  <1>2. taken[t] = Len(Locks(op[t])) /\ taken[u] = Len(Locks(op[u]))
    BY <1>1 DEF RInv, IInv, CallsOK
  <1>3. PICK i \in 1 .. taken[u] : Locks(op[u])[i] = Guard(op[u].dst, "write")
    BY <1>1, <1>2, LocksLemma
  <1>4. Locks(op[u])[i].mode = "write" /\ Locks(op[u])[i].storage = StorageOf[op[u].dst]
    BY <1>3 DEF Guard
  <1>5. \A j \in 1 .. taken[t] : Locks(op[t])[j].storage # StorageOf[op[u].dst]
    BY <1>4 DEF RInv, IInv, Exclusion
  <1>6. ASSUME NEW k \in 1 .. Len(op[t].srcs), op[t].kind # "cat" \/ k = 1
        PROVE  StorageOf[op[t].srcs[k]] # StorageOf[op[u].dst]
    <2>1. PICK j \in 1 .. taken[t] : Locks(op[t])[j] = Guard(op[t].srcs[k], "read")
      BY <1>1, <1>2, <1>6, LocksLemma
    <2>2. Locks(op[t])[j].storage = StorageOf[op[t].srcs[k]]
      BY <2>1 DEF Guard
    <2> QED
      BY <1>5, <2>2
  <1>7. ASSUME IsWrite(op[t]) PROVE StorageOf[op[t].dst] # StorageOf[op[u].dst]
    <2>1. PICK j \in 1 .. taken[t] : Locks(op[t])[j] = Guard(op[t].dst, "write")
      BY <1>1, <1>2, <1>7, LocksLemma
    <2>2. Locks(op[t])[j].storage = StorageOf[op[t].dst]
      BY <2>1 DEF Guard
    <2> QED
      BY <1>5, <2>2
  <1> QED
    BY <1>6, <1>7

\* What an abstract storage holds.
DataFacts ==
  /\ data \in Contents /\ AbsData \in Contents
  /\ \A t \in Threads : Works(t) =>
       AbsData[StorageOf[op[t].dst]] = RunFrom(op[t], pos[t], data).data[StorageOf[op[t].dst]]
  /\ \A s \in Storages :
       (\A t \in Threads : Works(t) => StorageOf[op[t].dst] # s) => AbsData[s] = data[s]

LEMMA DataLemma == RInv => DataFacts
  <1> SUFFICES ASSUME RInv PROVE DataFacts
    OBVIOUS
  <1>1. BodyFacts /\ ApartFacts
    BY BodyLemma, ApartLemma
  <1>2. data \in Contents
    BY DEF RInv, IInv, TypeOK, Contents
  <1>3. ASSUME NEW t \in Threads, Works(t)
        PROVE  Writer(StorageOf[op[t].dst]) = {t}
    <2>1. \A u \in Threads : Works(u) /\ u # t => StorageOf[op[u].dst] # StorageOf[op[t].dst]
      BY <1>1, <1>3 DEF ApartFacts, Works
    <2> QED
      BY <1>3, <2>1 DEF Writer, Works
  <1>4. ASSUME NEW t \in Threads, Works(t)
        PROVE  /\ DataAt(StorageOf[op[t].dst]) =
                    RunFrom(op[t], pos[t], data).data[StorageOf[op[t].dst]]
               /\ DataAt(StorageOf[op[t].dst]) \in [Cells -> Values]
               /\ StorageOf[op[t].dst] \in Storages
    <2>1. DataAt(StorageOf[op[t].dst]) =
            RunFrom(op[t], pos[t], data).data[StorageOf[op[t].dst]]
      BY <1>3, <1>4 DEF DataAt
    <2>2. /\ StorageOf[op[t].dst] \in Storages
          /\ RunFrom(op[t], pos[t], data).data \in Contents
      BY <1>1, <1>2, <1>4, RunFrame DEF BodyFacts, Works
    <2> QED
      BY <2>1, <2>2 DEF Contents
  <1>5. ASSUME NEW s \in Storages, \A t \in Threads : Works(t) => StorageOf[op[t].dst] # s
        PROVE  DataAt(s) = data[s]
    <2>1. Writer(s) = {}
      BY <1>5 DEF Writer, Works
    <2> QED
      BY <2>1 DEF DataAt
  <1>6. \A s \in Storages : DataAt(s) \in [Cells -> Values]
    <2> SUFFICES ASSUME NEW s \in Storages PROVE DataAt(s) \in [Cells -> Values]
      OBVIOUS
    <2>1. CASE \A t \in Threads : Works(t) => StorageOf[op[t].dst] # s
      BY <1>2, <1>5, <2>1 DEF Contents
    <2>2. CASE \E t \in Threads : Works(t) /\ StorageOf[op[t].dst] = s
      BY <1>4, <2>2
    <2> QED
      BY <2>1, <2>2
  <1>7. AbsData \in Contents /\ \A s \in Storages : AbsData[s] = DataAt(s)
    BY <1>6, AbsState DEF Contents
  <1> QED
    BY <1>2, <1>4, <1>5, <1>7 DEF DataFacts

\* The elements a call is about to work on are in the abstract storages.
LEMMA TouchedLemma ==
  ASSUME RInv, NEW t \in Threads, NEW s \in Storages,
         \A u \in Threads : Works(u) => StorageOf[op[u].dst] # s
  PROVE  AbsData[s] = data[s]
  BY DataLemma DEF DataFacts

LEMMA AbsNext ==
  /\ AbsData' = [s \in Storages |-> DataAt(s)']
  /\ AbsRes' = [t \in Threads |-> ResOf(t)']
  <1>1. /\ (AbsData = [s \in Storages |-> DataAt(s)])'
        /\ (AbsRes = [t \in Threads |-> ResOf(t)])'
    BY AbsState, PTL
  <1> QED
    BY <1>1

\* What changes neither data nor the calls that write changes no storage.
LEMMA DataSame ==
  ASSUME data' = data,
         \A u \in Threads : Works(u)' <=> Works(u),
         \A u \in Threads : Works(u) => op'[u] = op[u] /\ pos'[u] = pos[u]
  PROVE  AbsData' = AbsData
  <1>1. ASSUME NEW s \in Storages PROVE DataAt(s)' = DataAt(s)
    <2>1. Writer(s)' = Writer(s)
      BY DEF Writer, Works
    <2>2. CASE Writer(s) = {}
      BY <2>1, <2>2 DEF DataAt
    <2>3. CASE Writer(s) # {}
      <3> DEFINE t == CHOOSE u \in Writer(s) : TRUE
      <3>1. t \in Writer(s)
        BY <2>3
      <3>2. op'[t] = op[t] /\ pos'[t] = pos[t]
        BY <3>1 DEF Writer, Works
      <3>3. t' = t
        BY <2>1
      <3> QED
        BY <2>1, <2>3, <3>2, <3>3 DEF DataAt
    <2> QED
      BY <2>2, <2>3
  <1>2. AbsData = [s \in Storages |-> DataAt(s)]
    BY AbsState
  <1>3. AbsData' = [s \in Storages |-> DataAt(s)']
    BY AbsNext
  <1> QED
    BY <1>1, <1>2, <1>3

LEMMA ResSame ==
  ASSUME NEW t \in Threads, data' = data, op'[t] = op[t], stage'[t] = stage[t],
         pos'[t] = pos[t], buf'[t] = buf[t]
  PROVE  ResOf(t)' = ResOf(t)
  BY DEF ResOf, Works

-----------------------------------------------------------------------------
(* Every step of TensorStorage is a step of TensorAtomic or none.          *)

Stages == {"idle", "lock", "body"}

LEMMA AppliedIs ==
  ASSUME stage \in [Threads -> Stages], NEW t \in Threads, NEW x,
         stage' = [stage EXCEPT ![t] = x]
  PROVE  /\ Applied' = [Applied EXCEPT ![t] = (x = "body")]
         /\ \A u \in Threads : u # t => stage'[u] = stage[u]
         /\ stage'[t] = x
  BY DEF Applied

LEMMA ResIs ==
  ASSUME NEW t \in Threads, NEW r, ResOf(t)' = r,
         \A u \in Threads : u # t => ResOf(u)' = ResOf(u)
  PROVE  /\ AbsRes' = [AbsRes EXCEPT ![t] = r]
         /\ AbsRes[t] = ResOf(t)
  <1>1. /\ AbsRes = [u \in Threads |-> ResOf(u)]
        /\ AbsRes' = [u \in Threads |-> ResOf(u)']
    BY AbsState, AbsNext
  <1> QED
    BY <1>1

LEMMA ExceptElems ==
  ASSUME NEW g, NEW r, NEW l, NEW w, g = [ok |-> r, elems |-> l]
  PROVE  [g EXCEPT !.elems = w] = [ok |-> r, elems |-> w]
  <1>1. [[ok |-> r, elems |-> l] EXCEPT !.elems = w] = [ok |-> r, elems |-> w]
    OBVIOUS
  <1> QED
    BY <1>1

\* A return, once the data is seen to stay.
LEMMA AbsReturn ==
  ASSUME RInv, NEW t \in Threads, NEW r, NEW e, Return(t, r, e),
         data' = data, AbsData' = AbsData
  PROVE  Abs!Return(t, [ok |-> r, elems |-> e])
  <1>t. /\ op \in [Threads -> Calls \cup {NoOp}] /\ stage \in [Threads -> Stages]
        /\ pos \in [Threads -> Nat] /\ DOMAIN buf = Threads
    BY DEF RInv, IInv, TypeOK, Stages
  <1>1. /\ op' = [op EXCEPT ![t] = NoOp]
        /\ out' = [out EXCEPT ![t] = [ok |-> r, elems |-> e]]
        /\ stage' = [stage EXCEPT ![t] = "idle"]
    BY DEF Return
  <1>2. Applied' = [Applied EXCEPT ![t] = FALSE]
    BY <1>t, <1>1, AppliedIs
  <1>3. \A u \in Threads : u # t => ResOf(u)' = ResOf(u)
    <2>1. \A u \in Threads : u # t =>
            op'[u] = op[u] /\ stage'[u] = stage[u] /\ pos'[u] = pos[u] /\ buf'[u] = buf[u]
      BY <1>t DEF Return
    <2> QED
      BY <2>1, ResSame
  <1>4. ResOf(t)' = Abs!Empty
    <2>1. stage'[t] = "idle" /\ buf'[t] = <<>>
      BY <1>t DEF Return
    <2> QED
      BY <2>1, AbsOps DEF ResOf, Works
  <1>5. AbsRes' = [AbsRes EXCEPT ![t] = Abs!Empty]
    BY <1>3, <1>4, ResIs
  <1> QED
    BY <1>1, <1>2, <1>5 DEF Abs!Return, Applied

LEMMA BeginAbs ==
  ASSUME RInv, NEW t \in Threads, Begin(t)
  PROVE  Abs!Invoke(t)
  <1>t. /\ op \in [Threads -> Calls \cup {NoOp}] /\ stage \in [Threads -> Stages]
    BY DEF RInv, IInv, TypeOK, Stages
  <1>1. op[t] = NoOp
    BY DEF Begin
  <1>2. PICK o \in Calls : WellFormed(o) /\ Start(t, o)
    BY BeginLemma
  <1>3. stage[t] = "idle"
    BY <1>1 DEF RInv, IInv, CallsOK
  <1>4. /\ op' = [op EXCEPT ![t] = o] /\ stage' = [stage EXCEPT ![t] = "lock"]
        /\ UNCHANGED <<pos, data, buf, out>>
    BY <1>2 DEF Start
  <1>5. Applied' = Applied
    BY <1>t, <1>3, <1>4 DEF Applied
  <1>6. /\ op'[t] = o /\ stage'[t] = "lock"
        /\ \A u \in Threads : u # t => op'[u] = op[u] /\ stage'[u] = stage[u]
    BY <1>t, <1>4
  <1>7. AbsData' = AbsData
    BY <1>3, <1>4, <1>6, DataSame DEF Works
  <1>8. AbsRes' = AbsRes
    <2>1. ASSUME NEW u \in Threads PROVE ResOf(u)' = ResOf(u)
      <3>1. CASE u # t
        BY <1>4, <1>6, <3>1, ResSame
      <3>2. CASE u = t
        BY <1>3, <1>4, <1>6, <3>2 DEF ResOf, Works
      <3> QED
        BY <3>1, <3>2
    <2> QED
      BY <2>1, AbsState, AbsNext
  <1>9. op'[t] \in Abs!Calls /\ op' = [op EXCEPT ![t] = op'[t]]
    <2>1. Abs!Calls = Calls
      BY AbsOps
    <2>2. op'[t] \in Abs!Calls
      BY <1>6, <2>1
    <2> QED
      BY <1>4, <1>6, <2>2
  <1> QED
    BY <1>1, <1>4, <1>5, <1>7, <1>8, <1>9 DEF Abs!Invoke, Applied

LEMMA AcquireAbs ==
  ASSUME RInv, RInv', NEW t \in Threads, Acquire(t)
  PROVE  Abs!Refuse(t) \/ Abs!Write(t) \/ Abs!Read(t) \/ UNCHANGED Abs!vars
  <1>t. /\ op \in [Threads -> Calls \cup {NoOp}] /\ stage \in [Threads -> Stages]
    BY DEF RInv, IInv, TypeOK, Stages
  <1> DEFINE n == taken[t] + 1
             o == op[t]
  <1>0. /\ stage[t] = "lock" /\ data' = data
        /\ o \in Calls /\ o # NoOp /\ ~Applied[t]
    BY BusyLemma DEF Acquire, RInv, Applied
  <1>1. CASE CheckFails(o, n)
    <2>1. Return(t, FALSE, <<>>)
      BY <1>1 DEF Acquire
    <2>2. Refused(o)
      BY <1>1 DEF CheckFails, Refused
    <2>3. /\ \A u \in Threads : u # t =>
               op'[u] = op[u] /\ stage'[u] = stage[u] /\ pos'[u] = pos[u]
          /\ stage'[t] = "idle"
      BY <1>t, <2>1 DEF Return, RInv, IInv, TypeOK
    <2>4. AbsData' = AbsData
      BY <1>0, <2>3, DataSame DEF Works
    <2>5. Abs!Return(t, [ok |-> FALSE, elems |-> <<>>])
      BY <1>0, <2>1, <2>4, AbsReturn
    <2>6. Abs!Return(t, Abs!Failed) /\ Abs!Refused(o)
      BY <2>2, <2>5, AbsOps
    <2> QED
      BY <1>0, <2>6 DEF Abs!Refuse, Applied
  <1>2. CASE ~CheckFails(o, n)
    <2> DEFINE x == IF n = Len(Locks(o)) THEN "body" ELSE "lock"
    <2>1. /\ UNCHANGED <<op, pos, buf, out>>
          /\ stage' = [stage EXCEPT ![t] = x]
      BY <1>2 DEF Acquire
    <2>2. /\ stage'[t] = x /\ \A u \in Threads : u # t => stage'[u] = stage[u]
          /\ Applied' = [Applied EXCEPT ![t] = (x = "body")]
      BY <1>t, <2>1, AppliedIs
    <2>3. \A u \in Threads : u # t => ResOf(u)' = ResOf(u)
      BY <1>0, <2>1, <2>2, ResSame
    <2>4. ResOf(t) = [ok |-> TRUE, elems |-> buf[t]] /\ AbsRes[t] = ResOf(t) /\ pos[t] = 1
      BY <1>0, AbsState DEF ResOf, Works, RInv, Quiet
    <2>5. CASE x # "body"
      <3>1. Applied' = Applied
        BY <1>0, <1>t, <2>1, <2>5 DEF Applied
      <3>2. AbsData' = AbsData
        BY <1>0, <2>1, <2>2, <2>5, DataSame DEF Works
      <3>3. ResOf(t)' = ResOf(t)
        BY <1>0, <2>1, <2>2, <2>5 DEF ResOf, Works
      <3>4. AbsRes' = AbsRes
        BY <2>3, <3>3, AbsState, AbsNext
      <3> QED
        BY <2>1, <3>1, <3>2, <3>4 DEF Abs!vars, Applied
    <2>6. CASE x = "body" /\ IsWrite(o)
      <3> DEFINE S == StorageOf[o.dst]
                 r == RunFrom(o, 1, data)
                 q == RunFrom(o, 1, AbsData)
      <3>1. Works(t)' /\ ~Works(t) /\ \A u \in Threads : u # t => (Works(u)' <=> Works(u))
        BY <1>0, <2>1, <2>2, <2>6 DEF Works
      <3>2. BodyFacts' /\ ApartFacts' /\ DataFacts' /\ DataFacts
        <4>1. (RInv => BodyFacts)' /\ (RInv => ApartFacts)' /\ (RInv => DataFacts)'
          BY BodyLemma, ApartLemma, DataLemma, PTL
        <4> QED
          BY <4>1, DataLemma
      <3>3. /\ Writes(o) /\ NumElems(o) \in Nat /\ S \in Storages /\ buf[t] = <<>>
            /\ 1 \in Nat \ {0} /\ 1 <= NumElems(o) + 1
        BY <2>1, <2>4, <3>1, <3>2 DEF BodyFacts, Works
      <3>4. ASSUME NEW u \in Threads, Works(u) PROVE StorageOf[op[u].dst] \notin Touched(o)
        <4>1. u # t /\ Works(u)' /\ stage'[t] = "body"
          BY <3>1, <3>4 DEF Works
        <4>2. /\ \A i \in 1 .. Len(op'[t].srcs) :
                   (op'[t].kind # "cat" \/ i = 1) =>
                     StorageOf[op'[t].srcs[i]] # StorageOf[op'[u].dst]
              /\ IsWrite(op'[t]) => StorageOf[op'[t].dst] # StorageOf[op'[u].dst]
          BY <3>2, <4>1 DEF ApartFacts
        <4>3. o.kind # "cat"
          BY <2>6 DEF IsWrite, WriteKinds
        <4> QED
          BY <2>1, <2>6, <4>2, <4>3 DEF Touched
      <3>5. data \in Contents /\ AbsData \in Contents /\ Agree(o, data, AbsData)
        <4>1. ASSUME NEW s \in Touched(o) PROVE s \in Storages
          <5>1. o.dst \in Tensors /\ \A i \in 1 .. Len(o.srcs) : o.srcs[i] \in Tensors
            BY <1>0 DEF Calls
          <5> QED
            BY <5>1, TensorAssumption DEF Touched
        <4> QED
          BY <3>2, <3>4, <4>1 DEF DataFacts, Agree
      <3>6. /\ r.data[S] = q.data[S] /\ r.ok = q.ok /\ q.data \in Contents
            /\ \A s \in Storages : s # S => q.data[s] = AbsData[s]
        BY <3>3, <3>5, RunAgrees, RunFrame
      <3>7. AbsData' = q.data
        <4>1. AbsData'[S] = q.data[S]
          <5>1. AbsData'[StorageOf[op'[t].dst]] =
                  RunFrom(op'[t], pos'[t], data').data[StorageOf[op'[t].dst]]
            BY <3>1, <3>2 DEF DataFacts
          <5> QED
            BY <1>0, <2>1, <2>4, <3>6, <5>1
        <4>2. ASSUME NEW s \in Storages, s # S PROVE AbsData'[s] = q.data[s]
          <5>1. CASE \E u \in Threads : Works(u) /\ StorageOf[op[u].dst] = s
            <6>1. PICK u \in Threads : Works(u) /\ StorageOf[op[u].dst] = s
              BY <5>1
            <6>2. AbsData[s] = RunFrom(op[u], pos[u], data).data[s]
              BY <3>2, <6>1 DEF DataFacts
            <6>3. Works(u)' /\ op' = op /\ pos' = pos /\ data' = data
              BY <1>0, <2>1, <3>1, <6>1
            <6>4. AbsData'[StorageOf[op'[u].dst]] =
                    RunFrom(op'[u], pos'[u], data').data[StorageOf[op'[u].dst]]
              BY <3>2, <6>3 DEF DataFacts
            <6> QED
              BY <3>6, <4>2, <6>1, <6>2, <6>3, <6>4
          <5>2. CASE \A u \in Threads : Works(u) => StorageOf[op[u].dst] # s
            <6>1. AbsData[s] = data[s]
              BY <3>2, <5>2 DEF DataFacts
            <6>2. \A u \in Threads : Works(u)' => StorageOf[op'[u].dst] # s
              BY <2>1, <3>1, <4>2, <5>2
            <6>3. AbsData'[s] = data'[s]
              BY <3>2, <6>2 DEF DataFacts
            <6> QED
              BY <1>0, <3>6, <4>2, <6>1, <6>3
          <5> QED
            BY <5>1, <5>2
        <4>3. AbsData' \in Contents
          BY <3>2 DEF DataFacts
        <4> HIDE DEF q, S
        <4> QED
          BY <3>6, <4>1, <4>2, <4>3 DEF Contents
      <3>8. AbsRes' = [AbsRes EXCEPT ![t].ok = q.ok]
        <4>1. ResOf(t)' = [ok |-> q.ok, elems |-> <<>>]
          BY <1>0, <2>1, <2>4, <3>1, <3>6 DEF ResOf
        <4>2. AbsRes' = [AbsRes EXCEPT ![t] = [ok |-> q.ok, elems |-> <<>>]]
          BY <2>3, <4>1, ResIs
        <4>3. AbsRes[t] = [ok |-> TRUE, elems |-> <<>>]
          BY <2>4, <3>3
        <4> HIDE DEF q
        <4> QED
          <5>1. [AbsRes[t] EXCEPT !.ok = q.ok] = [ok |-> q.ok, elems |-> <<>>]
            BY <4>3
          <5> QED
            BY <4>2, <5>1
      <3>9. Abs!IsWrite(o) /\ ~Abs!Refused(o)
        BY <2>6, <3>3, AbsOps DEF Writes
      <3>10. Abs!RunFrom(o, 1, AbsData) = q
        BY AbsRunFrom
      <3> HIDE DEF q, r
      <3> QED
        BY <1>0, <2>1, <2>2, <2>6, <3>7, <3>8, <3>9, <3>10 DEF Abs!Write, Applied
    <2>7. CASE x = "body" /\ ~IsWrite(o)
      <3>1. \A u \in Threads : Works(u)' <=> Works(u)
        BY <1>0, <2>1, <2>2, <2>7 DEF Works
      <3>2. AbsData' = AbsData
        BY <1>0, <2>1, <3>1, DataSame
      <3>3. /\ WellFormed(o) /\ o.srcs \in Seq(Tensors)
            /\ \A i \in 1 .. Len(o.srcs) : StorageOf[o.srcs[i]] \in Storages
        <4>1. WellFormed(o) /\ o.srcs \in Seq(Tensors)
          BY <1>0, BusyLemma DEF RInv, Calls
        <4>2. \A i \in 1 .. Len(o.srcs) : o.srcs[i] \in Tensors
          BY <4>1
        <4> QED
          BY <4>1, <4>2, TensorAssumption
      <3>4. ASSUME NEW i \in 1 .. Len(o.srcs), o.kind # "cat" \/ i = 1
            PROVE  data[StorageOf[o.srcs[i]]] = AbsData[StorageOf[o.srcs[i]]]
        <4>1. ApartFacts'
          <5>1. (RInv => ApartFacts)'
            BY ApartLemma, PTL
          <5> QED
            BY <5>1
        <4>2. ASSUME NEW u \in Threads, Works(u)
              PROVE  StorageOf[op[u].dst] # StorageOf[o.srcs[i]]
          <5>1. u # t /\ Works(u)' /\ stage'[t] = "body"
            BY <1>0, <2>2, <2>7, <3>1, <4>2 DEF Works
          <5>2. \A k \in 1 .. Len(op'[t].srcs) :
                  (op'[t].kind # "cat" \/ k = 1) =>
                    StorageOf[op'[t].srcs[k]] # StorageOf[op'[u].dst]
            BY <4>1, <5>1 DEF ApartFacts
          <5> QED
            BY <2>1, <3>4, <5>2
        <4> QED
          BY <3>3, <4>2, TouchedLemma
      <3>5. ReadFrom(o, 1, data) = ReadFrom(o, 1, AbsData)
        <4> HIDE DEF o, x
        <4>1. o \in Calls /\ WellFormed(o) /\ ~IsWrite(o) /\ 1 \in Nat
          BY <1>0, <2>7, <3>3
        <4>2. \A i \in 1 .. Len(o.srcs) :
                (o.kind # "cat" \/ i = 1) =>
                  data[StorageOf[o.srcs[i]]] = AbsData[StorageOf[o.srcs[i]]]
          BY <3>4
        <4> QED
          BY ONLY <4>1, <4>2, ReadAgrees
      <3>6. ResOf(t)' = [ok |-> TRUE, elems |-> buf[t] \o ReadFrom(o, 1, AbsData)]
        BY <1>0, <2>1, <2>2, <2>4, <2>7, <3>5 DEF ResOf, Works
      <3>7. AbsRes' = [AbsRes EXCEPT ![t] = [ok |-> TRUE,
                                             elems |-> buf[t] \o ReadFrom(o, 1, AbsData)]]
        BY <2>3, <3>6, ResIs
      <3>8. AbsRes' = [AbsRes EXCEPT ![t].elems = @ \o Abs!ReadFrom(o, 1, AbsData)]
        <4>1. Abs!ReadFrom(o, 1, AbsData) = ReadFrom(o, 1, AbsData)
          BY AbsReadFrom
        <4>2. AbsRes[t] = [ok |-> TRUE, elems |-> buf[t]]
          BY <2>4
        <4> DEFINE l == ReadFrom(o, 1, AbsData)
        <4> HIDE DEF l
        <4>3. AbsRes' = [AbsRes EXCEPT ![t].elems = @ \o l]
          <5>1. AbsRes' = [AbsRes EXCEPT ![t] = [ok |-> TRUE, elems |-> buf[t] \o l]]
            BY <3>7 DEF l
          <5> QED
            <6> DEFINE w == buf[t] \o l
            <6>2. AbsRes[t].elems \o l = w
              BY <4>2
            <6> HIDE DEF w
            <6>3. [AbsRes[t] EXCEPT !.elems = w] = [ok |-> TRUE, elems |-> w]
              <7>1. PICK r : r = TRUE
                OBVIOUS
              <7>2. AbsRes[t] = [ok |-> r, elems |-> buf[t]]
                BY <4>2, <7>1
              <7>3. [AbsRes[t] EXCEPT !.elems = w] = [ok |-> r, elems |-> w]
                BY ONLY <7>2, ExceptElems
              <7> QED
                BY <7>1, <7>3
            <6>1. [AbsRes EXCEPT ![t].elems = @ \o l] =
                    [AbsRes EXCEPT ![t] = [ok |-> TRUE, elems |-> w]]
              BY <6>2, <6>3
            <6> USE DEF w
            <6> QED
              BY <5>1, <6>1
        <4> QED
          BY <4>1, <4>3 DEF l
      <3>9. ~Abs!IsWrite(o)
        BY <2>7, AbsOps
      <3> QED
        BY <1>0, <2>1, <2>2, <2>7, <3>2, <3>8, <3>9 DEF Abs!Read, Applied
    <2> QED
      BY <2>5, <2>6, <2>7
  <1> QED
    BY <1>1, <1>2

LEMMA ParkAbs ==
  ASSUME RInv, NEW t \in Threads, Park(t)
  PROVE  UNCHANGED Abs!vars
  <1>1. UNCHANGED <<op, stage, pos, data, buf, out>>
    BY DEF Park
  <1>2. AbsData' = AbsData
    BY <1>1, DataSame DEF Works
  <1>3. AbsRes' = AbsRes
    <2>1. \A u \in Threads : ResOf(u)' = ResOf(u)
      BY <1>1, ResSame
    <2> QED
      BY <2>1, AbsState, AbsNext
  <1> QED
    BY <1>1, <1>2, <1>3 DEF Abs!vars

\* One element: what is left to write changes as little as what is there.
LEMMA WriteStepAbs ==
  ASSUME RInv, RInv', NEW t \in Threads, WriteStep(t)
  PROVE  UNCHANGED Abs!vars
  <1> DEFINE o == op[t]
             S == StorageOf[o.dst]
             d == WriteElem(o, pos[t], data)
  <1>t. pos \in [Threads -> Nat]
    BY DEF RInv, IInv, TypeOK
  <1>1. /\ stage[t] = "body" /\ IsWrite(o) /\ pos[t] <= NumElems(o)
        /\ ~BodyFails(o) /\ ~ElemFails(o, pos[t], data)
        /\ data' = d /\ pos' = [pos EXCEPT ![t] = @ + 1]
        /\ UNCHANGED <<op, stage, taken, queued, buf, out, calls>>
    BY DEF WriteStep, Fails
  <1>2. /\ pos'[t] = pos[t] + 1 /\ \A u \in Threads : u # t => pos'[u] = pos[u]
        /\ \A u \in Threads : Works(u)' <=> Works(u)
        /\ Works(t)
    BY <1>t, <1>1 DEF Works
  <1>3. BodyFacts /\ ApartFacts /\ DataFacts /\ DataFacts'
    <2>1. (RInv => DataFacts)'
      BY DataLemma, PTL
    <2> QED
      BY <2>1, BodyLemma, ApartLemma, DataLemma
  <1>4. /\ Writes(o) /\ NumElems(o) \in Nat /\ S \in Storages /\ pos[t] \in Nat \ {0}
        /\ data \in Contents /\ data' \in Contents
    BY <1>1, <1>3 DEF BodyFacts, DataFacts
  <1>5. \A s \in Storages : s # S => data'[s] = data[s]
    BY <1>1, <1>4, WriteElemLemma DEF Writes
  <1>6. RunFrom(o, pos[t], data) = RunFrom(o, pos'[t], data')
    BY <1>1, <1>2, <1>4, RunGoesOn
  <1> HIDE DEF d
  <1>7. ASSUME NEW u \in Threads, Works(u), u # t
        PROVE  /\ Writes(op[u]) /\ pos[u] \in Nat \ {0} /\ pos[u] <= NumElems(op[u]) + 1
               /\ StorageOf[op[u].dst] # S /\ StorageOf[op[u].dst] \in Storages
               /\ Agree(op[u], data, data')
    <2>1. stage[u] = "body" /\ IsWrite(op[u])
      BY <1>7 DEF Works
    <2>2. /\ op[u] \in Calls /\ Writes(op[u]) /\ pos[u] \in Nat \ {0}
          /\ pos[u] <= NumElems(op[u]) + 1 /\ StorageOf[op[u].dst] \in Storages
      BY <1>3, <2>1 DEF BodyFacts
    <2>3. S \notin Touched(op[u]) /\ StorageOf[op[u].dst] # S
      <3>1. /\ \A i \in 1 .. Len(op[u].srcs) :
                 (op[u].kind # "cat" \/ i = 1) => StorageOf[op[u].srcs[i]] # S
            /\ StorageOf[op[u].dst] # S
        BY <1>2, <1>3, <1>7, <2>1 DEF ApartFacts
      <3>2. op[u].kind # "cat"
        BY <2>1 DEF IsWrite, WriteKinds
      <3> QED
        BY <3>1, <3>2 DEF Touched
    <2>4. Touched(op[u]) \subseteq Storages
      <3>1. op[u].dst \in Tensors /\ \A i \in 1 .. Len(op[u].srcs) : op[u].srcs[i] \in Tensors
        BY <2>2 DEF Calls
      <3> QED
        BY <3>1, TensorAssumption DEF Touched
    <2>5. Agree(op[u], data, data')
      BY <1>5, <2>3, <2>4 DEF Agree
    <2> QED
      BY <2>2, <2>3, <2>5
  <1>8. ASSUME NEW u \in Threads, Works(u), u # t
        PROVE  /\ RunFrom(op[u], pos[u], data).ok = RunFrom(op[u], pos[u], data').ok
               /\ RunFrom(op[u], pos[u], data).data[StorageOf[op[u].dst]] =
                    RunFrom(op[u], pos[u], data').data[StorageOf[op[u].dst]]
    BY <1>4, <1>7, <1>8, RunAgrees
  <1>9. AbsData' = AbsData
    <2>1. ASSUME NEW u \in Threads, Works(u)
          PROVE  AbsData'[StorageOf[op[u].dst]] = AbsData[StorageOf[op[u].dst]]
      <3>1. /\ AbsData[StorageOf[op[u].dst]] =
                 RunFrom(op[u], pos[u], data).data[StorageOf[op[u].dst]]
            /\ AbsData'[StorageOf[op[u].dst]] =
                 RunFrom(op[u], pos'[u], data').data[StorageOf[op[u].dst]]
        BY <1>1, <1>2, <1>3, <2>1 DEF DataFacts
      <3>2. CASE u = t
        BY <1>6, <3>1, <3>2
      <3>3. CASE u # t
        BY <1>2, <1>8, <2>1, <3>1, <3>3
      <3> QED
        BY <3>2, <3>3
    <2>2. ASSUME NEW s \in Storages, \A u \in Threads : Works(u) => StorageOf[op[u].dst] # s
          PROVE  AbsData'[s] = AbsData[s]
      <3>1. AbsData[s] = data[s] /\ AbsData'[s] = data'[s]
        BY <1>1, <1>2, <1>3, <2>2 DEF DataFacts
      <3>2. s # S
        BY <1>2, <2>2
      <3> QED
        BY <1>5, <3>1, <3>2
    <2>3. \A s \in Storages : AbsData'[s] = AbsData[s]
      BY <2>1, <2>2
    <2> QED
      BY <1>3, <2>3 DEF DataFacts, Contents
  <1>10. AbsRes' = AbsRes
    <2>1. ASSUME NEW u \in Threads PROVE ResOf(u)' = ResOf(u)
      <3>1. CASE u = t
        BY <1>1, <1>2, <1>6, <3>1 DEF ResOf
      <3>2. CASE u # t /\ Works(u)
        BY <1>1, <1>2, <1>8, <3>2 DEF ResOf
      <3>3. CASE ~Works(u) /\ stage[u] # "body"
        BY <1>1, <1>2, <3>3 DEF ResOf
      <3>4. CASE ~Works(u) /\ stage[u] = "body"
        <4>1. u # t /\ ~IsWrite(op[u])
          BY <1>2, <3>4 DEF Works
        <4>2. op[u] \in Calls /\ WellFormed(op[u]) /\ pos[u] \in Nat
          BY <1>3, <3>4 DEF BodyFacts
        <4>3. \A i \in 1 .. Len(op[u].srcs) : StorageOf[op[u].srcs[i]] \in Storages
          <5>1. \A i \in 1 .. Len(op[u].srcs) : op[u].srcs[i] \in Tensors
            BY <4>2 DEF Calls
          <5> QED
            BY <5>1, TensorAssumption
        <4>4. \A i \in 1 .. Len(op[u].srcs) :
                (op[u].kind # "cat" \/ i = 1) =>
                  data[StorageOf[op[u].srcs[i]]] = data'[StorageOf[op[u].srcs[i]]]
          <5>1. \A i \in 1 .. Len(op[u].srcs) :
                  (op[u].kind # "cat" \/ i = 1) => StorageOf[op[u].srcs[i]] # S
            BY <1>2, <1>3, <3>4, <4>1 DEF ApartFacts
          <5> QED
            BY <1>5, <4>3, <5>1
        <4>5. ReadFrom(op[u], pos[u], data) = ReadFrom(op[u], pos[u], data')
          BY <4>1, <4>2, <4>4, ReadAgrees
        <4> QED
          BY <1>1, <1>2, <3>4, <4>1, <4>5 DEF ResOf
      <3> QED
        BY <3>1, <3>2, <3>3, <3>4
    <2> QED
      BY <2>1, AbsState, AbsNext
  <1> QED
    BY <1>1, <1>9, <1>10 DEF Abs!vars

LEMMA ReadStepAbs ==
  ASSUME RInv, NEW t \in Threads, ReadStep(t)
  PROVE  UNCHANGED Abs!vars
  <1> DEFINE o == op[t]
             e == ReadElem(o, pos[t], data)
             q == ReadFrom(o, pos[t] + 1, data)
  <1>t. pos \in [Threads -> Nat] /\ buf \in [Threads -> Seq(Seq(Values))]
    BY DEF RInv, IInv, TypeOK
  <1>1. /\ stage[t] = "body" /\ ~IsWrite(o) /\ pos[t] <= NumElems(o)
        /\ buf' = [buf EXCEPT ![t] = Append(@, e)] /\ pos' = [pos EXCEPT ![t] = @ + 1]
        /\ UNCHANGED <<op, stage, taken, queued, data, out, calls>>
    BY DEF ReadStep
  <1>2. /\ pos'[t] = pos[t] + 1 /\ buf'[t] = Append(buf[t], e) /\ ~Works(t)
        /\ \A u \in Threads : u # t => pos'[u] = pos[u] /\ buf'[u] = buf[u]
    BY <1>t, <1>1 DEF Works
  <1>3. AbsData' = AbsData
    BY <1>1, <1>2, DataSame DEF Works
  <1>4. /\ o \in Calls /\ WellFormed(o) /\ NumElems(o) \in Nat /\ pos[t] \in Nat \ {0}
        /\ data \in Contents
    BY <1>1, BodyLemma, DataLemma DEF BodyFacts, DataFacts
  <1>5. /\ e \in Seq(Values) /\ q \in Seq(Seq(Values)) /\ buf[t] \in Seq(Seq(Values))
        /\ ReadFrom(o, pos[t], data) = <<e>> \o q
    <2>1. e \in Seq(Values)
      BY <1>1, <1>4, ReadElemLemma
    <2>2. ReadFrom(o, pos[t], data) = <<e>> \o q
      <3>1. pos[t] <= NumElems(o) + 1
        BY <1>1, <1>4
      <3> QED
        BY <1>1, <1>4, <3>1, ReadFromIs
    <2>3. q \in Seq(Seq(Values))
      <3>1. pos[t] + 1 \in Nat \ {0} /\ pos[t] + 1 <= NumElems(o) + 1
        BY <1>1, <1>4
      <3> QED
        BY <1>1, <1>4, <3>1, ReadFromIs
    <2> QED
      BY <1>t, <2>1, <2>2, <2>3
  <1> HIDE DEF e, q
  <1>6. Append(buf[t], e) \o q = buf[t] \o (<<e>> \o q)
    <2> DEFINE SV == Seq(Values)
               b == buf[t]
    <2>1. e \in SV /\ q \in Seq(SV) /\ b \in Seq(SV)
      BY <1>5
    <2> HIDE DEF SV, b
    <2>2. Append(b, e) = b \o <<e>> /\ <<e>> \in Seq(SV)
      BY <2>1, AppendIsConcat
    <2>3. (b \o <<e>>) \o q = b \o (<<e>> \o q)
      BY <2>1, <2>2, ConcatAssociative
    <2> QED
      BY <2>2, <2>3 DEF b
  <1>7. ResOf(t)' = ResOf(t)
    BY <1>1, <1>2, <1>5, <1>6 DEF ResOf, Works, q
  <1>8. AbsRes' = AbsRes
    <2>1. \A u \in Threads : u # t => ResOf(u)' = ResOf(u)
      BY <1>1, <1>2, ResSame
    <2> QED
      BY <1>7, <2>1, AbsState, AbsNext
  <1> QED
    BY <1>1, <1>3, <1>8 DEF Abs!vars

LEMMA NextArgAbs ==
  ASSUME RInv, NEW t \in Threads, NextArg(t)
  PROVE  Abs!NextArg(t)
  <1>t. /\ op \in [Threads -> Calls \cup {NoOp}] /\ stage \in [Threads -> Stages]
        /\ pos \in [Threads -> Nat] /\ buf \in [Threads -> Seq(Seq(Values))]
    BY DEF RInv, IInv, TypeOK, Stages
  <1>1. /\ stage[t] = "body" /\ MoreArgs(op[t]) /\ pos[t] > NumElems(op[t])
        /\ op' = [op EXCEPT ![t].srcs = Tail(@)]
        /\ stage' = [stage EXCEPT ![t] = "lock"] /\ pos' = [pos EXCEPT ![t] = 1]
        /\ UNCHANGED <<data, buf, out>>
    BY DEF NextArg
  <1>2. /\ op[t] \in Calls /\ op[t] # NoOp /\ WellFormed(op[t]) /\ data \in Contents
        /\ pos[t] = NumElems(op[t]) + 1 /\ pos[t] \in Nat \ {0}
        /\ pos[t] <= NumElems(op[t]) + 1
    BY <1>1, BodyLemma, DataLemma DEF BodyFacts, DataFacts
  <1>3. ~IsWrite(op[t])
    BY <1>1 DEF MoreArgs, IsWrite, WriteKinds
  <1>4. /\ Applied' = [Applied EXCEPT ![t] = FALSE] /\ stage'[t] = "lock"
        /\ \A u \in Threads : u # t =>
             op'[u] = op[u] /\ stage'[u] = stage[u] /\ pos'[u] = pos[u]
    BY <1>t, <1>1, AppliedIs
  <1>5. AbsData' = AbsData
    BY <1>1, <1>3, <1>4, DataSame DEF Works
  <1>6. ResOf(t)' = ResOf(t)
    <2>1. ReadFrom(op[t], pos[t], data) = <<>>
      BY <1>2, <1>3, ReadFromIs
    <2>2. buf[t] \o <<>> = buf[t]
      BY <1>t
    <2> QED
      BY <1>1, <1>3, <1>4, <2>1, <2>2 DEF ResOf, Works
  <1>7. AbsRes' = AbsRes
    <2>1. \A u \in Threads : u # t => ResOf(u)' = ResOf(u)
      BY <1>1, <1>4, ResSame
    <2> QED
      BY <1>6, <2>1, AbsState, AbsNext
  <1>8. Abs!MoreArgs(op[t]) /\ Applied[t]
    BY <1>1, AbsOps DEF Applied
  <1> QED
    BY <1>1, <1>2, <1>4, <1>5, <1>7, <1>8 DEF Abs!NextArg, Applied

LEMMA FinishAbs ==
  ASSUME RInv, RInv', NEW t \in Threads, Finish(t)
  PROVE  Abs!Respond(t)
  <1> DEFINE o == op[t]
             S == StorageOf[o.dst]
             run == RunFrom(o, pos[t], data)
             r == ~Fails(t)
             e == IF Fails(t) THEN <<>> ELSE buf[t]
  <1>t. /\ op \in [Threads -> Calls \cup {NoOp}] /\ stage \in [Threads -> Stages]
        /\ pos \in [Threads -> Nat] /\ buf \in [Threads -> Seq(Seq(Values))]
    BY DEF RInv, IInv, TypeOK, Stages
  <1>1. /\ stage[t] = "body" /\ data' = data
        /\ \/ Fails(t) /\ Return(t, FALSE, <<>>)
           \/ ~Fails(t) /\ pos[t] > NumElems(o) /\ ~MoreArgs(o) /\ Return(t, TRUE, buf[t])
    BY DEF Finish
  <1>2. Return(t, r, e)
    BY <1>1
  <1>3. /\ o \in Calls /\ o # NoOp /\ WellFormed(o) /\ data \in Contents
        /\ NumElems(o) \in Nat /\ pos[t] \in Nat \ {0} /\ pos[t] <= NumElems(o) + 1
        /\ IsWrite(o) => Writes(o) /\ buf[t] = <<>>
        /\ DataFacts /\ DataFacts' /\ ApartFacts
    <2>1. (RInv => DataFacts)'
      BY DataLemma, PTL
    <2> QED
      BY <1>1, <2>1, BodyLemma, ApartLemma, DataLemma DEF BodyFacts, DataFacts
  <1>4. Fails(t) => o.kind = "scatter_set" /\ IsWrite(o) /\ ~MoreArgs(o)
    BY DEF Fails, BodyFails, ElemFails, IsWrite, WriteKinds, MoreArgs
  <1>5. ~Fails(t) => pos[t] = NumElems(o) + 1
    <2>1. ~Fails(t) => pos[t] > NumElems(o)
      BY <1>1, Zenon
    <2> QED
      BY <1>3, <2>1
  <1>6. run = [data |-> data, ok |-> r]
    <2>1. CASE pos[t] = NumElems(o) + 1
      <3>1. run = Before(o, data)
        BY <1>3, <2>1, RunAfterLast
      <3>2. ~BodyFails(o) <=> r
        BY <1>3, <2>1 DEF Fails
      <3> QED
        BY <3>1, <3>2 DEF Before
    <2>2. CASE pos[t] <= NumElems(o)
      <3>1. Fails(t)
        BY <1>3, <1>5, <2>2
      <3>2. BodyFails(o) \/ ElemFails(o, pos[t], data)
        BY <3>1 DEF Fails
      <3> QED
        BY <1>3, <2>2, <3>1, <3>2, RunFails
    <2> QED
      BY <1>3, <2>1, <2>2
  <1>7. /\ stage'[t] = "idle"
        /\ \A u \in Threads : u # t =>
             op'[u] = op[u] /\ stage'[u] = stage[u] /\ pos'[u] = pos[u]
    BY <1>t, <1>2 DEF Return
  <1>8. AbsData' = AbsData
    <2>1. CASE ~IsWrite(o)
      BY <1>1, <1>7, <2>1, DataSame DEF Works
    <2>2. CASE IsWrite(o)
      <3>1. Works(t) /\ ~Works(t)' /\ \A u \in Threads : u # t => (Works(u)' <=> Works(u))
        BY <1>1, <1>7, <2>2 DEF Works
      <3>2. AbsData[S] = data[S]
        BY <1>3, <1>6, <3>1 DEF DataFacts
      <3>3. ASSUME NEW u \in Threads, Works(u), u # t
            PROVE  AbsData'[StorageOf[op[u].dst]] = AbsData[StorageOf[op[u].dst]]
        <4>1. Works(u)' /\ op'[u] = op[u] /\ pos'[u] = pos[u]
          BY <1>7, <3>1, <3>3
        <4>2. /\ AbsData[StorageOf[op[u].dst]] =
                   RunFrom(op[u], pos[u], data).data[StorageOf[op[u].dst]]
              /\ AbsData'[StorageOf[op'[u].dst]] =
                   RunFrom(op'[u], pos'[u], data').data[StorageOf[op'[u].dst]]
          BY <1>3, <3>3, <4>1 DEF DataFacts
        <4> QED
          BY <1>1, <4>1, <4>2
      <3>4. ASSUME NEW s \in Storages,
                   \A u \in Threads : Works(u) /\ u # t => StorageOf[op[u].dst] # s
            PROVE  AbsData'[s] = AbsData[s]
        <4>1. AbsData'[s] = data'[s]
          <5>1. \A u \in Threads : Works(u)' => StorageOf[op'[u].dst] # s
            BY <1>7, <3>1, <3>4
          <5> QED
            BY <1>3, <5>1 DEF DataFacts
        <4>2. CASE s = S
          BY <1>1, <3>2, <4>1, <4>2
        <4>3. CASE s # S
          <5>1. \A u \in Threads : Works(u) => StorageOf[op[u].dst] # s
            BY <3>4, <4>3
          <5>2. AbsData[s] = data[s]
            BY <1>3, <5>1 DEF DataFacts
          <5> QED
            BY <1>1, <4>1, <5>2
        <4> QED
          BY <4>2, <4>3
      <3>5. \A s \in Storages : AbsData'[s] = AbsData[s]
        BY <3>3, <3>4
      <3> QED
        BY <1>3, <3>5 DEF DataFacts, Contents
    <2> QED
      BY <2>1, <2>2
  <1>9. AbsRes[t] = [ok |-> r, elems |-> e]
    <2>1. AbsRes[t] = ResOf(t)
      BY AbsState
    <2>2. CASE IsWrite(o)
      <3>1. e = <<>>
        BY <1>3, <2>2
      <3>2. run.ok = r
        BY <1>6
      <3> HIDE DEF e, r
      <3> QED
        BY <1>1, <2>1, <2>2, <3>1, <3>2 DEF ResOf, Works
    <2>3. CASE ~IsWrite(o)
      <3>1. ~Fails(t)
        BY <1>4, <2>3
      <3>2. ReadFrom(o, pos[t], data) = <<>>
        BY <1>3, <1>5, <2>3, <3>1, ReadFromIs
      <3>3. buf[t] \o <<>> = buf[t]
        BY <1>t
      <3> QED
        BY <1>1, <2>1, <2>3, <3>1, <3>2, <3>3 DEF ResOf, Works
    <2> QED
      BY <2>2, <2>3
  <1>10. Abs!Return(t, AbsRes[t])
    <2>1. CASE Fails(t)
      <3>1. Return(t, FALSE, <<>>)
        BY <1>1, <2>1
      <3>2. Abs!Return(t, [ok |-> FALSE, elems |-> <<>>])
        BY <1>1, <1>8, <3>1, AbsReturn
      <3>3. AbsRes[t] = [ok |-> FALSE, elems |-> <<>>]
        BY <1>9, <2>1
      <3> QED
        BY <3>2, <3>3 DEF Abs!Return
    <2>2. CASE ~Fails(t)
      <3>1. Return(t, TRUE, buf[t])
        BY <1>1, <2>2
      <3>2. PICK b : b = buf[t]
        OBVIOUS
      <3>3. Return(t, TRUE, b)
        BY <3>1, <3>2 DEF Return
      <3>4. Abs!Return(t, [ok |-> TRUE, elems |-> b])
        BY <1>1, <1>8, <3>3, AbsReturn
      <3>5. AbsRes[t] = [ok |-> TRUE, elems |-> b]
        BY <1>9, <2>2, <3>2
      <3> QED
        BY <3>4, <3>5 DEF Abs!Return
    <2> QED
      BY <2>1, <2>2
  <1>11. ~Abs!MoreArgs(o) /\ Applied[t]
    <2>1. ~MoreArgs(o)
      BY <1>1, <1>4
    <2> QED
      BY <1>1, <2>1, AbsOps DEF Applied
  <1> QED
    BY <1>3, <1>10, <1>11 DEF Abs!Respond, Applied

LEMMA InitAbs == Init /\ RInv => Abs!Init
  <1> SUFFICES ASSUME Init, RInv PROVE Abs!Init
    OBVIOUS
  <1>1. /\ op = [t \in Threads |-> NoOp] /\ stage = [t \in Threads |-> "idle"]
        /\ data \in InitialData /\ buf = [t \in Threads |-> <<>>]
        /\ out = [t \in Threads |-> [ok |-> TRUE, elems |-> <<>>]]
    BY DEF Init
  <1>2. \A t \in Threads : stage[t] = "idle" /\ ~Works(t)
    BY <1>1 DEF Works
  <1>3. AbsData = data
    <2>1. DataFacts
      BY DataLemma
    <2>2. \A s \in Storages : AbsData[s] = data[s]
      BY <1>2, <2>1 DEF DataFacts
    <2> QED
      BY <2>1, <2>2 DEF DataFacts, Contents
  <1>4. AbsRes = [t \in Threads |-> Abs!Empty]
    <2>1. \A t \in Threads : ResOf(t) = Abs!Empty
      BY <1>1, <1>2, AbsOps DEF ResOf
    <2> QED
      BY <2>1, AbsState
  <1>5. Applied = [t \in Threads |-> FALSE]
    BY <1>2 DEF Applied
  <1>6. out = [t \in Threads |-> Abs!Empty]
    BY <1>1, AbsOps
  <1> QED
    BY <1>1, <1>3, <1>4, <1>5, <1>6 DEF Abs!Init, Applied

LEMMA NextAbs == RInv /\ RInv' /\ [Next]_vars => [Abs!Next]_Abs!vars
  <1> SUFFICES ASSUME RInv, RInv', [Next]_vars PROVE [Abs!Next]_Abs!vars
    OBVIOUS
  <1>1. CASE UNCHANGED vars
    <2>1. UNCHANGED <<op, stage, pos, data, buf, out>>
      BY <1>1 DEF vars
    <2>2. AbsData' = AbsData
      BY <2>1, DataSame DEF Works
    <2>3. AbsRes' = AbsRes
      <3>1. \A u \in Threads : ResOf(u)' = ResOf(u)
        BY <2>1, ResSame
      <3> QED
        BY <3>1, AbsState, AbsNext
    <2> QED
      BY <2>1, <2>2, <2>3 DEF Abs!vars
  <1>2. ASSUME NEW t \in Threads, Begin(t) PROVE Abs!Next
    BY <1>2, BeginAbs DEF Abs!Next
  <1>3. ASSUME NEW t \in Threads, Progress(t) PROVE [Abs!Next]_Abs!vars
    <2>1. CASE Acquire(t)
      BY <2>1, AcquireAbs DEF Abs!Next
    <2>2. CASE Park(t)
      BY <2>2, ParkAbs
    <2>3. CASE WriteStep(t)
      BY <2>3, WriteStepAbs
    <2>4. CASE ReadStep(t)
      BY <2>4, ReadStepAbs
    <2>5. CASE NextArg(t)
      BY <2>5, NextArgAbs DEF Abs!Next
    <2>6. CASE Finish(t)
      BY <2>6, FinishAbs DEF Abs!Next
    <2> QED
      BY <1>3, <2>1, <2>2, <2>3, <2>4, <2>5, <2>6 DEF Progress
  <1> QED
    BY <1>1, <1>2, <1>3 DEF Next

\* Every call works on the elements at one instant between its invocation and
\* its response (for cat: one instant for each argument), whatever guards the
\* other threads take meanwhile: the lock-level program implements
\* TensorAtomic.
THEOREM CallsAreAtomic == Spec => AtomicCalls
  <1>1. Init /\ RInv => Abs!Init
    BY InitAbs
  <1>2. RInv /\ RInv' /\ [Next]_vars => [Abs!Next]_Abs!vars
    BY NextAbs
  <1> QED
    BY <1>1, <1>2, RInvariance, PTL DEF Spec, AtomicCalls, Abs!Spec
=============================================================================
