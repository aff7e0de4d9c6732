-------------------------- MODULE Streaming_proof --------------------------
(***************************************************************************)
(* Proofs about Streaming: for all streams, cut into chunks in any way,    *)
(* the outputs are those of the operation on the whole streams.            *)
(***************************************************************************)
EXTENDS Streaming, SequenceTheorems, TLAPS

First(s, n) == SubSeq(s, 1, n)
Rest(s, n) == SubSeq(s, n + 1, Len(s))

\* A stream tensor without a tensor holds no slice.
WellFormed(x) == x \in StreamTensor /\ (x.some \/ x.elems = <<>>)

\* The first n elements of a sequence.
LEMMA FirstProperties ==
  ASSUME NEW S, NEW s \in Seq(S), NEW n \in 0 .. Len(s)
  PROVE  /\ First(s, n) \in Seq(S)
         /\ Len(First(s, n)) = n
         /\ \A i \in 1 .. n : First(s, n)[i] = s[i]
<1>1. Len(s) \in Nat /\ n \in Nat /\ n <= Len(s)
  BY LenProperties
<1>2. \A i \in 1 .. n : s[i] \in S
  BY <1>1, ElementOfSeq
<1>3. /\ SubSeq(s, 1, n) \in Seq(S)
      /\ Len(SubSeq(s, 1, n)) = IF 1 <= n THEN n - 1 + 1 ELSE 0
      /\ \A i \in 1 .. n - 1 + 1 : SubSeq(s, 1, n)[i] = s[1 + i - 1]
  BY <1>1, <1>2, SubSeqProperties
<1> QED
  BY <1>1, <1>3 DEF First

\* What is left of a sequence after its first n elements.
LEMMA RestProperties ==
  ASSUME NEW S, NEW s \in Seq(S), NEW n \in 0 .. Len(s)
  PROVE  /\ Rest(s, n) \in Seq(S)
         /\ Len(Rest(s, n)) = Len(s) - n
         /\ \A i \in 1 .. Len(s) - n : Rest(s, n)[i] = s[n + i]
<1>1. Len(s) \in Nat /\ n \in Nat /\ n <= Len(s)
  BY LenProperties
<1>2. \A i \in n + 1 .. Len(s) : s[i] \in S
  BY <1>1, ElementOfSeq
<1>3. n + 1 \in Int /\ Len(s) \in Int
  BY <1>1
<1>4. /\ SubSeq(s, n + 1, Len(s)) \in Seq(S)
      /\ Len(SubSeq(s, n + 1, Len(s))) = IF n + 1 <= Len(s) THEN Len(s) - (n + 1) + 1 ELSE 0
      /\ \A i \in 1 .. Len(s) - (n + 1) + 1 :
           SubSeq(s, n + 1, Len(s))[i] = s[(n + 1) + i - 1]
  BY <1>2, <1>3, SubSeqProperties
<1>5. Len(Rest(s, n)) = Len(s) - n
  BY <1>1, <1>4 DEF Rest
<1>6. ASSUME NEW i \in 1 .. Len(s) - n
      PROVE  Rest(s, n)[i] = s[n + i]
  <2>1. i \in 1 .. Len(s) - (n + 1) + 1 /\ (n + 1) + i - 1 = n + i
    BY <1>1
  <2> QED
    BY <1>4, <2>1 DEF Rest
<1> QED
  BY <1>4, <1>5, <1>6 DEF Rest

\* Slices that arrive go behind those that are left.
LEMMA RestConcat ==
  ASSUME NEW S, NEW s \in Seq(S), NEW t \in Seq(S), NEW n \in 0 .. Len(s)
  PROVE  Rest(s, n) \o t = Rest(s \o t, n)
<1> DEFINE st == s \o t
           u == Rest(s, n)
<1>1. Len(s) \in Nat /\ Len(t) \in Nat /\ n \in Nat /\ n <= Len(s)
  BY LenProperties
<1>2. /\ st \in Seq(S)
      /\ Len(st) = Len(s) + Len(t)
      /\ \A i \in 1 .. Len(s) + Len(t) : st[i] = IF i <= Len(s) THEN s[i] ELSE t[i - Len(s)]
  BY ConcatProperties
<1>3. /\ u \in Seq(S)
      /\ Len(u) = Len(s) - n
      /\ \A i \in 1 .. Len(s) - n : u[i] = s[n + i]
  BY RestProperties
<1> HIDE DEF st, u
<1>4. /\ u \o t \in Seq(S)
      /\ Len(u \o t) = Len(u) + Len(t)
      /\ \A i \in 1 .. Len(u) + Len(t) : (u \o t)[i] = IF i <= Len(u) THEN u[i] ELSE t[i - Len(u)]
  BY <1>3, ConcatProperties
<1>5. n \in 0 .. Len(st)
  BY <1>1, <1>2
<1>6. /\ Rest(st, n) \in Seq(S)
      /\ Len(Rest(st, n)) = Len(st) - n
      /\ \A i \in 1 .. Len(st) - n : Rest(st, n)[i] = st[n + i]
  BY <1>2, <1>5, RestProperties
<1>7. Len(u \o t) = Len(Rest(st, n))
  BY <1>1, <1>2, <1>3, <1>4, <1>6
<1>8. ASSUME NEW i \in 1 .. Len(u \o t)
      PROVE  (u \o t)[i] = Rest(st, n)[i]
  <2>1. i \in 1 .. Len(st) - n /\ i \in 1 .. Len(u) + Len(t) /\ n + i \in 1 .. Len(s) + Len(t)
    BY <1>1, <1>2, <1>3, <1>4
  <2>2. CASE i <= Len(u)
    BY <1>1, <1>2, <1>3, <1>4, <1>6, <2>1, <2>2
  <2>3. CASE ~(i <= Len(u))
    <3>1. ~(n + i <= Len(s)) /\ i - Len(u) = n + i - Len(s)
      BY <1>1, <1>3, <2>1, <2>3
    <3> QED
      BY <1>2, <1>4, <1>6, <2>1, <2>3, <3>1
  <2> QED
    BY <2>2, <2>3
<1>9. u \o t = Rest(st, n)
  BY <1>4, <1>6, <1>7, <1>8, SeqEqual
<1> QED
  BY <1>9 DEF u, st

\* Taking k elements away after n is taking n + k away.
LEMMA RestRest ==
  ASSUME NEW S, NEW s \in Seq(S), NEW n \in 0 .. Len(s), NEW k \in 0 .. Len(s) - n
  PROVE  Rest(Rest(s, n), k) = Rest(s, n + k)
<1> DEFINE u == Rest(s, n)
<1>1. Len(s) \in Nat /\ n \in Nat /\ n <= Len(s) /\ k \in Nat /\ k <= Len(s) - n
  BY LenProperties
<1>2. /\ u \in Seq(S)
      /\ Len(u) = Len(s) - n
      /\ \A i \in 1 .. Len(s) - n : u[i] = s[n + i]
  BY RestProperties
<1> HIDE DEF u
<1>3. k \in 0 .. Len(u) /\ n + k \in 0 .. Len(s)
  BY <1>1, <1>2
<1>4. /\ Rest(u, k) \in Seq(S)
      /\ Len(Rest(u, k)) = Len(u) - k
      /\ \A i \in 1 .. Len(u) - k : Rest(u, k)[i] = u[k + i]
  BY <1>2, <1>3, RestProperties
<1>5. /\ Rest(s, n + k) \in Seq(S)
      /\ Len(Rest(s, n + k)) = Len(s) - (n + k)
      /\ \A i \in 1 .. Len(s) - (n + k) : Rest(s, n + k)[i] = s[(n + k) + i]
  BY <1>3, RestProperties
<1>6. Len(Rest(u, k)) = Len(Rest(s, n + k))
  <2>1. Len(s) - n - k = Len(s) - (n + k)
    BY <1>1
  <2>2. Len(Rest(u, k)) = Len(s) - n - k
    BY <1>2, <1>4
  <2> QED
    BY <1>5, <2>1, <2>2
<1>7. ASSUME NEW i \in 1 .. Len(Rest(u, k))
      PROVE  Rest(u, k)[i] = Rest(s, n + k)[i]
  <2>1. /\ i \in 1 .. Len(u) - k /\ i \in 1 .. Len(s) - (n + k)
        /\ k + i \in 1 .. Len(s) - n /\ n + (k + i) = (n + k) + i
    BY <1>1, <1>2, <1>4
  <2> QED
    BY <1>2, <1>4, <1>5, <2>1
<1>8. Rest(u, k) = Rest(s, n + k)
  BY <1>4, <1>5, <1>6, <1>7, SeqEqual
<1> QED
  BY <1>8 DEF u

\* StreamTensor::split at a length the tensor has.
LEMMA SplitProperties ==
  ASSUME NEW x, WellFormed(x), NEW n \in 0 .. Len(x.elems)
  PROVE  /\ WellFormed(split(x, n)[1]) /\ WellFormed(split(x, n)[2])
         /\ split(x, n)[1].some <=> n > 0
         /\ split(x, n)[1].elems = First(x.elems, n)
         /\ split(x, n)[2].elems = Rest(x.elems, n)
<1>1. /\ x.elems \in Seq(Values) /\ x.some \in BOOLEAN
      /\ x = [some |-> x.some, elems |-> x.elems]
      /\ Len(x.elems) \in Nat
      /\ x.some \/ x.elems = <<>>
  BY LenProperties DEF WellFormed, StreamTensor
<1>2. n \in Nat /\ n <= Len(x.elems) /\ Lesser(Len(x.elems), n) = n
  BY <1>1 DEF Lesser
<1>3. /\ First(x.elems, n) \in Seq(Values) /\ Len(First(x.elems, n)) = n
      /\ Rest(x.elems, n) \in Seq(Values) /\ Len(Rest(x.elems, n)) = Len(x.elems) - n
  BY <1>1, FirstProperties, RestProperties
<1>4. <<>> \in Seq(Values) /\ Len(<<>>) = 0
  BY EmptySeq
<1>5. WellFormed(empty) /\ empty.some = FALSE /\ empty.elems = <<>>
  BY <1>4 DEF WellFormed, StreamTensor, empty
<1>6. ASSUME NEW e \in Seq(Values)
      PROVE  WellFormed(from_tensor(e)) /\ from_tensor(e).some = TRUE /\ from_tensor(e).elems = e
  BY DEF WellFormed, StreamTensor, from_tensor
<1>7. n = 0 => First(x.elems, n) = <<>>
  BY <1>3, EmptySeq
<1>8. n = Len(x.elems) => Rest(x.elems, n) = <<>>
  BY <1>1, <1>2, <1>3, EmptySeq
<1>9. n = 0 => Rest(x.elems, n) = x.elems
  <2>1. SubSeq(x.elems, 1, Len(x.elems)) = x.elems
    BY <1>1, SubSeqFull
  <2> QED
    BY <2>1 DEF Rest
<1>10. CASE ~x.some
  <2>1. n = 0 /\ x.elems = <<>>
    BY <1>1, <1>2, <1>4, <1>10
  <2>2. split(x, n) = <<empty, empty>>
    BY <1>10 DEF split
  <2> QED
    BY <1>5, <1>7, <1>9, <2>1, <2>2
<1>11. CASE x.some /\ n = 0
  <2>1. split(x, n) = <<empty, x>>
    BY <1>2, <1>11 DEF split
  <2> QED
    BY <1>5, <1>7, <1>9, <1>11, <2>1
<1>12. CASE x.some /\ n # 0
  <2> DEFINE a == from_tensor(First(x.elems, n))
             b == IF n = Len(x.elems) THEN empty ELSE from_tensor(Rest(x.elems, n))
  <2>1. split(x, n) = <<a, b>>
    BY <1>2, <1>12 DEF split, First, Rest
  <2>2. n > 0
    BY <1>2, <1>12
  <2>3. WellFormed(a) /\ a.some = TRUE /\ a.elems = First(x.elems, n)
    BY <1>3, <1>6
  <2>4. WellFormed(b) /\ b.elems = Rest(x.elems, n)
    <3>1. CASE n = Len(x.elems)
      BY <1>5, <1>8, <3>1
    <3>2. CASE n # Len(x.elems)
      BY <1>3, <1>6, <3>2
    <3> QED
      BY <3>1, <3>2
  <2> HIDE DEF a, b
  <2>5. split(x, n)[1] = a /\ split(x, n)[2] = b
    BY <2>1
  <2> QED
    BY <2>2, <2>3, <2>4, <2>5
<1> QED
  BY <1>1, <1>10, <1>11, <1>12

\* StreamTensor::cat2.
LEMMA CatProperties ==
  ASSUME NEW x, NEW y, WellFormed(x), WellFormed(y)
  PROVE  WellFormed(cat2(x, y)) /\ cat2(x, y).elems = x.elems \o y.elems
<1>1. /\ x.some \in BOOLEAN /\ x.elems \in Seq(Values)
      /\ y.some \in BOOLEAN /\ y.elems \in Seq(Values)
  BY DEF WellFormed, StreamTensor
<1>2. x.elems \o y.elems \in Seq(Values)
  BY <1>1, ConcatProperties
<1>3. (x.some \/ y.some) \/ x.elems \o y.elems = <<>>
  BY <1>1, ConcatEqualIffEmpty DEF WellFormed
<1>4. (x.some \/ y.some) \in BOOLEAN
  OBVIOUS
<1> QED
  BY <1>2, <1>3, <1>4 DEF WellFormed, StreamTensor, cat2

\* The pairs of the first n slices of two streams.
Pairs(s, t, n) == [i \in 1 .. n |-> <<s[i], t[i]>>]

\* Such pairs are a sequence.
LEMMA PairsProperties ==
  ASSUME NEW S, NEW s \in Seq(S), NEW t \in Seq(S), NEW n \in Nat, n <= Len(s), n <= Len(t)
  PROVE  /\ Pairs(s, t, n) \in Seq(S \X S)
         /\ Len(Pairs(s, t, n)) = n
         /\ \A i \in 1 .. n : Pairs(s, t, n)[i] = <<s[i], t[i]>>
<1>1. Len(s) \in Nat /\ Len(t) \in Nat
  BY LenProperties
<1>2. \A i \in 1 .. n : s[i] \in S /\ t[i] \in S
  BY <1>1, ElementOfSeq
<1>3. Pairs(s, t, n) \in [1 .. n -> S \X S]
  BY <1>2 DEF Pairs
<1>4. Pairs(s, t, n) \in Seq(S \X S)
  BY <1>3, SeqDef
<1>5. DOMAIN Pairs(s, t, n) = 1 .. n
  BY DEF Pairs
<1>6. Len(Pairs(s, t, n)) = n
  BY <1>4, <1>5, LenProperties
<1> QED
  BY <1>4, <1>6 DEF Pairs

\* u is what s has from its n-th element on, for k elements.
Continues(u, s, n, k) == \A i \in 1 .. k : u[i] = s[n + i]

\* Pairs of the same prefix of two streams, and of longer ones.
LEMMA PairsConcat ==
  ASSUME NEW S, NEW s \in Seq(S), NEW t \in Seq(S), NEW n \in Nat, NEW k \in Nat,
         n + k <= Len(s), n + k <= Len(t),
         NEW u \in Seq(S), NEW v \in Seq(S), Len(u) >= k, Len(v) >= k,
         Continues(u, s, n, k), Continues(v, t, n, k)
  PROVE  Pairs(s, t, n) \o Pairs(u, v, k) = Pairs(s, t, n + k)
<1> DEFINE p == Pairs(s, t, n)
           q == Pairs(u, v, k)
           w == Pairs(s, t, n + k)
<1>1. /\ Len(s) \in Nat /\ Len(t) \in Nat /\ Len(u) \in Nat /\ Len(v) \in Nat
      /\ n <= Len(s) /\ n <= Len(t) /\ k <= Len(u) /\ k <= Len(v) /\ n + k \in Nat
  BY LenProperties
<1>2. p \in Seq(S \X S) /\ Len(p) = n /\ \A i \in 1 .. n : p[i] = <<s[i], t[i]>>
  <2>1. s \in Seq(S) /\ t \in Seq(S) /\ n \in Nat /\ n <= Len(s) /\ n <= Len(t)
    BY <1>1
  <2>2. /\ Pairs(s, t, n) \in Seq(S \X S)
        /\ Len(Pairs(s, t, n)) = n
        /\ \A i \in 1 .. n : Pairs(s, t, n)[i] = <<s[i], t[i]>>
    BY <2>1, PairsProperties
  <2> QED
    BY <2>2
<1>3. q \in Seq(S \X S) /\ Len(q) = k /\ \A i \in 1 .. k : q[i] = <<u[i], v[i]>>
  <2>1. u \in Seq(S) /\ v \in Seq(S) /\ k \in Nat /\ k <= Len(u) /\ k <= Len(v)
    BY <1>1
  <2>2. /\ Pairs(u, v, k) \in Seq(S \X S)
        /\ Len(Pairs(u, v, k)) = k
        /\ \A i \in 1 .. k : Pairs(u, v, k)[i] = <<u[i], v[i]>>
    BY <2>1, PairsProperties
  <2> QED
    BY <2>2
<1>4. w \in Seq(S \X S) /\ Len(w) = n + k /\ \A i \in 1 .. n + k : w[i] = <<s[i], t[i]>>
  <2>1. s \in Seq(S) /\ t \in Seq(S) /\ n + k \in Nat /\ n + k <= Len(s) /\ n + k <= Len(t)
    BY <1>1
  <2>2. /\ Pairs(s, t, n + k) \in Seq(S \X S)
        /\ Len(Pairs(s, t, n + k)) = n + k
        /\ \A i \in 1 .. n + k : Pairs(s, t, n + k)[i] = <<s[i], t[i]>>
    BY <2>1, PairsProperties
  <2> QED
    BY <2>2
<1> HIDE DEF p, q, w
<1>5. /\ p \o q \in Seq(S \X S)
      /\ Len(p \o q) = n + k
      /\ \A i \in 1 .. n + k : (p \o q)[i] = IF i <= n THEN p[i] ELSE q[i - n]
  <2>1. /\ p \o q \in Seq(S \X S)
        /\ Len(p \o q) = Len(p) + Len(q)
        /\ \A i \in 1 .. Len(p) + Len(q) : (p \o q)[i] = IF i <= Len(p) THEN p[i] ELSE q[i - Len(p)]
    <3>1. p \in Seq(S \X S) /\ q \in Seq(S \X S)
      BY <1>2, <1>3
    <3> QED
      BY <3>1, ConcatProperties, ZenonT(30)
  <2> QED
    BY <1>2, <1>3, <2>1, Zenon
<1>6. ASSUME NEW i \in 1 .. Len(p \o q)
      PROVE  (p \o q)[i] = w[i]
  <2>1. i \in 1 .. n + k
    BY <1>5
  <2>2. CASE i <= n
    <3>1. i \in 1 .. n
      BY <2>1, <2>2
    <3> QED
      BY <1>2, <1>4, <1>5, <2>1, <2>2, <3>1, Zenon
  <2>3. CASE ~(i <= n)
    <3>1. i - n \in 1 .. k /\ n + (i - n) = i
      BY <2>1, <2>3
    <3>2. q[i - n] = <<s[i], t[i]>>
      BY <1>3, <3>1 DEF Continues
    <3> QED
      BY <1>4, <1>5, <2>1, <2>3, <3>2
  <2> QED
    BY <2>2, <2>3
<1>7. p \o q = w
  BY <1>4, <1>5, <1>6, SeqEqual
<1> QED
  BY <1>7 DEF p, q, w

-----------------------------------------------------------------------------
(* The inductive invariant: the types, what is buffered and what was       *)
(* returned determine each other, and no internal error.                   *)
IInv == TypeOK /\ StreamIsBatch /\ NoInternalError

\* Initially nothing was given and nothing is held.
LEMMA InitIInv == Init => IInv
<1> SUFFICES ASSUME Init PROVE IInv
  OBVIOUS
<1>1. <<>> \in Seq(Values) /\ <<>> \in Seq(Values \X Values) /\ Len(<<>>) = 0
  BY EmptySeq
<1>2. TypeOK
  <2>1. empty \in StreamTensor /\ empty.elems = <<>>
    BY <1>1 DEF StreamTensor, empty
  <2> QED
    BY <1>1, <2>1 DEF Init, TypeOK
<1>3. Lesser(Len(<<>>), Len(<<>>)) = 0
  BY <1>1 DEF Lesser
<1>4. SubSeq(<<>>, 1, 0) = <<>>
  BY SubSeqEmpty
<1>5. [i \in 1 .. 0 |-> <<lhs_in[i], rhs_in[i]>>] = <<>>
  OBVIOUS
<1>6. StreamIsBatch
  BY <1>1, <1>3, <1>4, <1>5 DEF Init, StreamIsBatch, empty
<1> QED
  BY <1>2, <1>6 DEF Init, IInv, NoInternalError

\* StreamingBinOp::step keeps it: what was buffered and what arrives, cut at
\* the common length, continue the pairs returned so far.
LEMMA StepIInv ==
  ASSUME IInv, NEW lhs \in Chunks, NEW rhs \in Chunks, Step(lhs, rhs)
  PROVE  IInv'
<1> DEFINE l == cat2(prev_lhs, lhs)
           r == cat2(prev_rhs, rhs)
           k == Lesser(Len(l.elems), Len(r.elems))
           ls == split(l, k)
           rs == split(r, k)
           n == Lesser(Len(lhs_in), Len(rhs_in))
           L == lhs_in \o lhs.elems
           R == rhs_in \o rhs.elems
           m == Lesser(Len(L), Len(R))
<1>1. /\ WellFormed(prev_lhs) /\ WellFormed(prev_rhs)
      /\ WellFormed(lhs) /\ WellFormed(rhs)
  BY StreamingAssumption DEF IInv, TypeOK, WellFormed
<1>2. /\ lhs_in \in Seq(Values) /\ rhs_in \in Seq(Values)
      /\ lhs.elems \in Seq(Values) /\ rhs.elems \in Seq(Values)
  BY <1>1 DEF IInv, TypeOK, WellFormed, StreamTensor
<1>3. /\ L \in Seq(Values) /\ Len(L) = Len(lhs_in) + Len(lhs.elems)
      /\ \A i \in 1 .. Len(lhs_in) : L[i] = lhs_in[i]
  BY <1>2, ConcatProperties
<1>4. /\ R \in Seq(Values) /\ Len(R) = Len(rhs_in) + Len(rhs.elems)
      /\ \A i \in 1 .. Len(rhs_in) : R[i] = rhs_in[i]
  BY <1>2, ConcatProperties
<1>5. /\ Len(lhs_in) \in Nat /\ Len(rhs_in) \in Nat
      /\ Len(lhs.elems) \in Nat /\ Len(rhs.elems) \in Nat
  BY <1>2, LenProperties
<1>6. /\ n \in 0 .. Len(lhs_in) /\ n \in 0 .. Len(rhs_in)
      /\ n \in 0 .. Len(L) /\ n \in 0 .. Len(R) /\ n \in Nat
  BY <1>3, <1>4, <1>5 DEF Lesser
<1>7. /\ prev_lhs.elems = Rest(lhs_in, n) /\ prev_rhs.elems = Rest(rhs_in, n)
      /\ out = Pairs(lhs_in, rhs_in, n)
  BY DEF IInv, StreamIsBatch, Rest, Pairs
<1>8. WellFormed(l) /\ l.elems = Rest(L, n)
  <2>1. WellFormed(l) /\ l.elems = prev_lhs.elems \o lhs.elems
    BY <1>1, CatProperties
  <2>2. Rest(lhs_in, n) \o lhs.elems = Rest(L, n)
    <3> HIDE DEF n
    <3> QED
      BY <1>2, <1>6, RestConcat
  <2> QED
    BY <1>7, <2>1, <2>2
<1>9. WellFormed(r) /\ r.elems = Rest(R, n)
  <2>1. WellFormed(r) /\ r.elems = prev_rhs.elems \o rhs.elems
    BY <1>1, CatProperties
  <2>2. Rest(rhs_in, n) \o rhs.elems = Rest(R, n)
    <3> HIDE DEF n
    <3> QED
      BY <1>2, <1>6, RestConcat
  <2> QED
    BY <1>7, <2>1, <2>2
<1> HIDE DEF l, r, L, R, n
<1>10. /\ Len(l.elems) = Len(L) - n /\ \A i \in 1 .. Len(L) - n : l.elems[i] = L[n + i]
  BY <1>3, <1>6, <1>8, RestProperties
<1>11. /\ Len(r.elems) = Len(R) - n /\ \A i \in 1 .. Len(R) - n : r.elems[i] = R[n + i]
  BY <1>4, <1>6, <1>9, RestProperties
<1>12. /\ k \in Nat /\ k \in 0 .. Len(l.elems) /\ k \in 0 .. Len(r.elems)
       /\ k \in 0 .. Len(L) - n /\ k \in 0 .. Len(R) - n
       /\ n + k = m /\ m <= Len(L) /\ m <= Len(R)
  <2>1. /\ Len(L) \in Nat /\ Len(R) \in Nat
        /\ n \in Nat /\ n <= Len(L) /\ n <= Len(R)
        /\ Len(l.elems) = Len(L) - n /\ Len(r.elems) = Len(R) - n
    BY <1>3, <1>4, <1>5, <1>6, <1>10, <1>11
  <2>2. CASE Len(L) < Len(R)
    <3>1. Len(l.elems) < Len(r.elems)
      BY <2>1, <2>2
    <3>2. m = Len(L) /\ k = Len(L) - n
      BY <2>1, <2>2, <3>1 DEF Lesser
    <3> HIDE DEF m, k
    <3> QED
      BY <2>1, <2>2, <3>2
  <2>3. CASE ~(Len(L) < Len(R))
    <3>1. ~(Len(l.elems) < Len(r.elems))
      BY <2>1, <2>3
    <3>2. m = Len(R) /\ k = Len(R) - n
      BY <2>1, <2>3, <3>1 DEF Lesser
    <3> HIDE DEF m, k
    <3> QED
      BY <2>1, <2>3, <3>2
  <2> QED
    BY <2>2, <2>3
<1> HIDE DEF k, m
<1>13. /\ WellFormed(ls[1]) /\ WellFormed(ls[2])
       /\ ls[1].some <=> k > 0
       /\ ls[1].elems = First(l.elems, k) /\ ls[2].elems = Rest(l.elems, k)
  BY <1>8, <1>12, SplitProperties
<1>14. /\ WellFormed(rs[1]) /\ WellFormed(rs[2])
       /\ rs[1].some <=> k > 0
       /\ rs[1].elems = First(r.elems, k) /\ rs[2].elems = Rest(r.elems, k)
  BY <1>9, <1>12, SplitProperties
<1>15. ls[2].elems = Rest(L, m) /\ rs[2].elems = Rest(R, m)
  <2> HIDE DEF ls, rs
  <2>1. Rest(Rest(L, n), k) = Rest(L, n + k)
    BY <1>3, <1>6, <1>12, RestRest
  <2>2. Rest(Rest(R, n), k) = Rest(R, n + k)
    BY <1>4, <1>6, <1>12, RestRest
  <2> QED
    BY <1>8, <1>9, <1>12, <1>13, <1>14, <2>1, <2>2
<1>16. /\ ls[1].elems \in Seq(Values) /\ Len(ls[1].elems) = k
       /\ \A i \in 1 .. k : ls[1].elems[i] = l.elems[i]
  BY <1>8, <1>12, <1>13, FirstProperties DEF WellFormed, StreamTensor
<1>17. /\ rs[1].elems \in Seq(Values) /\ Len(rs[1].elems) = k
       /\ \A i \in 1 .. k : rs[1].elems[i] = r.elems[i]
  BY <1>9, <1>12, <1>14, FirstProperties DEF WellFormed, StreamTensor
<1>18. ls[1].some = rs[1].some
  BY <1>13, <1>14 DEF WellFormed, StreamTensor
<1>19. /\ out' = out \o Pairs(ls[1].elems, rs[1].elems, Len(ls[1].elems))
       /\ prev_lhs' = ls[2] /\ prev_rhs' = rs[2]
       /\ lhs_in' = L /\ rhs_in' = R
       /\ internal_error' = internal_error
  BY <1>18 DEF Step, Pairs, l, r, k, L, R
<1> HIDE DEF ls, rs
<1>20. Continues(ls[1].elems, L, n, k) /\ Continues(rs[1].elems, R, n, k)
  <2>1. ASSUME NEW i \in 1 .. k
        PROVE  ls[1].elems[i] = L[n + i] /\ rs[1].elems[i] = R[n + i]
    <3>1. i \in 1 .. Len(L) - n /\ i \in 1 .. Len(R) - n
      BY <1>3, <1>4, <1>5, <1>6, <1>12
    <3> QED
      BY <1>10, <1>11, <1>16, <1>17, <3>1
  <2> QED
    BY <2>1 DEF Continues
<1>21. out = Pairs(L, R, n)
  <2> HIDE DEF L, R, n
  <2>1. \A i \in 1 .. n : L[i] = lhs_in[i] /\ R[i] = rhs_in[i]
    <3>1. \A i \in 1 .. n : i \in 1 .. Len(lhs_in) /\ i \in 1 .. Len(rhs_in)
      BY <1>5, <1>6
    <3> QED BY <1>3, <1>4, <3>1
  <2> QED BY <1>7, <2>1 DEF Pairs
<1>22. out' = Pairs(L, R, m)
  <2> DEFINE u == ls[1].elems
             v == rs[1].elems
  <2>1. /\ u \in Seq(Values) /\ Len(u) = k /\ v \in Seq(Values) /\ Len(v) = k
        /\ Continues(u, L, n, k) /\ Continues(v, R, n, k)
    BY <1>16, <1>17, <1>20
  <2>2. out' = Pairs(L, R, n) \o Pairs(u, v, k)
    BY <1>16, <1>19, <1>21
  <2> HIDE DEF u, v
  <2>3. /\ n \in Nat /\ k \in Nat /\ n + k <= Len(L) /\ n + k <= Len(R)
        /\ Len(u) >= k /\ Len(v) >= k
    BY <1>6, <1>12, <2>1
  <2>4. Pairs(L, R, n) \o Pairs(u, v, k) = Pairs(L, R, n + k)
    <3>1. L \in Seq(Values) /\ R \in Seq(Values)
      BY <1>3, <1>4
    <3> QED
      BY <3>1, <2>1, <2>3, PairsConcat, SMTT(60)
  <2> QED
    BY <1>12, <2>2, <2>4
<1>23. out' \in Seq(Values \X Values)
  <2>1. m \in Nat /\ m <= Len(L) /\ m <= Len(R)
    BY <1>6, <1>12
  <2>2. Pairs(L, R, m) \in Seq(Values \X Values)
    BY <1>3, <1>4, <2>1, PairsProperties
  <2> QED
    BY <1>22, <2>2
<1>24. TypeOK'
  BY <1>3, <1>4, <1>13, <1>14, <1>19, <1>23 DEF TypeOK, IInv, WellFormed
<1>25. StreamIsBatch'
  BY <1>15, <1>19, <1>22 DEF StreamIsBatch, Rest, Pairs, m
<1>26. NoInternalError'
  BY <1>19 DEF IInv, NoInternalError
<1> QED
  BY <1>24, <1>25, <1>26 DEF IInv

\* StreamingBinOp::reset_state brings the initial state back.
LEMMA NextIInv == IInv /\ [Next]_vars => IInv'
<1> SUFFICES ASSUME IInv, [Next]_vars PROVE IInv'
  OBVIOUS
<1>1. ASSUME NEW lhs \in Chunks, NEW rhs \in Chunks, Step(lhs, rhs) PROVE IInv'
  BY <1>1, StepIInv
<1>2. CASE reset_state
  <2>1. Init'
    BY <1>2 DEF reset_state, Init, IInv, NoInternalError
  <2> QED
    BY <2>1, InitIInv, PTL
<1>3. CASE UNCHANGED vars
  BY <1>3 DEF vars, IInv, TypeOK, StreamIsBatch, NoInternalError
<1> QED
  BY <1>1, <1>2, <1>3 DEF Next

\* In every state: the outputs of step so far are those of the operation on
\* the whole streams, and what is buffered is the rest of the longer one.
THEOREM StreamIsBatchTheorem == Spec => []StreamIsBatch
<1>1. IInv => StreamIsBatch
  BY DEF IInv
<1> QED
  BY <1>1, InitIInv, NextIInv, PTL DEF Spec

\* step never returns its INTERNAL ERROR, whatever chunks it is given.
THEOREM NoInternalErrorTheorem == Spec => []NoInternalError
<1>1. IInv => NoInternalError
  BY DEF IInv
<1> QED
  BY <1>1, InitIInv, NextIInv, PTL DEF Spec
=============================================================================
