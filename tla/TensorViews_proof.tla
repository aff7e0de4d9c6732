------------------------- MODULE TensorViews_proof -------------------------
(***************************************************************************)
(* Proofs about TensorViews, for tensors of any shape and any sequence of  *)
(* view operations: what a layout addresses lies in the storage, a copy    *)
(* fills the whole of its new storage, the loops of the element-wise       *)
(* operations go through a tensor in row-major order, every operation      *)
(* returns the tensor that TensorValue says, and on all of them matmul     *)
(* gives the product, and the operations with indexes the elements they    *)
(* name.                                                                   *)
(***************************************************************************)
EXTENDS KernelViews, FiniteSetTheorems, SequenceTheorems, WellFoundedInduction, TLAPS

-----------------------------------------------------------------------------
(* Sums and products over sequences.                                       *)

LEMMA NatMin ==
  ASSUME NEW T \in SUBSET Nat, T # {}
  PROVE  \E x \in T : \A y \in T : x <= y
<1> DEFINE R == {ss \in Nat \X Nat : ss[1] < ss[2]}
<1>1. IsWellFoundedOn(R, Nat)
  BY NatLessThanWellFounded DEF OpToRel
<1>2. PICK x \in T : \A y \in T : ~ (<<y, x>> \in R)
  BY <1>1, WFMin
<1>3. ASSUME NEW y \in T PROVE x <= y
  <2>1. x \in Nat /\ y \in Nat
    OBVIOUS
  <2>2. ~ (y < x)
    BY <1>2, <2>1
  <2> QED BY <2>1, <2>2
<1> QED BY <1>3

\* A set of numbers with 0 and all successors, up to N, is all of 0 .. N.
LEMMA UpTo ==
  ASSUME NEW N \in Nat, NEW T, 0 \in T, \A k \in 1 .. N : k - 1 \in T => k \in T
  PROVE  0 .. N \subseteq T
<1> DEFINE U == {k \in 0 .. N : k \notin T}
<1> SUFFICES ASSUME U # {} PROVE FALSE
  OBVIOUS
<1>1. PICK k \in U : \A j \in U : k <= j
  <2>1. U \in SUBSET Nat
    OBVIOUS
  <2> HIDE DEF U
  <2> QED BY <2>1, NatMin
<1>2. k \in 1 .. N /\ k - 1 \in 0 .. N
  OBVIOUS
<1>3. k - 1 \in T
  BY <1>1, <1>2
<1> QED BY <1>2, <1>3

Base(mul) == IF mul THEN 1 ELSE 0
Comb(mul, a, b) == IF mul THEN a * b ELSE a + b

\* P has the sums, or the products, of the first elements of f.
IsAcc(mul, P, f, n) ==
  P[0] = Base(mul) /\ \A k \in 1 .. n : P[k] = Comb(mul, P[k - 1], f[k])

LEMMA AccUnique ==
  ASSUME NEW mul, NEW P, NEW R, NEW f, NEW n \in Nat, IsAcc(mul, P, f, n), IsAcc(mul, R, f, n)
  PROVE  \A k \in 0 .. n : P[k] = R[k]
<1> DEFINE T == {k \in 0 .. n : P[k] = R[k]}
<1>1. 0 \in T
  BY DEF IsAcc
<1>2. \A k \in 1 .. n : k - 1 \in T => k \in T
  BY DEF IsAcc
<1> HIDE DEF T
<1>3. 0 .. n \subseteq T
  BY <1>1, <1>2, UpTo
<1> QED BY <1>3 DEF T

LEMMA AccExists ==
  ASSUME NEW mul, NEW f, NEW n \in Nat
  PROVE  \E P : IsAcc(mul, P, f, n)
<1> DEFINE T == {k \in 0 .. n : \E P : IsAcc(mul, P, f, k)}
<1>1. 0 \in T
  <2>1. IsAcc(mul, [k \in {0} |-> Base(mul)], f, 0)
    BY DEF IsAcc
  <2> QED BY <2>1
<1>2. ASSUME NEW k \in 1 .. n, k - 1 \in T PROVE k \in T
  <2>1. PICK P : IsAcc(mul, P, f, k - 1)
    BY <1>2
  <2> DEFINE R == [j \in 0 .. k |-> IF j = k THEN Comb(mul, P[k - 1], f[k]) ELSE P[j]]
  <2>2. R[0] = Base(mul)
    BY <2>1 DEF IsAcc
  <2>3. ASSUME NEW j \in 1 .. k PROVE R[j] = Comb(mul, R[j - 1], f[j])
    <3>1. j - 1 \in 0 .. k /\ j \in 0 .. k /\ j - 1 # k
      OBVIOUS
    <3>2. R[j - 1] = P[j - 1]
      BY <3>1
    <3>3. CASE j = k
      BY <3>1, <3>2, <3>3
    <3>4. CASE j # k
      BY <3>4, <2>1, <3>1, <3>2 DEF IsAcc
    <3> QED BY <3>3, <3>4
  <2>4. IsAcc(mul, R, f, k)
    BY <2>2, <2>3 DEF IsAcc
  <2> QED BY <2>4
<1> HIDE DEF T
<1>3. 0 .. n \subseteq T
  BY <1>1, <1>2, UpTo
<1> QED BY <1>3 DEF T

\* The sum, or the product, of f[1] .. f[n].
Acc(mul, f, n) == (CHOOSE P : IsAcc(mul, P, f, n))[n]

LEMMA AccIs ==
  ASSUME NEW mul, NEW P, NEW f, NEW n \in Nat, IsAcc(mul, P, f, n)
  PROVE  \A k \in 0 .. n : Acc(mul, f, k) = P[k]
<1> SUFFICES ASSUME NEW k \in 0 .. n PROVE Acc(mul, f, k) = P[k]
  OBVIOUS
<1>1. IsAcc(mul, P, f, k)
  BY DEF IsAcc
<1>2. IsAcc(mul, CHOOSE R : IsAcc(mul, R, f, k), f, k)
  BY <1>1
<1> QED BY <1>1, <1>2, AccUnique DEF Acc

LEMMA AccRule ==
  ASSUME NEW mul, NEW f
  PROVE  /\ Acc(mul, f, 0) = Base(mul)
         /\ \A n \in Nat \ {0} : Acc(mul, f, n) = Comb(mul, Acc(mul, f, n - 1), f[n])
<1>1. ASSUME NEW n \in Nat
      PROVE  /\ Acc(mul, f, 0) = Base(mul)
             /\ n # 0 => Acc(mul, f, n) = Comb(mul, Acc(mul, f, n - 1), f[n])
  <2>1. PICK P : IsAcc(mul, P, f, n)
    BY AccExists
  <2>2. \A k \in 0 .. n : Acc(mul, f, k) = P[k]
    BY <2>1, AccIs
  <2> QED BY <2>1, <2>2 DEF IsAcc
<1> QED BY <1>1

SumTo(f, n) == Acc(FALSE, f, n)
ProdTo(f, n) == Acc(TRUE, f, n)

LEMMA SumRule ==
  ASSUME NEW f
  PROVE  SumTo(f, 0) = 0 /\ \A n \in Nat \ {0} : SumTo(f, n) = SumTo(f, n - 1) + f[n]
<1>1. Base(FALSE) = 0 /\ \A x, y : Comb(FALSE, x, y) = x + y
  BY Zenon DEF Base, Comb
<1>2. /\ Acc(FALSE, f, 0) = Base(FALSE)
      /\ \A n \in Nat \ {0} : Acc(FALSE, f, n) = Comb(FALSE, Acc(FALSE, f, n - 1), f[n])
  BY AccRule, Zenon
<1> QED BY <1>1, <1>2, Zenon DEF SumTo

LEMMA ProdRule ==
  ASSUME NEW f
  PROVE  ProdTo(f, 0) = 1 /\ \A n \in Nat \ {0} : ProdTo(f, n) = ProdTo(f, n - 1) * f[n]
  BY AccRule DEF ProdTo, Base, Comb

\* The folds of the community modules take the largest index first, as a
\* function of the set of indexes that are left.
IsIter(mul, it, f, n) ==
  it = [t \in SUBSET (1 .. n) |->
          IF t = {} THEN Base(mul) ELSE Comb(mul, it[t \ {Max(t)}], f[Max(t)])]

LEMMA IterExists ==
  ASSUME NEW mul, NEW f, NEW n \in Nat
  PROVE  \E it : IsIter(mul, it, f, n)
<1> DEFINE T == {k \in 0 .. n : \E it : IsIter(mul, it, f, k)}
<1>1. 0 \in T
  <2> DEFINE it == [t \in SUBSET (1 .. 0) |-> Base(mul)]
  <2>1. SUBSET (1 .. 0) = {{}}
    OBVIOUS
  <2>2. IsIter(mul, it, f, 0)
    BY <2>1 DEF IsIter
  <2> QED BY <2>2
<1>2. ASSUME NEW k \in 1 .. n, k - 1 \in T PROVE k \in T
  <2>1. PICK g : IsIter(mul, g, f, k - 1)
    BY <1>2
  <2> DEFINE it == [t \in SUBSET (1 .. k) |->
                      IF k \in t THEN Comb(mul, g[t \ {k}], f[k]) ELSE g[t]]
  <2>2. ASSUME NEW t \in SUBSET (1 .. k)
        PROVE  it[t] = IF t = {} THEN Base(mul) ELSE Comb(mul, it[t \ {Max(t)}], f[Max(t)])
    <3>1. CASE k \in t
      <4>1. Max(t) = k
        <5>1. \A y \in t : k >= y
          OBVIOUS
        <5>2. \A x \in t : (\A y \in t : x >= y) => x = k
          BY <3>1, <5>1
        <5> QED BY <3>1, <5>1, <5>2 DEF Max
      <4>2. t \ {k} \in SUBSET (1 .. k) /\ k \notin t \ {k}
        OBVIOUS
      <4>3. it[t \ {k}] = g[t \ {k}]
        BY <4>2
      <4> QED BY <3>1, <4>1, <4>3
    <3>2. CASE k \notin t
      <4>1. t \in SUBSET (1 .. k - 1)
        BY <3>2
      <4>2. g[t] = IF t = {} THEN Base(mul) ELSE Comb(mul, g[t \ {Max(t)}], f[Max(t)])
        BY <2>1, <4>1 DEF IsIter
      <4>3. t \ {Max(t)} \in SUBSET (1 .. k) /\ k \notin t \ {Max(t)}
        BY <3>2
      <4>4. it[t \ {Max(t)}] = g[t \ {Max(t)}]
        BY <4>3
      <4> QED BY <3>2, <4>2, <4>4
    <3> QED BY <3>1, <3>2
  <2>3. IsIter(mul, it, f, k)
    <3>1. it = [t \in SUBSET (1 .. k) |-> it[t]]
      OBVIOUS
    <3> HIDE DEF it
    <3> QED BY <2>2, <3>1, Zenon DEF IsIter
  <2> QED BY <2>3
<1> HIDE DEF T
<1>3. 0 .. n \subseteq T
  BY <1>1, <1>2, UpTo
<1> QED BY <1>3 DEF T

LEMMA IterIsAcc ==
  ASSUME NEW mul, NEW f, NEW n \in Nat
  PROVE  (CHOOSE it : IsIter(mul, it, f, n))[1 .. n] = Acc(mul, f, n)
<1> DEFINE it == CHOOSE i : IsIter(mul, i, f, n)
           P == [k \in 0 .. n |-> it[1 .. k]]
<1>1. IsIter(mul, it, f, n)
  BY IterExists
<1> HIDE DEF it
<1>2. P[0] = Base(mul)
  <2>1. 1 .. 0 = {}
    OBVIOUS
  <2> QED BY <1>1, <2>1 DEF IsIter
<1>3. ASSUME NEW k \in 1 .. n PROVE P[k] = Comb(mul, P[k - 1], f[k])
  <2> DEFINE t == 1 .. k
  <2>1. t # {} /\ t \in SUBSET (1 .. n) /\ t \ {k} = 1 .. k - 1 /\ k \in t
    OBVIOUS
  <2>2. Max(t) = k
    BY <2>1 DEF Max
  <2>3. P[k] = it[t] /\ P[k - 1] = it[t \ {k}]
    <3>1. k \in 0 .. n /\ k - 1 \in 0 .. n
      OBVIOUS
    <3>2. P[k] = it[1 .. k] /\ P[k - 1] = it[1 .. (k - 1)]
      BY <3>1
    <3>3. t \ {k} = 1 .. (k - 1)
      BY <2>1
    <3> HIDE DEF P
    <3> QED BY <3>2, <3>3
  <2> HIDE DEF t, P
  <2>4. it[t] = Comb(mul, it[t \ {k}], f[k])
    BY <1>1, <2>1, <2>2 DEF IsIter
  <2> QED BY <2>3, <2>4
<1>4. IsAcc(mul, P, f, n)
  BY <1>2, <1>3 DEF IsAcc
<1>5. Acc(mul, f, n) = P[n]
  BY <1>4, AccIs
<1> QED BY <1>5 DEF it

LEMMA CountIs ==
  ASSUME NEW s, NEW n \in Nat, DOMAIN s = 1 .. n
  PROVE  elem_count(s) = ProdTo(s, n) /\ Size(s) = ProdTo(s, n)
<1>1. elem_count(s) = (CHOOSE it : IsIter(TRUE, it, s, n))[1 .. n]
  BY DEF elem_count, FoldLeft, MapThenFoldSet, IsIter, Base, Comb
<1>2. Size(s) = elem_count(s)
  BY DEF elem_count, Size
<1> QED BY <1>1, <1>2, IterIsAcc DEF ProdTo

LEMMA FoldIs ==
  ASSUME NEW s, NEW n \in Nat, DOMAIN s = 1 .. n
  PROVE  FoldLeft(+, 0, s) = SumTo(s, n)
<1>1. FoldLeft(+, 0, s) = (CHOOSE it : IsIter(FALSE, it, s, n))[1 .. n]
  BY DEF FoldLeft, MapThenFoldSet, IsIter, Base, Comb
<1> QED BY <1>1, IterIsAcc DEF SumTo

-----------------------------------------------------------------------------
(* Arithmetic of sums and products.                                        *)

Ints(f, n) == \A k \in 1 .. n : f[k] \in Int
Agree(f, g, n) == \A k \in 1 .. n : f[k] = g[k]

LEMMA SumTyped ==
  ASSUME NEW n \in Nat, NEW f, Ints(f, n)
  PROVE  /\ \A k \in 0 .. n : SumTo(f, k) \in Int
         /\ (\A k \in 1 .. n : f[k] >= 0) => \A k \in 0 .. n : SumTo(f, k) \in Nat
<1>1. \A k \in 0 .. n : SumTo(f, k) \in Int
  <2> DEFINE T == {k \in 0 .. n : SumTo(f, k) \in Int}
  <2>1. 0 \in T
    BY SumRule DEF Ints
  <2>2. \A k \in 1 .. n : k - 1 \in T => k \in T
    BY SumRule DEF Ints
  <2> HIDE DEF T
  <2>3. 0 .. n \subseteq T
    BY <2>1, <2>2, UpTo
  <2> QED BY <2>3 DEF T
<1>2. ASSUME \A k \in 1 .. n : f[k] >= 0 PROVE \A k \in 0 .. n : SumTo(f, k) \in Nat
  <2> DEFINE T == {k \in 0 .. n : SumTo(f, k) \in Nat}
  <2>1. 0 \in T
    BY SumRule DEF Ints
  <2>2. \A k \in 1 .. n : k - 1 \in T => k \in T
    BY <1>2, SumRule DEF Ints
  <2> HIDE DEF T
  <2>3. 0 .. n \subseteq T
    BY <2>1, <2>2, UpTo
  <2> QED BY <2>3 DEF T
<1> QED BY <1>1, <1>2

LEMMA SumAgrees ==
  ASSUME NEW n \in Nat, NEW f, NEW g, Agree(f, g, n)
  PROVE  \A k \in 0 .. n : SumTo(f, k) = SumTo(g, k)
<1> DEFINE T == {k \in 0 .. n : SumTo(f, k) = SumTo(g, k)}
<1>1. 0 \in T
  BY SumRule DEF Agree
<1>2. \A k \in 1 .. n : k - 1 \in T => k \in T
  BY SumRule DEF Agree
<1> HIDE DEF T
<1>3. 0 .. n \subseteq T
  BY <1>1, <1>2, UpTo
<1> QED BY <1>3 DEF T

LEMMA ProdAgrees ==
  ASSUME NEW n \in Nat, NEW f, NEW g, Agree(f, g, n)
  PROVE  \A k \in 0 .. n : ProdTo(f, k) = ProdTo(g, k)
<1> DEFINE T == {k \in 0 .. n : ProdTo(f, k) = ProdTo(g, k)}
<1>1. 0 \in T
  BY ProdRule DEF Agree
<1>2. \A k \in 1 .. n : k - 1 \in T => k \in T
  BY ProdRule DEF Agree
<1> HIDE DEF T
<1>3. 0 .. n \subseteq T
  BY <1>1, <1>2, UpTo
<1> QED BY <1>3 DEF T

\* g is f, plus a, but minus b.
Combined(g, f, a, b, n) ==
  \A k \in 1 .. n : /\ f[k] \in Int /\ a[k] \in Int /\ b[k] \in Int
                    /\ g[k] = f[k] + a[k] - b[k]

LEMMA SumCombined ==
  ASSUME NEW n \in Nat, NEW f, NEW g, NEW a, NEW b, Combined(g, f, a, b, n)
  PROVE  \A k \in 0 .. n : SumTo(g, k) = SumTo(f, k) + SumTo(a, k) - SumTo(b, k)
<1>1. \A k \in 0 .. n : SumTo(f, k) \in Int /\ SumTo(a, k) \in Int /\ SumTo(b, k) \in Int
  BY SumTyped DEF Combined, Ints
<1> DEFINE T == {k \in 0 .. n : SumTo(g, k) = SumTo(f, k) + SumTo(a, k) - SumTo(b, k)}
<1>2. 0 \in T
  BY SumRule
<1>3. ASSUME NEW k \in 1 .. n, k - 1 \in T PROVE k \in T
  <2> DEFINE x == SumTo(f, k - 1)
             y == SumTo(a, k - 1)
             z == SumTo(b, k - 1)
  <2>1. /\ SumTo(f, k) = x + f[k] /\ SumTo(a, k) = y + a[k] /\ SumTo(b, k) = z + b[k]
        /\ SumTo(g, k) = (x + y - z) + (f[k] + a[k] - b[k])
    BY <1>3, SumRule DEF Combined
  <2>2. x \in Int /\ y \in Int /\ z \in Int /\ f[k] \in Int /\ a[k] \in Int /\ b[k] \in Int
    BY <1>1, <1>3 DEF Combined
  <2> HIDE DEF x, y, z
  <2>3. SumTo(g, k) = SumTo(f, k) + SumTo(a, k) - SumTo(b, k)
    BY <2>1, <2>2
  <2> QED BY <2>3
<1> HIDE DEF T
<1>4. 0 .. n \subseteq T
  BY <1>2, <1>3, UpTo
<1> QED BY <1>4 DEF T

\* A sequence that is 0 but for x at place d.
Only(f, d, x, n) == \A k \in 1 .. n : f[k] = IF k = d THEN x ELSE 0

LEMMA SumOnly ==
  ASSUME NEW n \in Nat, NEW d \in 1 .. n, NEW f, NEW x \in Int, Only(f, d, x, n)
  PROVE  \A k \in 0 .. n : SumTo(f, k) = IF k < d THEN 0 ELSE x
<1> DEFINE T == {k \in 0 .. n : SumTo(f, k) = IF k < d THEN 0 ELSE x}
<1>1. 0 \in T
  BY SumRule
<1>2. ASSUME NEW k \in 1 .. n, k - 1 \in T PROVE k \in T
  BY <1>2, SumRule DEF Only
<1> HIDE DEF T
<1>3. 0 .. n \subseteq T
  BY <1>1, <1>2, UpTo
<1> QED BY <1>3 DEF T

\* Changing one element changes the sum as much.
Changed(g, f, d, x, n) ==
  /\ x \in Int
  /\ \A k \in 1 .. n : f[k] \in Int /\ g[k] = f[k] + (IF k = d THEN x ELSE 0)

LEMMA SumChanged ==
  ASSUME NEW n \in Nat, NEW d \in 1 .. n, NEW f, NEW g, NEW x, Changed(g, f, d, x, n)
  PROVE  SumTo(g, n) = SumTo(f, n) + x
<1> DEFINE a == [k \in 1 .. n |-> IF k = d THEN x ELSE 0]
           b == [k \in 1 .. n |-> 0]
<1>1. Combined(g, f, a, b, n)
  BY DEF Changed, Combined
<1>2. Only(a, d, x, n) /\ Only(b, d, 0, n)
  BY DEF Only
<1>3. Ints(f, n)
  BY DEF Changed, Ints
<1>4. x \in Int /\ n \in 0 .. n /\ ~(n < d)
  BY DEF Changed
<1> HIDE DEF a, b
<1>5. SumTo(a, n) = x
  BY <1>2, <1>4, SumOnly
<1>6. SumTo(b, n) = 0
  BY <1>2, <1>4, SumOnly
<1>7. SumTo(f, n) \in Int
  BY <1>3, SumTyped
<1>8. SumTo(g, n) = SumTo(f, n) + SumTo(a, n) - SumTo(b, n)
  BY <1>1, <1>4, SumCombined
<1> QED BY <1>4, <1>5, <1>6, <1>7, <1>8

\* g is f without its element d.
Dropped(g, f, d, n) ==
  \A k \in 1 .. n - 1 : g[k] = IF k < d THEN f[k] ELSE f[k + 1]

LEMMA SumDropped ==
  ASSUME NEW n \in Nat, NEW d \in 1 .. n, NEW f, NEW g, Dropped(g, f, d, n),
         Ints(f, n)
  PROVE  SumTo(f, n) = SumTo(g, n - 1) + f[d]
<1>0. \A k \in 0 .. n : SumTo(f, k) \in Int
  BY SumTyped
<1> DEFINE T == {k \in 0 .. n - 1 :
                   SumTo(g, k) = IF k < d THEN SumTo(f, k) ELSE SumTo(f, k + 1) - f[d]}
<1>1. 0 \in T
  BY SumRule
<1>2. ASSUME NEW k \in 1 .. n - 1, k - 1 \in T PROVE k \in T
  <2>1. /\ SumTo(g, k) = SumTo(g, k - 1) + g[k]
        /\ SumTo(f, k) = SumTo(f, k - 1) + f[k]
        /\ SumTo(f, k + 1) = SumTo(f, k) + f[k + 1]
    BY SumRule
  <2>2. SumTo(g, k - 1) = IF k - 1 < d THEN SumTo(f, k - 1) ELSE SumTo(f, k) - f[d]
    BY <1>2
  <2>3. g[k] = IF k < d THEN f[k] ELSE f[k + 1]
    BY DEF Dropped
  <2>4. /\ SumTo(f, k - 1) \in Int /\ SumTo(f, k) \in Int /\ SumTo(f, k + 1) \in Int
        /\ f[k] \in Int /\ f[k + 1] \in Int /\ f[d] \in Int
    BY <1>0 DEF Ints
  <2>5. SumTo(g, k) = IF k < d THEN SumTo(f, k) ELSE SumTo(f, k + 1) - f[d]
    <3>1. CASE k < d
      BY <2>1, <2>2, <2>3, <3>1
    <3>2. CASE k = d
      BY <2>1, <2>2, <2>3, <2>4, <3>2
    <3>3. CASE k > d
      BY <2>1, <2>2, <2>3, <2>4, <3>3
    <3> QED BY <3>1, <3>2, <3>3
  <2> QED BY <2>5
<1> HIDE DEF T
<1>3. 0 .. n - 1 \subseteq T
  BY <1>1, <1>2, UpTo
<1>4. SumTo(g, n - 1) = IF n - 1 < d THEN SumTo(f, n - 1) ELSE SumTo(f, n) - f[d]
  BY <1>3 DEF T
<1>5. SumTo(f, n) = SumTo(f, n - 1) + f[n]
  BY SumRule
<1>6. SumTo(f, n) \in Int /\ SumTo(f, n - 1) \in Int /\ f[d] \in Int /\ f[n] \in Int
  BY <1>0 DEF Ints
<1> QED BY <1>4, <1>5, <1>6

\* g is zeros followed by f.
Shifted(g, f, m, n) ==
  /\ \A k \in 1 .. m : g[k] = 0
  /\ \A k \in 1 .. n : g[m + k] = f[k]

LEMMA SumShifted ==
  ASSUME NEW n \in Nat, NEW m \in Nat, NEW f, NEW g, Shifted(g, f, m, n)
  PROVE  SumTo(g, m + n) = SumTo(f, n)
<1>1. SumTo(g, m) = 0
  <2> DEFINE T == {k \in 0 .. m : SumTo(g, k) = 0}
  <2>1. 0 \in T
    BY SumRule
  <2>2. \A k \in 1 .. m : k - 1 \in T => k \in T
    BY SumRule DEF Shifted
  <2> HIDE DEF T
  <2>3. 0 .. m \subseteq T
    BY <2>1, <2>2, UpTo
  <2> QED BY <2>3 DEF T
<1> DEFINE T == {k \in 0 .. n : SumTo(g, m + k) = SumTo(f, k)}
<1>2. 0 \in T
  BY <1>1, SumRule
<1>3. ASSUME NEW k \in 1 .. n, k - 1 \in T PROVE k \in T
  BY SumRule, <1>3 DEF Shifted
<1> HIDE DEF T
<1>4. 0 .. n \subseteq T
  BY <1>2, <1>3, UpTo
<1> QED BY <1>4 DEF T

\* p lists all of 1 .. n.
Lists(p, n) == \A v \in 1 .. n : \E k \in 1 .. n : p[k] = v

Through(g, f, p, n) == \A k \in 1 .. n : g[k] = f[p[k]]

\* The sum is the same in any order.
LEMMA SumListed ==
  ASSUME NEW n \in Nat, NEW f, NEW p, NEW g, Lists(p, n), Through(g, f, p, n),
         \A k \in 1 .. n : p[k] \in 1 .. n, Ints(f, n)
  PROVE  SumTo(g, n) = SumTo(f, n)
<1> DEFINE T == {m \in 0 .. n :
                   \A q, h : Lists(q, m) /\ Through(h, f, q, m) /\ (\A k \in 1 .. m : q[k] \in 1 .. n)
                             => SumTo(h, m) = SumTo(f, m)}
<1>1. 0 \in T
  BY SumRule
<1>2. ASSUME NEW m \in 1 .. n, m - 1 \in T PROVE m \in T
  <2> SUFFICES ASSUME NEW q, NEW h, Lists(q, m), Through(h, f, q, m), \A k \in 1 .. m : q[k] \in 1 .. n
               PROVE  SumTo(h, m) = SumTo(f, m)
    OBVIOUS
  <2>1. PICK d \in 1 .. m : q[d] = m
    BY DEF Lists
  <2> DEFINE r == [k \in 1 .. m - 1 |-> IF k = d THEN q[m] ELSE q[k]]
             u == [k \in 1 .. m - 1 |-> f[r[k]]]
             w == [k \in 1 .. m |-> IF k = m THEN f[m] ELSE u[k]]
             x == f[q[m]] - f[m]
  <2>2. ASSUME NEW v \in 1 .. m - 1 PROVE \E k \in 1 .. m - 1 : r[k] = v
    <3>1. v \in 1 .. m /\ v # m
      OBVIOUS
    <3>2. PICK k \in 1 .. m : q[k] = v
      BY <3>1 DEF Lists
    <3>3. k # d
      BY <2>1, <3>1, <3>2
    <3>4. CASE k = m
      <4>1. d \in 1 .. m - 1 /\ r[d] = v
        BY <3>2, <3>3, <3>4
      <4> QED BY <4>1
    <3>5. CASE k # m
      BY <3>2, <3>3, <3>5
    <3> QED BY <3>4, <3>5
  <2>3. Lists(r, m - 1)
    BY <2>2 DEF Lists
  <2>4. Through(u, f, r, m - 1)
    BY DEF Through
  <2>5. \A k \in 1 .. m - 1 : r[k] \in 1 .. n
    OBVIOUS
  <2> HIDE DEF T
  <2>6. SumTo(u, m - 1) = SumTo(f, m - 1)
    <3> HIDE DEF r, u
    <3> QED BY <1>2, <2>3, <2>4, <2>5 DEF T
  <2>7. SumTo(w, m - 1) = SumTo(u, m - 1)
    <3>1. m - 1 \in Nat /\ m - 1 \in 0 .. m - 1 /\ Agree(w, u, m - 1)
      BY DEF Agree
    <3> HIDE DEF w, u
    <3> QED BY <3>1, SumAgrees
  <2>8. SumTo(w, m) = SumTo(f, m)
    <3>1. w[m] = f[m] /\ m \in Nat \ {0}
      OBVIOUS
    <3> HIDE DEF w, u
    <3>2. SumTo(w, m) = SumTo(w, m - 1) + w[m] /\ SumTo(f, m) = SumTo(f, m - 1) + f[m]
      BY <3>1, SumRule
    <3> QED BY <2>6, <2>7, <3>1, <3>2
  <2>9. \A k \in 1 .. m : h[k] \in Int /\ h[k] = f[q[k]]
    BY DEF Through, Ints
  <2>10. x \in Int /\ f[m] \in Int /\ f[q[m]] \in Int
    BY DEF Ints
  <2>11. \A k \in 1 .. m : w[k] = IF k = m THEN f[m] ELSE IF k = d THEN f[q[m]] ELSE f[q[k]]
    OBVIOUS
  <2>12. CASE d = m
    <3>1. Agree(h, w, m)
      BY <2>1, <2>9, <2>11, <2>12 DEF Agree
    <3>2. m \in Nat /\ m \in 0 .. m
      OBVIOUS
    <3> HIDE DEF w, u
    <3>3. SumTo(h, m) = SumTo(w, m)
      BY <3>1, <3>2, SumAgrees
    <3> QED BY <2>8, <3>3
  <2>13. CASE d # m
    <3> DEFINE y == [k \in 1 .. m |-> h[k] + (IF k = d THEN x ELSE 0)]
    <3>1. Changed(y, h, d, x, m)
      BY <2>9, <2>10 DEF Changed
    <3>2. Changed(w, y, m, -x, m)
      <4>1. ASSUME NEW k \in 1 .. m PROVE y[k] \in Int /\ w[k] = y[k] + (IF k = m THEN -x ELSE 0)
        <5>1. y[k] = h[k] + (IF k = d THEN x ELSE 0)
          OBVIOUS
        <5>2. CASE k = d
          BY <2>1, <2>9, <2>10, <2>11, <2>13, <5>1, <5>2
        <5>3. CASE k = m
          BY <2>9, <2>10, <2>11, <2>13, <5>1, <5>3
        <5>4. CASE k # d /\ k # m
          BY <2>9, <2>11, <5>1, <5>4
        <5> QED BY <5>2, <5>3, <5>4
      <4>2. -x \in Int
        BY <2>10
      <4> QED BY <4>1, <4>2 DEF Changed
    <3> HIDE DEF y, w, u, r, x
    <3>3. m \in Nat /\ m \in 1 .. m
      OBVIOUS
    <3>4. SumTo(y, m) = SumTo(h, m) + x
      BY <3>1, <3>3, SumChanged
    <3>5. SumTo(w, m) = SumTo(y, m) + (-x)
      BY <3>2, <3>3, SumChanged
    <3>6. SumTo(h, m) \in Int
      <4>1. Ints(h, m) /\ m \in 0 .. m
        BY <2>9 DEF Ints
      <4> QED BY <4>1, SumTyped
    <3> QED BY <2>8, <2>10, <3>4, <3>5, <3>6 DEF x
  <2> QED BY <2>12, <2>13
<1> HIDE DEF T
<1>3. 0 .. n \subseteq T
  BY <1>1, <1>2, UpTo
<1>4. n \in T
  BY <1>3
<1> QED BY <1>4 DEF T

-----------------------------------------------------------------------------
(* Numbers of elements of shapes.                                          *)

Nats(f, n) == \A k \in 1 .. n : f[k] \in Nat

LEMMA Times ==
  ASSUME NEW a \in Nat, NEW b \in Nat
  PROVE  a * b \in Nat /\ (a * b = 0 => a = 0 \/ b = 0) /\ (a = 0 \/ b = 0 => a * b = 0)
  OBVIOUS

LEMMA ProdTyped ==
  ASSUME NEW n \in Nat, NEW f, Nats(f, n)
  PROVE  /\ \A k \in 0 .. n : ProdTo(f, k) \in Nat
         /\ (\A k \in 1 .. n : f[k] # 0) => ProdTo(f, n) # 0
<1>1. \A k \in 0 .. n : ProdTo(f, k) \in Nat
  <2> DEFINE T == {k \in 0 .. n : ProdTo(f, k) \in Nat}
  <2>1. 0 \in T
    BY ProdRule
  <2>2. ASSUME NEW k \in 1 .. n, k - 1 \in T PROVE k \in T
    BY <2>2, ProdRule, Times DEF Nats
  <2> HIDE DEF T
  <2>3. 0 .. n \subseteq T
    BY <2>1, <2>2, UpTo
  <2> QED BY <2>3 DEF T
<1>2. ASSUME \A k \in 1 .. n : f[k] # 0 PROVE ProdTo(f, n) # 0
  <2> DEFINE T == {k \in 0 .. n : ProdTo(f, k) # 0}
  <2>1. 0 \in T
    BY ProdRule
  <2>2. ASSUME NEW k \in 1 .. n, k - 1 \in T PROVE k \in T
    <3>1. ProdTo(f, k) = ProdTo(f, k - 1) * f[k] /\ f[k] \in Nat /\ ProdTo(f, k - 1) \in Nat
      BY <1>1, ProdRule DEF Nats
    <3>2. f[k] # 0 /\ ProdTo(f, k - 1) # 0
      BY <1>2, <2>2
    <3> HIDE DEF T
    <3>3. ProdTo(f, k) # 0
      BY <3>1, <3>2, Times
    <3> QED BY <3>3 DEF T
  <2> HIDE DEF T
  <2>3. 0 .. n \subseteq T
    BY <2>1, <2>2, UpTo
  <2> QED BY <2>3 DEF T
<1> QED BY <1>1, <1>2

\* g is a followed by f.
Fronted(g, f, a, n) == g[1] = a /\ \A k \in 1 .. n : g[k + 1] = f[k]

LEMMA PlusTimes ==
  ASSUME NEW a \in Int, NEW b \in Int, NEW c \in Int
  PROVE  (a + b) * c = a * c + b * c
  OBVIOUS

LEMMA TimesAssoc ==
  ASSUME NEW a \in Int, NEW b \in Int, NEW c \in Int
  PROVE  (a * b) * c = a * (b * c)
  OBVIOUS

LEMMA ProdFronted ==
  ASSUME NEW n \in Nat, NEW f, NEW g, NEW a \in Nat, Fronted(g, f, a, n), Nats(f, n)
  PROVE  ProdTo(g, n + 1) = a * ProdTo(f, n)
<1> DEFINE T == {k \in 0 .. n : ProdTo(g, k + 1) = a * ProdTo(f, k)}
<1>1. 0 \in T
  <2>1. ProdTo(g, 1) = ProdTo(g, 0) * g[1] /\ ProdTo(g, 0) = 1 /\ ProdTo(f, 0) = 1
    BY ProdRule
  <2> QED BY <2>1 DEF Fronted
<1>2. ASSUME NEW k \in 1 .. n, k - 1 \in T PROVE k \in T
  BY ProdRule, <1>2, ProdTyped, TimesAssoc DEF Fronted, Nats
<1> HIDE DEF T
<1>3. 0 .. n \subseteq T
  BY <1>1, <1>2, UpTo
<1>4. n \in T
  BY <1>3
<1> QED BY <1>4 DEF T

\* The elements of a shape, and of its last dimensions.
LEMMA AfterRule ==
  ASSUME NEW s \in Seq(Nat)
  PROVE  /\ elem_count(s) \in Nat /\ Size(s) = elem_count(s)
         /\ CountAfter(s, Len(s)) = 1 /\ CountAfter(s, 0) = elem_count(s)
         /\ \A i \in 0 .. Len(s) : CountAfter(s, i) \in Nat
         /\ \A i \in 1 .. Len(s) : CountAfter(s, i - 1) = s[i] * CountAfter(s, i)
<1> DEFINE n == Len(s)
           Rest(i) == SubSeq(s, i + 1, n)
<1>0. n \in Nat /\ DOMAIN s = 1 .. n
  OBVIOUS
<1>1. ASSUME NEW i \in 0 .. n
      PROVE  /\ DOMAIN Rest(i) = 1 .. n - i /\ n - i \in Nat
             /\ \A k \in 1 .. n - i : Rest(i)[k] = s[i + k] /\ s[i + k] \in Nat
  OBVIOUS
<1>2. ASSUME NEW i \in 0 .. n
      PROVE  CountAfter(s, i) = ProdTo(Rest(i), n - i) /\ Nats(Rest(i), n - i)
  <2>1. DOMAIN Rest(i) = 1 .. n - i /\ n - i \in Nat
    BY <1>1
  <2>2. Nats(Rest(i), n - i)
    BY <1>1 DEF Nats
  <2>3. CountAfter(s, i) = elem_count(Rest(i))
    BY Zenon DEF CountAfter
  <2> HIDE DEF Rest
  <2> QED BY <2>1, <2>2, <2>3, CountIs
<1>3. \A i \in 0 .. n : CountAfter(s, i) \in Nat
  <2> SUFFICES ASSUME NEW i \in 0 .. n PROVE CountAfter(s, i) \in Nat
    OBVIOUS
  <2>1. n - i \in Nat /\ n - i \in 0 .. n - i
    BY <1>0
  <2> HIDE DEF Rest
  <2> QED BY <1>2, <2>1, ProdTyped
<1>4. CountAfter(s, n) = 1
  <2>1. n \in 0 .. n /\ n - n = 0
    BY <1>0
  <2> HIDE DEF Rest
  <2> QED BY <1>2, <2>1, ProdRule
<1>5. ASSUME NEW i \in 1 .. n PROVE CountAfter(s, i - 1) = s[i] * CountAfter(s, i)
  <2>1. i - 1 \in 0 .. n /\ i \in 0 .. n /\ n - i \in Nat /\ n - (i - 1) = (n - i) + 1 /\ s[i] \in Nat
    OBVIOUS
  <2>2. Fronted(Rest(i - 1), Rest(i), s[i], n - i)
    <3>1. Rest(i - 1)[1] = s[i]
      <4>1. 1 \in 1 .. n - (i - 1) /\ (i - 1) + 1 = i
        OBVIOUS
      <4> HIDE DEF Rest
      <4>2. Rest(i - 1)[1] = s[(i - 1) + 1]
        BY <1>1, <2>1, <4>1
      <4> QED BY <4>1, <4>2
    <3>2. ASSUME NEW k \in 1 .. n - i PROVE Rest(i - 1)[k + 1] = Rest(i)[k]
      <4>1. k + 1 \in 1 .. n - (i - 1) /\ (i - 1) + (k + 1) = i + k
        OBVIOUS
      <4> HIDE DEF Rest
      <4>2. Rest(i - 1)[k + 1] = s[(i - 1) + (k + 1)]
        BY <1>1, <2>1, <4>1
      <4>3. Rest(i)[k] = s[i + k]
        BY <1>1, <2>1
      <4> QED BY <4>1, <4>2, <4>3
    <3> HIDE DEF Rest
    <3> QED BY <3>1, <3>2 DEF Fronted
  <2> HIDE DEF Rest
  <2>3. ProdTo(Rest(i - 1), (n - i) + 1) = s[i] * ProdTo(Rest(i), n - i)
    BY <1>2, <2>1, <2>2, ProdFronted
  <2> QED BY <1>2, <2>1, <2>3
<1>6. CountAfter(s, 0) = elem_count(s)
  <2>1. SubSeq(s, 0 + 1, Len(s)) = s
    OBVIOUS
  <2> QED BY <2>1, Zenon DEF CountAfter
<1>7. Size(s) = elem_count(s)
  BY DEF Size, elem_count
<1>8. elem_count(s) \in Nat
  <2>1. 0 \in 0 .. n
    BY <1>0
  <2> QED BY <1>3, <1>6, <2>1
<1> QED BY <1>3, <1>4, <1>5, <1>6, <1>7, <1>8

\* A shape has no element only if one of its dimensions is 0.
LEMMA CountPositive ==
  ASSUME NEW s \in Seq(Nat)
  PROVE  /\ (\A d \in 1 .. Len(s) : s[d] # 0) =>
              \A i \in 0 .. Len(s) : CountAfter(s, i) # 0
         /\ (\E d \in 1 .. Len(s) : s[d] = 0) => elem_count(s) = 0
<1> DEFINE n == Len(s)
<1>0. n \in Nat
  OBVIOUS
<1>1. ASSUME \A d \in 1 .. n : s[d] # 0 PROVE \A i \in 0 .. n : CountAfter(s, i) # 0
  <2> DEFINE T == {k \in 0 .. n : CountAfter(s, n - k) # 0}
  <2>1. 0 \in T
    BY <1>0, AfterRule
  <2>2. ASSUME NEW k \in 1 .. n, k - 1 \in T PROVE k \in T
    <3> DEFINE i == n - (k - 1)
    <3>1. i \in 1 .. n /\ i \in 0 .. n /\ i - 1 = n - k /\ s[i] \in Nat /\ s[i] # 0
      BY <1>1
    <3>2. CountAfter(s, i) \in Nat /\ CountAfter(s, i) # 0
      BY <2>2, <3>1, AfterRule
    <3> HIDE DEF i
    <3>3. CountAfter(s, i - 1) = s[i] * CountAfter(s, i)
      BY <3>1, AfterRule
    <3>4. CountAfter(s, n - k) # 0
      BY <3>1, <3>2, <3>3, Times
    <3> QED BY <3>4
  <2> HIDE DEF T
  <2>3. 0 .. n \subseteq T
    BY <1>0, <2>1, <2>2, UpTo
  <2>4. ASSUME NEW i \in 0 .. n PROVE CountAfter(s, i) # 0
    <3>1. n - i \in 0 .. n /\ n - (n - i) = i
      BY <1>0
    <3> QED BY <2>3, <3>1 DEF T
  <2> QED BY <2>4
<1>2. ASSUME NEW d \in 1 .. n, s[d] = 0 PROVE elem_count(s) = 0
  <2> DEFINE T == {k \in 0 .. d - 1 : CountAfter(s, d - 1 - k) = 0}
  <2>1. 0 \in T
    BY <1>0, AfterRule, <1>2
  <2>2. ASSUME NEW k \in 1 .. d - 1, k - 1 \in T PROVE k \in T
    <3> DEFINE i == (d - 1) - (k - 1)
    <3>1. i \in 1 .. n /\ i - 1 = d - 1 - k /\ s[i] \in Nat /\ k \in 0 .. d - 1
      BY <1>0
    <3>2. CountAfter(s, i) = 0
      BY <2>2
    <3> HIDE DEF i
    <3>3. CountAfter(s, i - 1) = s[i] * CountAfter(s, i)
      BY <3>1, AfterRule
    <3>4. CountAfter(s, d - 1 - k) = 0
      BY <3>1, <3>2, <3>3
    <3> QED BY <3>1, <3>4
  <2> HIDE DEF T
  <2>3. 0 .. d - 1 \subseteq T
    <3>1. d - 1 \in Nat
      BY <1>0
    <3> QED BY <2>1, <2>2, <3>1, UpTo
  <2>4. d - 1 \in 0 .. d - 1 /\ d - 1 - (d - 1) = 0
    BY <1>0
  <2>5. CountAfter(s, 0) = 0
    BY <2>3, <2>4 DEF T
  <2> QED BY <2>5, AfterRule
<1> QED BY <1>1, <1>2

-----------------------------------------------------------------------------
(* What a layout addresses.                                                *)

IdxOf(s) == {i \in [DOMAIN s -> Nat] : \A d \in DOMAIN s : i[d] < s[d]}

Good(l) ==
  /\ l \in [dims : Seq(Nat), stride : Seq(Nat), start_offset : Nat]
  /\ Len(l.stride) = Len(l.dims)

\* Every index of l is within a storage of size elements.
Fits(l, size) == Good(l) /\ \A i \in IdxOf(l.dims) : Address(l, i) < size

Terms(i, stride, n) == [d \in 1 .. n |-> i[d] * stride[d]]

LEMMA AddressIs ==
  ASSUME NEW l, NEW i, NEW n \in Nat, DOMAIN l.dims = 1 .. n
  PROVE  Address(l, i) = l.start_offset + SumTo(Terms(i, l.stride, n), n)
<1> DEFINE t == [d \in DOMAIN l.dims |-> i[d] * l.stride[d]]
<1>1. Address(l, i) = l.start_offset + FoldLeft(+, 0, t)
  BY Zenon DEF Address
<1>2. t = Terms(i, l.stride, n) /\ DOMAIN t = 1 .. n
  BY DEF Terms
<1> HIDE DEF t
<1>3. FoldLeft(+, 0, t) = SumTo(t, n)
  BY <1>2, FoldIs
<1> QED BY <1>1, <1>2, <1>3

LEMMA GoodParts ==
  ASSUME NEW l, Good(l)
  PROVE  /\ l.dims \in Seq(Nat) /\ l.stride \in Seq(Nat) /\ l.start_offset \in Nat
         /\ Len(l.dims) \in Nat /\ Len(l.stride) = Len(l.dims)
         /\ DOMAIN l.dims = 1 .. Len(l.dims) /\ DOMAIN l.stride = 1 .. Len(l.dims)
         /\ \A d \in 1 .. Len(l.dims) : l.dims[d] \in Nat /\ l.stride[d] \in Nat
  BY DEF Good

LEMMA IdxParts ==
  ASSUME NEW s \in Seq(Nat), NEW i \in IdxOf(s)
  PROVE  /\ DOMAIN i = 1 .. Len(s)
         /\ \A d \in 1 .. Len(s) : i[d] \in Nat /\ s[d] \in Nat /\ i[d] < s[d]
  BY DEF IdxOf

LEMMA TermsTyped ==
  ASSUME NEW l, Good(l), NEW i \in IdxOf(l.dims)
  PROVE  /\ Ints(Terms(i, l.stride, Len(l.dims)), Len(l.dims))
         /\ SumTo(Terms(i, l.stride, Len(l.dims)), Len(l.dims)) \in Nat
<1> DEFINE n == Len(l.dims)
           t == Terms(i, l.stride, n)
<1>1. \A d \in 1 .. n : i[d] \in Nat /\ l.stride[d] \in Nat
  BY GoodParts, IdxParts
<1>2. \A d \in 1 .. n : t[d] = i[d] * l.stride[d]
  BY DEF Terms
<1> HIDE DEF t
<1>3. \A d \in 1 .. n : t[d] \in Nat
  BY <1>1, <1>2, Times
<1>4. Ints(t, n) /\ \A d \in 1 .. n : t[d] >= 0
  BY <1>3 DEF Ints
<1>5. n \in Nat /\ n \in 0 .. n
  BY GoodParts
<1> HIDE DEF n
<1>6. SumTo(t, n) \in Nat
  BY <1>4, <1>5, SumTyped
<1> QED BY <1>4, <1>6 DEF t, n

\* The element at index i of the view v is the one at index j of l.
Takes(v, l, i, j) == j \in IdxOf(l.dims) /\ Address(v, i) = Address(l, j)

\* The view v has these dimensions, and takes its elements from l at From(i).
Views(v, l, shape, From(_)) ==
  Good(v) /\ v.dims = shape /\ \A i \in IdxOf(v.dims) : Takes(v, l, i, From(i))

\* A view whose addresses are among those of l stays within the storage.
LEMMA ViewFits ==
  ASSUME NEW l, NEW v, NEW size, Fits(l, size), Good(v),
         \A i \in IdxOf(v.dims) : \E j : Takes(v, l, i, j)
  PROVE  Fits(v, size)
  BY DEF Fits, Takes

\* The index that narrow, for n dimensions, takes index i from.
NarrowFrom(i, n, d, start) == [k \in 1 .. n |-> IF k = d THEN i[k] + start ELSE i[k]]

NarrowViews(v, l, d, start, len) ==
  Views(v, l, [k \in 1 .. Len(l.dims) |-> IF k = d THEN len ELSE l.dims[k]],
        LAMBDA i : NarrowFrom(i, Len(l.dims), d, start))

LEMMA NarrowIs ==
  ASSUME NEW l, Good(l), NEW d \in 1 .. Len(l.dims),
         NEW start \in Nat, NEW len \in Nat, start + len <= l.dims[d]
  PROVE  NarrowViews(narrow(l, d, start, len), l, d, start, len)
<1> DEFINE n == Len(l.dims)
           v == narrow(l, d, start, len)
<1>1. /\ l.dims \in Seq(Nat) /\ l.stride \in Seq(Nat) /\ l.start_offset \in Nat /\ n \in Nat
      /\ DOMAIN l.dims = 1 .. n /\ DOMAIN l.stride = 1 .. n /\ Len(l.stride) = n
      /\ \A k \in 1 .. n : l.dims[k] \in Nat /\ l.stride[k] \in Nat
  BY GoodParts
<1>2. /\ v.dims = [k \in 1 .. n |-> IF k = d THEN len ELSE l.dims[k]]
      /\ v.stride = l.stride /\ v.start_offset = l.start_offset + l.stride[d] * start
      /\ v = [dims |-> v.dims, stride |-> v.stride, start_offset |-> v.start_offset]
  BY <1>1 DEF narrow, Layout, With
<1> HIDE DEF v
<1>3. v.dims \in Seq(Nat) /\ Len(v.dims) = n
  BY <1>1, <1>2
<1>4. v.start_offset \in Nat
  <2>1. l.stride[d] \in Nat
    BY <1>1
  <2> DEFINE x == l.stride[d] * start
  <2>2. x \in Nat
    BY <2>1, Times
  <2>3. v.start_offset = l.start_offset + x /\ l.start_offset \in Nat
    BY <1>1, <1>2
  <2> HIDE DEF x
  <2> QED BY <2>2, <2>3
<1>5. Good(v)
  BY <1>1, <1>2, <1>3, <1>4 DEF Good
<1>6. ASSUME NEW i \in IdxOf(v.dims) PROVE Takes(v, l, i, NarrowFrom(i, n, d, start))
  <2> DEFINE j == [k \in 1 .. n |-> IF k = d THEN i[k] + start ELSE i[k]]
             f == Terms(j, l.stride, n)
             g == Terms(i, l.stride, n)
             x == l.stride[d] * start
  <2>1. \A k \in 1 .. n : i[k] \in Nat /\ i[k] < v.dims[k]
    BY <1>3, IdxParts
  <2>2. j \in IdxOf(l.dims)
    <3>1. j \in [DOMAIN l.dims -> Nat]
      <4>1. \A k \in 1 .. n : i[k] + start \in Nat /\ i[k] \in Nat
        BY <2>1
      <4>2. j \in [1 .. n -> Nat]
        BY <4>1
      <4> HIDE DEF j
      <4> QED BY <1>1, <4>2
    <3>2. ASSUME NEW k \in 1 .. n PROVE j[k] < l.dims[k]
      <4>1. CASE k = d
        <5>1. j[d] = i[d] + start /\ i[d] \in Nat /\ i[d] < v.dims[d]
          BY <2>1
        <5>2. v.dims[d] = len /\ l.dims[d] \in Nat
          BY <1>1, <1>2
        <5> HIDE DEF j, n
        <5> QED BY <4>1, <5>1, <5>2
      <4>2. CASE k # d
        BY <1>1, <1>2, <2>1, <4>2
      <4> QED BY <4>1, <4>2
    <3> HIDE DEF j
    <3> QED BY <1>1, <3>1, <3>2 DEF IdxOf
  <2>3. x \in Nat
    BY <1>1, Times
  <2>4. Ints(g, n)
    BY <1>1, <1>2, <1>5, <1>3, TermsTyped
  <2>5. Changed(f, g, d, x, n)
    <3>1. ASSUME NEW k \in 1 .. n PROVE g[k] \in Int /\ f[k] = g[k] + (IF k = d THEN x ELSE 0)
      <4>1. g[k] = i[k] * l.stride[k] /\ f[k] = j[k] * l.stride[k]
        BY DEF Terms
      <4>2. g[k] \in Int
        BY <2>4 DEF Ints
      <4>3. i[k] \in Nat /\ l.stride[k] \in Nat
        BY <1>1, <2>1
      <4>4. CASE k = d
        <5>1. j[k] = i[k] + start
          BY <4>4
        <5>2. (i[k] + start) * l.stride[k] = i[k] * l.stride[k] + l.stride[k] * start
          BY <4>3
        <5> HIDE DEF f, g, j
        <5> QED BY <4>1, <4>2, <4>4, <5>1, <5>2
      <4>5. CASE k # d
        <5>1. j[k] = i[k]
          BY <4>5
        <5> HIDE DEF f, g, j
        <5> QED BY <4>1, <4>2, <4>5, <5>1
      <4> QED BY <4>4, <4>5
    <3> HIDE DEF f, g
    <3> QED BY <2>3, <3>1 DEF Changed
  <2>6. Address(v, i) = v.start_offset + SumTo(g, n)
    <3>1. DOMAIN v.dims = 1 .. n
      BY <1>2
    <3>2. Address(v, i) = v.start_offset + SumTo(Terms(i, v.stride, n), n)
      BY <1>1, <3>1, AddressIs
    <3> QED BY <1>2, <3>2
  <2>7. Address(l, j) = l.start_offset + SumTo(f, n)
    <3> HIDE DEF j
    <3> QED BY <1>1, AddressIs
  <2>8. SumTo(g, n) \in Nat
    BY <1>1, <1>2, <1>5, <1>3, TermsTyped
  <2> HIDE DEF f, g, j, x
  <2>9. SumTo(f, n) = SumTo(g, n) + x
    BY <1>1, <2>5, SumChanged
  <2>10. v.start_offset = l.start_offset + x
    BY <1>2 DEF x
  <2>11. Address(v, i) = Address(l, j)
    BY <1>1, <2>3, <2>6, <2>7, <2>8, <2>9, <2>10
  <2>12. j = NarrowFrom(i, n, d, start)
    BY DEF NarrowFrom, j
  <2> QED BY <2>2, <2>11, <2>12 DEF Takes
<1>7. NarrowViews(v, l, d, start, len)
  BY <1>2, <1>5, <1>6 DEF NarrowViews, Views
<1> QED BY <1>7 DEF v

LEMMA NarrowFits ==
  ASSUME NEW l, NEW size, Fits(l, size), NEW d \in 1 .. Len(l.dims),
         NEW start \in Nat, NEW len \in Nat, start + len <= l.dims[d]
  PROVE  Fits(Narrowed(l, d, start, len), size)
<1> DEFINE v == narrow(l, d, start, len)
<1>1. NarrowViews(v, l, d, start, len)
  BY NarrowIs DEF Fits
<1> HIDE DEF v
<1>2. Fits(v, size)
  BY <1>1, ViewFits DEF NarrowViews, Views
<1> QED BY <1>2 DEF Narrowed, v

\* A permutation has an inverse, which is one too.
Inv2(p, q, n) ==
  /\ \A k \in 1 .. n : p[k] \in 1 .. n /\ q[k] \in 1 .. n
  /\ \A k \in 1 .. n : p[q[k]] = k /\ q[p[k]] = k

LEMMA PermInverse ==
  ASSUME NEW n \in Nat, NEW p, \A k \in 1 .. n : p[k] \in 1 .. n, Lists(p, n)
  PROVE  \E q : Inv2(p, q, n)
<1> DEFINE f == [k \in 1 .. n |-> p[k]]
           q == [v \in 1 .. n |-> CHOOSE k \in 1 .. n : f[k] = v]
<1>1. \A k \in 1 .. n : f[k] = p[k] /\ p[k] \in 1 .. n
  OBVIOUS
<1>2. f \in [1 .. n -> 1 .. n]
  OBVIOUS
<1>3. \A v \in 1 .. n : \E k \in 1 .. n : f[k] = v
  BY DEF Lists
<1> HIDE DEF f
<1>4. f \in Surjection(1 .. n, 1 .. n)
  BY <1>2, <1>3 DEF Surjection
<1>5. IsFiniteSet(1 .. n)
  BY FS_Interval
<1>6. f \in Injection(1 .. n, 1 .. n)
  BY <1>4, <1>5, FS_SurjSameCardinalityImpliesInj
<1>7. \A a, b \in 1 .. n : f[a] = f[b] => a = b
  BY <1>6 DEF Injection, IsInjective
<1>8. ASSUME NEW v \in 1 .. n PROVE q[v] \in 1 .. n /\ f[q[v]] = v
  <2>1. q[v] = CHOOSE k \in 1 .. n : f[k] = v
    OBVIOUS
  <2> HIDE DEF q
  <2> QED BY <1>3, <2>1
<1> HIDE DEF q
<1>9. ASSUME NEW k \in 1 .. n PROVE q[f[k]] = k
  BY <1>1, <1>8, <1>7
<1>10. Inv2(p, q, n)
  BY <1>1, <1>8, <1>9 DEF Inv2
<1> QED BY <1>10

\* Any order of the dimensions.
PermuteFrom(i, n, q) == [k \in 1 .. n |-> i[q[k]]]

PermuteViews(v, l, p, q) ==
  Views(v, l, [k \in 1 .. Len(l.dims) |-> l.dims[p[k]]],
        LAMBDA i : PermuteFrom(i, Len(l.dims), q))

LEMMA PermuteIs ==
  ASSUME NEW l, Good(l), NEW p, NEW q, Inv2(p, q, Len(l.dims)),
         NEW v, v = [dims |-> [k \in 1 .. Len(l.dims) |-> l.dims[p[k]]],
                     stride |-> [k \in 1 .. Len(l.dims) |-> l.stride[p[k]]],
                     start_offset |-> l.start_offset]
  PROVE  PermuteViews(v, l, p, q)
<1> DEFINE n == Len(l.dims)
<1>0. \A k \in 1 .. n : p[k] \in 1 .. n
  BY DEF Inv2
<1>1. /\ l.dims \in Seq(Nat) /\ l.stride \in Seq(Nat) /\ l.start_offset \in Nat /\ n \in Nat
      /\ DOMAIN l.dims = 1 .. n /\ DOMAIN l.stride = 1 .. n /\ Len(l.stride) = n
      /\ \A k \in 1 .. n : l.dims[k] \in Nat /\ l.stride[k] \in Nat
  BY GoodParts
<1>2. /\ v.dims \in Seq(Nat) /\ Len(v.dims) = n /\ DOMAIN v.dims = 1 .. n
      /\ v.stride \in Seq(Nat) /\ Len(v.stride) = n /\ v.start_offset = l.start_offset
      /\ \A k \in 1 .. n : v.dims[k] = l.dims[p[k]] /\ v.stride[k] = l.stride[p[k]]
  <2>1. /\ v.dims = [k \in 1 .. n |-> l.dims[p[k]]] /\ v.stride = [k \in 1 .. n |-> l.stride[p[k]]]
        /\ v.start_offset = l.start_offset
    OBVIOUS
  <2>2. \A k \in 1 .. n : l.dims[p[k]] \in Nat /\ l.stride[p[k]] \in Nat
    BY <1>0, <1>1
  <2>3. n \in Nat
    BY <1>1
  <2> HIDE DEF n
  <2>4. v.dims \in Seq(Nat) /\ Len(v.dims) = n /\ DOMAIN v.dims = 1 .. n
    BY <2>1, <2>2, <2>3
  <2>5. v.stride \in Seq(Nat) /\ Len(v.stride) = n
    BY <2>1, <2>2, <2>3
  <2>6. \A k \in 1 .. n : v.dims[k] = l.dims[p[k]] /\ v.stride[k] = l.stride[p[k]]
    BY <2>1
  <2> QED BY <2>1, <2>4, <2>5, <2>6
<1>3. v = [dims |-> v.dims, stride |-> v.stride, start_offset |-> v.start_offset]
  OBVIOUS
<1>4. Good(v)
  BY <1>1, <1>2, <1>3 DEF Good
<1>5. Lists(p, n)
  BY DEF Lists, Inv2
<1>6. ASSUME NEW i \in IdxOf(v.dims) PROVE Takes(v, l, i, PermuteFrom(i, n, q))
  <2> DEFINE j == [k \in 1 .. n |-> i[q[k]]]
             f == Terms(j, l.stride, n)
             g == Terms(i, v.stride, n)
  <2>1. \A k \in 1 .. n : i[k] \in Nat /\ i[k] < v.dims[k]
    BY <1>2, IdxParts
  <2>2. \A k \in 1 .. n : /\ p[k] \in 1 .. n /\ q[k] \in 1 .. n
                          /\ p[q[k]] = k /\ q[p[k]] = k
    BY DEF Inv2
  <2>3. j \in IdxOf(l.dims)
    <3>1. \A k \in 1 .. n : j[k] = i[q[k]] /\ j[k] \in Nat /\ j[k] < l.dims[k]
      BY <1>2, <2>1, <2>2
    <3>2. j \in [1 .. n -> Nat]
      BY <3>1
    <3> HIDE DEF j
    <3> QED BY <1>1, <3>1, <3>2 DEF IdxOf
  <2>4. Through(g, f, p, n)
    <3>1. ASSUME NEW k \in 1 .. n PROVE g[k] = f[p[k]]
      <4>1. g[k] = i[k] * v.stride[k] /\ f[p[k]] = j[p[k]] * l.stride[p[k]]
        BY <2>2 DEF Terms
      <4>2. j[p[k]] = i[k] /\ v.stride[k] = l.stride[p[k]]
        BY <1>2, <2>2
      <4> HIDE DEF f, g, j
      <4> QED BY <4>1, <4>2
    <3> HIDE DEF f, g
    <3> QED BY <3>1 DEF Through
  <2>5. Ints(f, n)
    <3> HIDE DEF j
    <3> QED BY <2>3, TermsTyped
  <2>6. Address(v, i) = v.start_offset + SumTo(g, n)
    <3>1. n \in Nat /\ DOMAIN v.dims = 1 .. n
      BY <1>1, <1>2
    <3> HIDE DEF n
    <3> QED BY <3>1, AddressIs, Zenon
  <2>7. Address(l, j) = l.start_offset + SumTo(f, n)
    <3> HIDE DEF j
    <3> QED BY <1>1, AddressIs
  <2> HIDE DEF f, g, j
  <2>8. SumTo(g, n) = SumTo(f, n)
    BY <1>1, <1>5, <2>2, <2>4, <2>5, SumListed
  <2>9. j = PermuteFrom(i, n, q)
    BY DEF PermuteFrom, j
  <2> QED BY <1>2, <2>3, <2>6, <2>7, <2>8, <2>9 DEF Takes
<1> QED BY <1>4, <1>6 DEF PermuteViews, Views

LEMMA PermuteFits ==
  ASSUME NEW l, NEW size, Fits(l, size), NEW p,
         \A k \in 1 .. Len(l.dims) : p[k] \in 1 .. Len(l.dims), Lists(p, Len(l.dims)),
         NEW v, v = [dims |-> [k \in 1 .. Len(l.dims) |-> l.dims[p[k]]],
                     stride |-> [k \in 1 .. Len(l.dims) |-> l.stride[p[k]]],
                     start_offset |-> l.start_offset]
  PROVE  Fits(v, size)
<1>1. Good(l) /\ Len(l.dims) \in Nat
  BY GoodParts DEF Fits
<1>2. PICK q : Inv2(p, q, Len(l.dims))
  BY <1>1, PermInverse
<1>3. PermuteViews(v, l, p, q)
  BY <1>1, <1>2, PermuteIs
<1> QED BY <1>3, ViewFits DEF PermuteViews, Views

\* Two dimensions swapped: the permutation is its own inverse.
SwapOf(n, d1, d2) == [k \in 1 .. n |-> IF k = d1 THEN d2 ELSE IF k = d2 THEN d1 ELSE k]

LEMMA TransposeIs ==
  ASSUME NEW l, Good(l), NEW n, n = Len(l.dims), NEW d1 \in 1 .. n, NEW d2 \in 1 .. n
  PROVE  /\ Inv2(SwapOf(n, d1, d2), SwapOf(n, d1, d2), n)
         /\ PermuteViews(transpose(l, d1, d2), l, SwapOf(n, d1, d2), SwapOf(n, d1, d2))
<1> DEFINE p == [k \in 1 .. n |-> IF k = d1 THEN d2 ELSE IF k = d2 THEN d1 ELSE k]
           v == transpose(l, d1, d2)
<1>1. DOMAIN l.dims = 1 .. n /\ DOMAIN l.stride = 1 .. n
  BY GoodParts
<1>2. ASSUME NEW s, DOMAIN s = 1 .. n PROVE Swap(s, d1, d2) = [k \in 1 .. n |-> s[p[k]]]
  <2>1. Swap(s, d1, d2) = [k \in 1 .. n |-> IF k = d2 THEN s[d1] ELSE IF k = d1 THEN s[d2] ELSE s[k]]
    BY <1>2 DEF Swap, With
  <2>2. \A k \in 1 .. n : s[p[k]] = IF k = d2 THEN s[d1] ELSE IF k = d1 THEN s[d2] ELSE s[k]
    OBVIOUS
  <2> HIDE DEF p
  <2> QED BY <2>1, <2>2
<1>3. v = [dims |-> [k \in 1 .. n |-> l.dims[p[k]]],
           stride |-> [k \in 1 .. n |-> l.stride[p[k]]], start_offset |-> l.start_offset]
  <2>1. Swap(l.dims, d1, d2) = [k \in 1 .. n |-> l.dims[p[k]]]
    BY <1>1, <1>2
  <2>2. Swap(l.stride, d1, d2) = [k \in 1 .. n |-> l.stride[p[k]]]
    BY <1>1, <1>2
  <2> HIDE DEF p
  <2> QED BY <2>1, <2>2 DEF transpose, Layout
<1>4. \A k \in 1 .. n : p[k] \in 1 .. n
  OBVIOUS
<1>5. Inv2(p, p, n)
  <2>1. \A k \in 1 .. n : p[p[k]] = k
    OBVIOUS
  <2> HIDE DEF p
  <2> QED BY <1>4, <2>1 DEF Inv2
<1>6. p = SwapOf(n, d1, d2)
  BY DEF SwapOf
<1> HIDE DEF p, v
<1>7. PermuteViews(v, l, p, p)
  BY <1>3, <1>5, PermuteIs
<1> QED BY <1>5, <1>6, <1>7 DEF v

LEMMA TransposeFits ==
  ASSUME NEW l, NEW size, Fits(l, size),
         NEW d1 \in 1 .. Len(l.dims), NEW d2 \in 1 .. Len(l.dims)
  PROVE  Fits(transpose(l, d1, d2), size)
<1> DEFINE v == transpose(l, d1, d2)
<1>1. \E p, q : PermuteViews(v, l, p, q)
  BY TransposeIs DEF Fits
<1> HIDE DEF v
<1>2. Fits(v, size)
  BY <1>1, ViewFits DEF PermuteViews, Views
<1> QED BY <1>2 DEF v

LEMMA SeqParts ==
  ASSUME NEW s \in Seq(Nat)
  PROVE  Len(s) \in Nat /\ DOMAIN s = 1 .. Len(s) /\ \A k \in 1 .. Len(s) : s[k] \in Nat
  OBVIOUS

LEMMA ConcatIs ==
  ASSUME NEW a \in Seq(Nat), NEW b \in Seq(Nat)
  PROVE  /\ a \o b \in Seq(Nat) /\ Len(a \o b) = Len(a) + Len(b)
         /\ \A k \in 1 .. Len(a) : (a \o b)[k] = a[k]
         /\ \A k \in 1 .. Len(b) : (a \o b)[Len(a) + k] = b[k]
  OBVIOUS

LEMMA RemovedIs ==
  ASSUME NEW s \in Seq(Nat), NEW d \in 1 .. Len(s)
  PROVE  /\ RemoveAt(s, d) \in Seq(Nat) /\ Len(RemoveAt(s, d)) = Len(s) - 1
         /\ \A k \in 1 .. Len(s) - 1 : RemoveAt(s, d)[k] = IF k < d THEN s[k] ELSE s[k + 1]
<1> DEFINE n == Len(s)
           a == SubSeq(s, 1, d - 1)
           b == SubSeq(s, d + 1, n)
<1>0. n \in Nat /\ d - 1 \in Nat /\ n - d \in Nat
  OBVIOUS
<1>1. a \in Seq(Nat) /\ Len(a) = d - 1 /\ \A k \in 1 .. d - 1 : a[k] = s[k]
  OBVIOUS
<1>2. b \in Seq(Nat) /\ Len(b) = n - d /\ \A k \in 1 .. n - d : b[k] = s[d + k]
  OBVIOUS
<1>3. RemoveAt(s, d) = a \o b
  BY DEF RemoveAt
<1> HIDE DEF a, b
<1>4. a \o b \in Seq(Nat) /\ Len(a \o b) = n - 1
  <2>1. a \in Seq(Nat) /\ b \in Seq(Nat) /\ Len(a) = d - 1 /\ Len(b) = n - d
    BY <1>1, <1>2
  <2>2. a \o b \in Seq(Nat) /\ Len(a \o b) = Len(a) + Len(b)
    BY <2>1, ConcatIs, Zenon
  <2> QED BY <1>0, <2>1, <2>2
<1>5. ASSUME NEW k \in 1 .. n - 1 PROVE (a \o b)[k] = IF k < d THEN s[k] ELSE s[k + 1]
  <2>1. CASE k < d
    BY <1>0, <1>1, <1>2, <2>1
  <2>2. CASE ~(k < d)
    <3>1. k - (d - 1) \in 1 .. n - d /\ d + (k - (d - 1)) = k + 1
      BY <1>0, <2>2
    <3>2. (a \o b)[k] = b[k - (d - 1)]
      <4> DEFINE e == k - (d - 1)
      <4>1. e \in 1 .. Len(b) /\ Len(a) + e = k
        BY <1>0, <1>1, <1>2, <2>2
      <4> HIDE DEF e
      <4>2. (a \o b)[Len(a) + e] = b[e]
        BY <1>1, <1>2, <4>1, ConcatIs
      <4> QED BY <4>1, <4>2 DEF e
    <3>3. b[k - (d - 1)] = s[k + 1]
      BY <1>2, <3>1
    <3> QED BY <2>2, <3>2, <3>3
  <2> QED BY <2>1, <2>2
<1> QED BY <1>3, <1>4, <1>5

\* r is s with x put in place d.
Inserted(r, s, d, x) ==
  /\ r \in Seq(Nat) /\ Len(r) = Len(s) + 1
  /\ \A k \in 1 .. Len(s) + 1 : r[k] = IF k < d THEN s[k] ELSE IF k = d THEN x ELSE s[k - 1]

LEMMA InsertedIs ==
  ASSUME NEW s \in Seq(Nat), NEW d \in 1 .. Len(s) + 1, NEW x \in Nat
  PROVE  Inserted(InsertAt(s, d, x), s, d, x)
<1> DEFINE n == Len(s)
           a == SubSeq(s, 1, d - 1)
           b == SubSeq(s, d, n)
           c == a \o <<x>>
<1>0. n \in Nat /\ d - 1 \in Nat /\ (n - d) + 1 \in Nat
  OBVIOUS
<1>1. a \in Seq(Nat) /\ Len(a) = d - 1 /\ \A k \in 1 .. d - 1 : a[k] = s[k]
  OBVIOUS
<1>2. b \in Seq(Nat) /\ Len(b) = (n - d) + 1 /\ \A k \in 1 .. (n - d) + 1 : b[k] = s[(d - 1) + k]
  OBVIOUS
<1>3. InsertAt(s, d, x) = c \o b
  BY DEF InsertAt
<1> HIDE DEF a, b
<1>4. c \in Seq(Nat) /\ Len(c) = d /\ c[d] = x /\ \A k \in 1 .. d - 1 : c[k] = a[k]
  BY <1>0, <1>1
<1> HIDE DEF c
<1>5. c \o b \in Seq(Nat) /\ Len(c \o b) = n + 1
  <2>1. c \o b \in Seq(Nat) /\ Len(c \o b) = Len(c) + Len(b)
    BY <1>2, <1>4, ConcatIs
  <2>2. d + ((n - d) + 1) = n + 1
    BY <1>0
  <2> QED BY <1>2, <1>4, <2>1, <2>2
<1>6. ASSUME NEW k \in 1 .. n + 1
      PROVE  (c \o b)[k] = IF k < d THEN s[k] ELSE IF k = d THEN x ELSE s[k - 1]
  <2>0. k <= d \/ k > d
    BY <1>0
  <2>1. CASE k <= d
    BY <1>0, <1>4, <1>2, <2>1, <1>1
  <2>2. CASE k > d
    <3>1. k - d \in 1 .. (n - d) + 1 /\ (d - 1) + (k - d) = k - 1
      BY <1>0, <2>2
    <3>2. (c \o b)[k] = b[k - d]
      <4> DEFINE e == k - d
      <4>1. e \in 1 .. Len(b) /\ Len(c) + e = k
        BY <1>0, <1>4, <1>2, <2>2
      <4> HIDE DEF e
      <4>2. (c \o b)[Len(c) + e] = b[e]
        BY <1>4, <1>2, <4>1, ConcatIs
      <4> QED BY <4>1, <4>2 DEF e
    <3>3. b[k - d] = s[k - 1]
      BY <1>2, <3>1
    <3>4. ~(k < d) /\ k # d
      BY <1>0, <2>2
    <3> QED BY <3>2, <3>3, <3>4
  <2> QED BY <2>0, <2>1, <2>2
<1>7. Inserted(c \o b, s, d, x)
  BY <1>5, <1>6 DEF Inserted
<1> QED BY <1>3, <1>7

SqueezeFrom(i, n, d) == [k \in 1 .. n |-> IF k < d THEN i[k] ELSE IF k = d THEN 0 ELSE i[k - 1]]

SqueezeViews(v, l, d) ==
  Views(v, l, RemoveAt(l.dims, d), LAMBDA i : SqueezeFrom(i, Len(l.dims), d))

LEMMA SqueezeIs ==
  ASSUME NEW l, Good(l), NEW d \in 1 .. Len(l.dims), l.dims[d] = 1
  PROVE  SqueezeViews(squeeze(l, d), l, d)
<1> DEFINE n == Len(l.dims)
           v == squeeze(l, d)
<1>1. /\ l.dims \in Seq(Nat) /\ l.stride \in Seq(Nat) /\ l.start_offset \in Nat /\ n \in Nat
      /\ DOMAIN l.dims = 1 .. n /\ DOMAIN l.stride = 1 .. n /\ Len(l.stride) = n
      /\ \A k \in 1 .. n : l.dims[k] \in Nat /\ l.stride[k] \in Nat
  BY GoodParts
<1>2. /\ v.dims = RemoveAt(l.dims, d) /\ v.stride = RemoveAt(l.stride, d)
      /\ v.start_offset = l.start_offset
      /\ v = [dims |-> v.dims, stride |-> v.stride, start_offset |-> v.start_offset]
  BY DEF squeeze, Layout
<1> HIDE DEF v
<1>3. /\ v.dims \in Seq(Nat) /\ Len(v.dims) = n - 1
      /\ \A k \in 1 .. n - 1 : v.dims[k] = IF k < d THEN l.dims[k] ELSE l.dims[k + 1]
  BY <1>1, <1>2, RemovedIs
<1>4. /\ v.stride \in Seq(Nat) /\ Len(v.stride) = n - 1
      /\ \A k \in 1 .. n - 1 : v.stride[k] = IF k < d THEN l.stride[k] ELSE l.stride[k + 1]
  <2>1. d \in 1 .. Len(l.stride)
    BY <1>1
  <2>2. /\ RemoveAt(l.stride, d) \in Seq(Nat) /\ Len(RemoveAt(l.stride, d)) = Len(l.stride) - 1
        /\ \A k \in 1 .. Len(l.stride) - 1 :
             RemoveAt(l.stride, d)[k] = IF k < d THEN l.stride[k] ELSE l.stride[k + 1]
    BY <1>1, <2>1, RemovedIs
  <2> QED BY <1>1, <1>2, <2>2
<1>5. Good(v)
  BY <1>1, <1>2, <1>3, <1>4 DEF Good
<1>6. DOMAIN v.dims = 1 .. n - 1 /\ n - 1 \in Nat
  <2>1. n - 1 \in Nat
    BY <1>1
  <2> HIDE DEF n
  <2> QED BY <1>3, <2>1
<1>7. ASSUME NEW i \in IdxOf(v.dims) PROVE Takes(v, l, i, SqueezeFrom(i, n, d))
  <2> DEFINE j == [k \in 1 .. n |-> IF k < d THEN i[k] ELSE IF k = d THEN 0 ELSE i[k - 1]]
             f == Terms(j, l.stride, n)
             g == Terms(i, v.stride, n - 1)
  <2>1. \A k \in 1 .. n - 1 : i[k] \in Nat /\ i[k] < v.dims[k]
    BY <1>3, IdxParts
  <2>2. j \in IdxOf(l.dims)
    <3>1. ASSUME NEW k \in 1 .. n PROVE j[k] \in Nat /\ j[k] < l.dims[k]
      <4>1. CASE k < d
        BY <1>3, <2>1, <4>1
      <4>2. CASE k = d
        BY <4>2
      <4>3. CASE k > d
        <5>1. k - 1 \in 1 .. n - 1 /\ ~(k - 1 < d) /\ (k - 1) + 1 = k
          BY <4>3
        <5>2. j[k] = i[k - 1]
          BY <4>3
        <5> HIDE DEF j
        <5> QED BY <1>3, <2>1, <5>1, <5>2
      <4> QED BY <4>1, <4>2, <4>3
    <3>2. j \in [1 .. n -> Nat]
      <4>1. j = [k \in 1 .. n |-> j[k]]
        OBVIOUS
      <4> HIDE DEF j
      <4> QED BY <3>1, <4>1
    <3> HIDE DEF j
    <3> QED BY <1>1, <3>1, <3>2 DEF IdxOf
  <2>3. Ints(f, n)
    <3> HIDE DEF j
    <3> QED BY <2>2, TermsTyped
  <2>4. Dropped(g, f, d, n)
    <3>1. ASSUME NEW k \in 1 .. n - 1 PROVE g[k] = IF k < d THEN f[k] ELSE f[k + 1]
      <4>1. g[k] = i[k] * v.stride[k]
        BY DEF Terms
      <4>2. k \in 1 .. n /\ k + 1 \in 1 .. n /\ (k + 1) - 1 = k
        BY <1>1
      <4>3. f[k] = j[k] * l.stride[k] /\ f[k + 1] = j[k + 1] * l.stride[k + 1]
        BY <4>2 DEF Terms
      <4>4. CASE k < d
        <5>1. j[k] = i[k]
          BY <4>2, <4>4
        <5> HIDE DEF f, g, j
        <5> QED BY <1>4, <4>1, <4>3, <4>4, <5>1
      <4>5. CASE ~(k < d)
        <5>1. j[k + 1] = i[k]
          BY <4>2, <4>5
        <5> HIDE DEF f, g, j
        <5> QED BY <1>4, <4>1, <4>3, <4>5, <5>1
      <4> QED BY <4>4, <4>5
    <3> HIDE DEF f, g
    <3> QED BY <3>1 DEF Dropped
  <2>5. f[d] = 0
    <3>1. f[d] = j[d] * l.stride[d] /\ j[d] = 0 /\ l.stride[d] \in Nat
      BY <1>1 DEF Terms
    <3> HIDE DEF f, j
    <3> QED BY <3>1
  <2>6. Address(v, i) = v.start_offset + SumTo(g, n - 1)
    BY <1>6, AddressIs
  <2>7. Address(l, j) = l.start_offset + SumTo(f, n)
    <3> HIDE DEF j
    <3> QED BY <1>1, AddressIs
  <2>8. SumTo(g, n - 1) \in Nat
    BY <1>3, <1>5, TermsTyped
  <2> HIDE DEF f, g, j
  <2>9. SumTo(f, n) = SumTo(g, n - 1) + f[d]
    BY <1>1, <2>3, <2>4, SumDropped
  <2>10. Address(v, i) = Address(l, j)
    BY <1>2, <2>5, <2>6, <2>7, <2>8, <2>9
  <2>11. j = SqueezeFrom(i, n, d)
    BY DEF SqueezeFrom, j
  <2> QED BY <2>2, <2>10, <2>11 DEF Takes
<1>8. SqueezeViews(v, l, d)
  BY <1>2, <1>5, <1>7 DEF SqueezeViews, Views
<1> QED BY <1>8 DEF v

LEMMA SqueezeFits ==
  ASSUME NEW l, NEW size, Fits(l, size), NEW d \in 1 .. Len(l.dims), l.dims[d] = 1
  PROVE  Fits(squeeze(l, d), size)
<1> DEFINE v == squeeze(l, d)
<1>1. SqueezeViews(v, l, d)
  BY SqueezeIs DEF Fits
<1> HIDE DEF v
<1>2. Fits(v, size)
  BY <1>1, ViewFits DEF SqueezeViews, Views
<1> QED BY <1>2 DEF v

UnsqueezeFrom(i, n, d) == [k \in 1 .. n |-> IF k < d THEN i[k] ELSE i[k + 1]]

UnsqueezeViews(v, l, d) ==
  Views(v, l, InsertAt(l.dims, d, 1), LAMBDA i : UnsqueezeFrom(i, Len(l.dims), d))

LEMMA UnsqueezeIs ==
  ASSUME NEW l, Good(l), NEW d \in 1 .. Len(l.dims) + 1
  PROVE  UnsqueezeViews(unsqueeze(l, d), l, d)
<1> DEFINE n == Len(l.dims)
           v == unsqueeze(l, d)
           x == IF d <= Len(l.stride) THEN l.stride[d] ELSE 1
<1>1. /\ l.dims \in Seq(Nat) /\ l.stride \in Seq(Nat) /\ l.start_offset \in Nat /\ n \in Nat
      /\ DOMAIN l.dims = 1 .. n /\ DOMAIN l.stride = 1 .. n /\ Len(l.stride) = n
      /\ \A k \in 1 .. n : l.dims[k] \in Nat /\ l.stride[k] \in Nat
  BY GoodParts
<1>2. /\ v.dims = InsertAt(l.dims, d, 1) /\ v.stride = InsertAt(l.stride, d, x)
      /\ v.start_offset = l.start_offset
      /\ v = [dims |-> v.dims, stride |-> v.stride, start_offset |-> v.start_offset]
  BY DEF unsqueeze, Layout
<1>3. x \in Nat
  BY <1>1
<1> HIDE DEF v, x
<1>4. /\ v.dims \in Seq(Nat) /\ Len(v.dims) = n + 1
      /\ \A k \in 1 .. n + 1 :
           v.dims[k] = IF k < d THEN l.dims[k] ELSE IF k = d THEN 1 ELSE l.dims[k - 1]
  <2>1. 1 \in Nat
    OBVIOUS
  <2>2. Inserted(v.dims, l.dims, d, 1)
    BY <1>1, <1>2, <2>1, InsertedIs
  <2> QED BY <2>2 DEF Inserted
<1>5. /\ v.stride \in Seq(Nat) /\ Len(v.stride) = n + 1
      /\ \A k \in 1 .. n + 1 :
           v.stride[k] = IF k < d THEN l.stride[k] ELSE IF k = d THEN x ELSE l.stride[k - 1]
  <2>1. d \in 1 .. Len(l.stride) + 1
    BY <1>1
  <2>2. Inserted(v.stride, l.stride, d, x)
    BY <1>1, <1>2, <1>3, <2>1, InsertedIs
  <2> QED BY <1>1, <2>2 DEF Inserted
<1>6. Good(v)
  BY <1>1, <1>2, <1>4, <1>5 DEF Good
<1>7. DOMAIN v.dims = 1 .. n + 1 /\ n + 1 \in Nat
  <2>1. n + 1 \in Nat
    BY <1>1
  <2> HIDE DEF n
  <2> QED BY <1>4, <2>1
<1>8. ASSUME NEW i \in IdxOf(v.dims) PROVE Takes(v, l, i, UnsqueezeFrom(i, n, d))
  <2> DEFINE j == [k \in 1 .. n |-> IF k < d THEN i[k] ELSE i[k + 1]]
             f == Terms(j, l.stride, n)
             g == Terms(i, v.stride, n + 1)
  <2>1. \A k \in 1 .. n + 1 : i[k] \in Nat /\ i[k] < v.dims[k]
    BY <1>4, IdxParts
  <2>2. j \in IdxOf(l.dims)
    <3>1. ASSUME NEW k \in 1 .. n PROVE j[k] \in Nat /\ j[k] < l.dims[k]
      <4>0. k \in 1 .. n + 1 /\ k + 1 \in 1 .. n + 1 /\ (k + 1) - 1 = k
        BY <1>1
      <4>1. CASE k < d
        <5>1. j[k] = i[k] /\ v.dims[k] = l.dims[k]
          BY <1>4, <4>0, <4>1
        <5> HIDE DEF j
        <5> QED BY <2>1, <4>0, <5>1
      <4>2. CASE ~(k < d)
        <5>1. j[k] = i[k + 1] /\ v.dims[k + 1] = l.dims[k]
          BY <1>4, <4>0, <4>2
        <5> HIDE DEF j
        <5> QED BY <2>1, <4>0, <5>1
      <4> QED BY <4>1, <4>2
    <3>2. j \in [1 .. n -> Nat]
      <4>1. j = [k \in 1 .. n |-> j[k]]
        OBVIOUS
      <4> HIDE DEF j
      <4> QED BY <3>1, <4>1
    <3> HIDE DEF j
    <3> QED BY <1>1, <3>1, <3>2 DEF IdxOf
  <2>3. Ints(g, n + 1)
    BY <1>4, <1>6, TermsTyped
  <2>4. Dropped(f, g, d, n + 1)
    <3>1. ASSUME NEW k \in 1 .. (n + 1) - 1 PROVE f[k] = IF k < d THEN g[k] ELSE g[k + 1]
      <4>1. k \in 1 .. n /\ k \in 1 .. n + 1 /\ k + 1 \in 1 .. n + 1 /\ (k + 1) - 1 = k
        BY <1>1
      <4>2. f[k] = j[k] * l.stride[k]
        BY <4>1 DEF Terms
      <4>3. g[k] = i[k] * v.stride[k] /\ g[k + 1] = i[k + 1] * v.stride[k + 1]
        BY <4>1 DEF Terms
      <4>4. CASE k < d
        <5>1. j[k] = i[k] /\ v.stride[k] = l.stride[k]
          BY <1>5, <4>1, <4>4
        <5> HIDE DEF f, g, j
        <5> QED BY <4>2, <4>3, <4>4, <5>1
      <4>5. CASE ~(k < d)
        <5>1. j[k] = i[k + 1] /\ v.stride[k + 1] = l.stride[k]
          BY <1>5, <4>1, <4>5
        <5> HIDE DEF f, g, j
        <5> QED BY <4>2, <4>3, <4>5, <5>1
      <4> QED BY <4>4, <4>5
    <3> HIDE DEF f, g
    <3> QED BY <3>1 DEF Dropped
  <2>5. g[d] = 0
    <3>0. d \in 1 .. n + 1
      BY <1>1
    <3>1. g[d] = i[d] * v.stride[d] /\ v.dims[d] = 1 /\ v.stride[d] \in Nat
      <4>1. g[d] = i[d] * v.stride[d]
        BY <3>0 DEF Terms
      <4> HIDE DEF g
      <4>2. v.dims[d] = 1
        BY <1>1, <1>3, <1>4, <1>5
      <4>3. v.stride[d] \in Nat
        BY <1>1, <1>3, <1>4, <1>5, <3>0
      <4> QED BY <4>1, <4>2, <4>3
    <3>2. i[d] \in Nat /\ i[d] < v.dims[d]
      BY <1>1, <2>1
    <3> HIDE DEF g
    <3>3. i[d] = 0
      BY <3>1, <3>2
    <3> QED BY <3>1, <3>3
  <2>6. Address(v, i) = v.start_offset + SumTo(g, n + 1)
    BY <1>7, AddressIs
  <2>7. Address(l, j) = l.start_offset + SumTo(f, n)
    <3> HIDE DEF j
    <3> QED BY <1>1, AddressIs
  <2>8. SumTo(f, n) \in Nat
    <3> HIDE DEF j
    <3> QED BY <2>2, TermsTyped
  <2> HIDE DEF f, g, j
  <2>9. SumTo(g, n + 1) = SumTo(f, n) + g[d]
    BY <1>1, <1>7, <2>3, <2>4, SumDropped
  <2>10. Address(v, i) = Address(l, j)
    BY <1>2, <2>5, <2>6, <2>7, <2>8, <2>9
  <2>11. j = UnsqueezeFrom(i, n, d)
    BY DEF UnsqueezeFrom, j
  <2> QED BY <2>2, <2>10, <2>11 DEF Takes
<1>9. UnsqueezeViews(v, l, d)
  BY <1>2, <1>6, <1>8 DEF UnsqueezeViews, Views
<1> QED BY <1>9 DEF v

LEMMA UnsqueezeFits ==
  ASSUME NEW l, NEW size, Fits(l, size), NEW d \in 1 .. Len(l.dims) + 1
  PROVE  Fits(unsqueeze(l, d), size)
<1> DEFINE v == unsqueeze(l, d)
<1>1. UnsqueezeViews(v, l, d)
  BY UnsqueezeIs DEF Fits
<1> HIDE DEF v
<1>2. Fits(v, size)
  BY <1>1, ViewFits DEF UnsqueezeViews, Views
<1> QED BY <1>2 DEF v

\* m dimensions of shape stand before those of s.
BroadcastFrom(i, s, shape, m) ==
  [k \in 1 .. Len(s) |-> IF s[k] = shape[m + k] THEN i[m + k] ELSE 0]

BroadcastViews(v, l, shape) ==
  Views(v, l, shape, LAMBDA i : BroadcastFrom(i, l.dims, shape, Len(shape) - Len(l.dims)))

LEMMA BroadcastIs ==
  ASSUME NEW l, Good(l), NEW shape \in Seq(Nat), can_broadcast(l, shape)
  PROVE  BroadcastViews(broadcast_as(l, shape), l, shape)
<1> DEFINE n == Len(l.dims)
           m == Len(shape) - n
           v == broadcast_as(l, shape)
<1>1. /\ l.dims \in Seq(Nat) /\ l.stride \in Seq(Nat) /\ l.start_offset \in Nat /\ n \in Nat
      /\ DOMAIN l.dims = 1 .. n /\ DOMAIN l.stride = 1 .. n /\ Len(l.stride) = n
      /\ \A k \in 1 .. n : l.dims[k] \in Nat /\ l.stride[k] \in Nat
  BY GoodParts
<1>2. m >= 0 /\ \A k \in 1 .. n : l.dims[k] \in {1, shape[m + k]}
  BY <1>1 DEF can_broadcast
<1>3. m \in Nat /\ Len(shape) = m + n /\ DOMAIN shape = 1 .. m + n
  BY <1>1, <1>2
<1>4. /\ v.dims = shape /\ v.start_offset = l.start_offset
      /\ v.stride = [k \in 1 .. m + n |->
                       IF k > m /\ l.dims[k - m] = shape[k] THEN l.stride[k - m] ELSE 0]
      /\ v = [dims |-> v.dims, stride |-> v.stride, start_offset |-> v.start_offset]
  BY <1>3 DEF broadcast_as, Layout
<1> HIDE DEF v, m
<1>5. \A k \in 1 .. m : v.stride[k] = 0
  BY <1>1, <1>3, <1>4
<1>6. ASSUME NEW k \in 1 .. n
      PROVE  v.stride[m + k] = IF l.dims[k] = shape[m + k] THEN l.stride[k] ELSE 0
  <2>1. m + k \in 1 .. m + n /\ m + k > m /\ (m + k) - m = k
    BY <1>1, <1>3
  <2> QED BY <1>4, <2>1
<1>7. v.stride \in Seq(Nat) /\ Len(v.stride) = m + n
  <2>1. ASSUME NEW k \in 1 .. m + n PROVE v.stride[k] \in Nat
    <3>1. CASE k <= m
      BY <1>1, <1>3, <1>5, <3>1
    <3>2. CASE k > m
      <4>1. k - m \in 1 .. n /\ m + (k - m) = k
        BY <1>1, <1>3, <3>2
      <4> QED BY <1>1, <1>4, <4>1
    <3> QED BY <1>1, <1>3, <3>1, <3>2
  <2>2. v.stride = [k \in 1 .. m + n |-> v.stride[k]] /\ m + n \in Nat
    BY <1>1, <1>3, <1>4
  <2> HIDE DEF n
  <2> DEFINE w == v.stride
             t == m + n
  <2>3. w = [k \in 1 .. t |-> w[k]] /\ t \in Nat /\ \A k \in 1 .. t : w[k] \in Nat
    BY <2>1, <2>2
  <2> HIDE DEF w, t
  <2>4. w \in [1 .. t -> Nat]
    BY <2>3
  <2>5. w \in Seq(Nat) /\ Len(w) = t
    BY <2>3, <2>4
  <2> QED BY <2>5 DEF w, t
<1>8. Good(v)
  BY <1>1, <1>3, <1>4, <1>7 DEF Good
<1>9. ASSUME NEW i \in IdxOf(v.dims) PROVE Takes(v, l, i, BroadcastFrom(i, l.dims, shape, m))
  <2> DEFINE j == [k \in 1 .. n |-> IF l.dims[k] = shape[m + k] THEN i[m + k] ELSE 0]
             f == Terms(j, l.stride, n)
             g == Terms(i, v.stride, m + n)
  <2>1. \A k \in 1 .. m + n : i[k] \in Nat /\ i[k] < shape[k]
    BY <1>3, <1>4, IdxParts
  <2>2. j \in IdxOf(l.dims)
    <3>1. ASSUME NEW k \in 1 .. n PROVE j[k] \in Nat /\ j[k] < l.dims[k]
      <4>1. m + k \in 1 .. m + n /\ l.dims[k] \in {1, shape[m + k]}
        <5>1. m + k \in 1 .. m + n
          BY <1>1, <1>3
        <5> QED BY <1>2, <5>1
      <4>2. j[k] = IF l.dims[k] = shape[m + k] THEN i[m + k] ELSE 0
        OBVIOUS
      <4> HIDE DEF j
      <4>3. CASE l.dims[k] = shape[m + k]
        BY <2>1, <4>1, <4>2, <4>3
      <4>4. CASE l.dims[k] # shape[m + k]
        BY <4>1, <4>2, <4>4
      <4> QED BY <4>3, <4>4
    <3>2. j \in [1 .. n -> Nat]
      <4>1. j = [k \in 1 .. n |-> j[k]]
        OBVIOUS
      <4> HIDE DEF j
      <4> QED BY <3>1, <4>1
    <3> HIDE DEF j
    <3> QED BY <1>1, <3>1, <3>2 DEF IdxOf
  <2>3. Shifted(g, f, m, n)
    <3>1. ASSUME NEW k \in 1 .. m PROVE g[k] = 0
      <4>1. k \in 1 .. m + n
        BY <1>1, <1>3
      <4>2. g[k] = i[k] * v.stride[k] /\ v.stride[k] = 0 /\ i[k] \in Nat
        BY <1>5, <2>1, <4>1 DEF Terms
      <4> HIDE DEF g
      <4> QED BY <4>2
    <3>2. ASSUME NEW k \in 1 .. n PROVE g[m + k] = f[k]
      <4>1. m + k \in 1 .. m + n
        BY <1>1, <1>3
      <4>2. g[m + k] = i[m + k] * v.stride[m + k] /\ f[k] = j[k] * l.stride[k]
        BY <4>1 DEF Terms
      <4>3. j[k] = IF l.dims[k] = shape[m + k] THEN i[m + k] ELSE 0
        OBVIOUS
      <4>4. i[m + k] \in Nat /\ l.stride[k] \in Nat
        BY <1>1, <2>1, <4>1
      <4> HIDE DEF f, g, j
      <4>5. CASE l.dims[k] = shape[m + k]
        BY <1>6, <4>2, <4>3, <4>5
      <4>6. CASE l.dims[k] # shape[m + k]
        BY <1>6, <4>2, <4>3, <4>6, <4>4
      <4> QED BY <4>5, <4>6
    <3> HIDE DEF f, g
    <3> QED BY <3>1, <3>2 DEF Shifted
  <2>4. Address(v, i) = v.start_offset + SumTo(g, m + n)
    <3>1. m + n \in Nat /\ DOMAIN v.dims = 1 .. m + n
      BY <1>1, <1>3, <1>4
    <3> QED BY <3>1, AddressIs
  <2>5. Address(l, j) = l.start_offset + SumTo(f, n)
    <3> HIDE DEF j
    <3> QED BY <1>1, AddressIs
  <2> HIDE DEF f, g, j
  <2>6. SumTo(g, m + n) = SumTo(f, n)
    <3>1. m \in Nat /\ n \in Nat
      BY <1>1, <1>3
    <3> QED BY <2>3, <3>1, SumShifted
  <2>7. j = BroadcastFrom(i, l.dims, shape, m)
    BY DEF BroadcastFrom, j
  <2> QED BY <1>4, <2>2, <2>4, <2>5, <2>6, <2>7 DEF Takes
<1>10. BroadcastViews(v, l, shape)
  BY <1>4, <1>8, <1>9 DEF BroadcastViews, Views, m
<1> QED BY <1>10 DEF v

LEMMA BroadcastFits ==
  ASSUME NEW l, NEW size, Fits(l, size), NEW shape \in Seq(Nat), can_broadcast(l, shape)
  PROVE  Fits(broadcast_as(l, shape), size)
<1> DEFINE v == broadcast_as(l, shape)
<1>1. BroadcastViews(v, l, shape)
  BY BroadcastIs DEF Fits
<1> HIDE DEF v
<1>2. Fits(v, size)
  BY <1>1, ViewFits DEF BroadcastViews, Views
<1> QED BY <1>2 DEF v

\* The windows of a dimension end within it.
LEMMA WindowEnds ==
  ASSUME NEW a \in Nat, NEW size \in Nat, NEW step \in Nat \ {0}, size <= a,
         NEW i \in Nat, NEW k \in Nat, i < (a - size) \div step + 1, k < size
  PROVE  i * step + k < a
<1> DEFINE q == (a - size) \div step
           r == (a - size) % step
<1>1. q \in Nat /\ r \in Nat /\ a - size = step * q + r
  OBVIOUS
<1> HIDE DEF q, r
<1>2. i <= q
  BY <1>1 DEF q
<1>3. step * i <= step * q
  BY <1>1, <1>2
<1>4. i * step = step * i /\ step * i \in Nat /\ step * q \in Nat
  BY <1>1
<1> QED BY <1>1, <1>3, <1>4

LEMMA AppendIs ==
  ASSUME NEW w \in Seq(Nat), NEW y \in Nat
  PROVE  /\ Append(w, y) \in Seq(Nat) /\ Len(Append(w, y)) = Len(w) + 1
         /\ \A k \in 1 .. Len(w) : Append(w, y)[k] = w[k]
         /\ Append(w, y)[Len(w) + 1] = y
  OBVIOUS

\* r is s with x in place d and y after its n elements.
Extended(r, s, n, d, x, y) ==
  /\ r \in Seq(Nat) /\ Len(r) = n + 1 /\ r[n + 1] = y
  /\ \A k \in 1 .. n : r[k] = IF k = d THEN x ELSE s[k]

LEMMA ExtendedIs ==
  ASSUME NEW s \in Seq(Nat), NEW n, Len(s) = n, NEW d, NEW x \in Nat, NEW y \in Nat
  PROVE  Extended(Append(With(s, d, x), y), s, n, d, x, y)
<1> DEFINE w == With(s, d, x)
<1>1. w = [k \in 1 .. n |-> IF k = d THEN x ELSE s[k]] /\ n \in Nat
  BY DEF With
<1> HIDE DEF w
<1>2. w \in Seq(Nat) /\ Len(w) = n /\ \A k \in 1 .. n : w[k] = IF k = d THEN x ELSE s[k]
  BY <1>1
<1>3. /\ Append(w, y) \in Seq(Nat) /\ Len(Append(w, y)) = n + 1
      /\ \A k \in 1 .. n : Append(w, y)[k] = w[k]
      /\ Append(w, y)[n + 1] = y
  BY <1>2, AppendIs
<1>4. Extended(Append(w, y), s, n, d, x, y)
  BY <1>2, <1>3 DEF Extended
<1> QED BY <1>4 DEF w

UnfoldFrom(i, n, d, step) == [k \in 1 .. n |-> IF k = d THEN i[k] * step + i[n + 1] ELSE i[k]]

UnfoldViews(v, l, d, win, step) ==
  Views(v, l, Append(With(l.dims, d, (l.dims[d] - win) \div step + 1), win),
        LAMBDA i : UnfoldFrom(i, Len(l.dims), d, step))

LEMMA UnfoldIs ==
  ASSUME NEW l, Good(l), NEW d \in 1 .. Len(l.dims),
         NEW win \in Nat, NEW step \in Nat \ {0}, win <= l.dims[d]
  PROVE  UnfoldViews(unfold(l, d, win, step), l, d, win, step)
<1> DEFINE n == Len(l.dims)
           c == (l.dims[d] - win) \div step + 1
           v == unfold(l, d, win, step)
<1>1. /\ l.dims \in Seq(Nat) /\ l.stride \in Seq(Nat) /\ l.start_offset \in Nat /\ n \in Nat
      /\ DOMAIN l.dims = 1 .. n /\ DOMAIN l.stride = 1 .. n /\ Len(l.stride) = n
      /\ \A k \in 1 .. n : l.dims[k] \in Nat /\ l.stride[k] \in Nat
  BY GoodParts
<1>2. /\ v.dims = Append(With(l.dims, d, c), win) /\ v.start_offset = l.start_offset
      /\ v.stride = Append(With(l.stride, d, l.stride[d] * step), l.stride[d])
      /\ v = [dims |-> v.dims, stride |-> v.stride, start_offset |-> v.start_offset]
  BY DEF unfold, Layout
<1>3. c \in Nat
  <2> DEFINE x == l.dims[d]
  <2>1. x \in Nat
    BY <1>1
  <2>2. x >= win
    OBVIOUS
  <2> HIDE DEF x
  <2>3. x - win \in Nat
    BY <2>1, <2>2
  <2>4. (x - win) \div step + 1 \in Nat
    BY <2>3
  <2> QED BY <2>4 DEF x
<1>4. l.stride[d] * step \in Nat
  <2>1. l.stride[d] \in Nat
    BY <1>1
  <2> QED BY <2>1, Times
<1>5. l.stride[d] \in Nat
  BY <1>1
<1> HIDE DEF v, c
<1>6. /\ v.dims \in Seq(Nat) /\ Len(v.dims) = n + 1 /\ v.dims[n + 1] = win
      /\ \A k \in 1 .. n : v.dims[k] = IF k = d THEN c ELSE l.dims[k]
  <2>1. Extended(v.dims, l.dims, n, d, c, win)
    BY <1>1, <1>2, <1>3, ExtendedIs
  <2> QED BY <2>1 DEF Extended
<1>7. /\ v.stride \in Seq(Nat) /\ Len(v.stride) = n + 1 /\ v.stride[n + 1] = l.stride[d]
      /\ \A k \in 1 .. n : v.stride[k] = IF k = d THEN l.stride[d] * step ELSE l.stride[k]
  <2> DEFINE x == l.stride[d] * step
  <2>1. x \in Nat /\ v.stride = Append(With(l.stride, d, x), l.stride[d])
    BY <1>2, <1>4
  <2> HIDE DEF x
  <2>2. Extended(v.stride, l.stride, n, d, x, l.stride[d])
    BY <1>1, <1>5, <2>1, ExtendedIs
  <2> QED BY <2>2 DEF Extended, x
<1>8. Good(v)
  BY <1>1, <1>2, <1>6, <1>7 DEF Good
<1>9. /\ DOMAIN v.dims = 1 .. n + 1 /\ n + 1 \in Nat /\ n + 1 \in 1 .. n + 1
      /\ \A k \in 1 .. n : k \in 1 .. n + 1
  <2>1. n \in Nat
    BY <1>1
  <2> HIDE DEF n
  <2>2. n + 1 \in Nat /\ n + 1 \in 1 .. n + 1 /\ \A k \in 1 .. n : k \in 1 .. n + 1
    BY <2>1
  <2> QED BY <1>6, <2>2
<1>10. ASSUME NEW i \in IdxOf(v.dims) PROVE Takes(v, l, i, UnfoldFrom(i, n, d, step))
  <2> DEFINE j == [k \in 1 .. n |-> IF k = d THEN i[k] * step + i[n + 1] ELSE i[k]]
             f == Terms(j, l.stride, n)
             g == Terms(i, v.stride, n + 1)
             x == i[n + 1] * l.stride[d]
  <2>1. \A k \in 1 .. n + 1 : i[k] \in Nat /\ i[k] < v.dims[k]
    BY <1>6, IdxParts
  <2>2. n + 1 \in 1 .. n + 1 /\ i[n + 1] \in Nat /\ i[n + 1] < win
    BY <1>9, <2>1, <1>6
  <2>3. j \in IdxOf(l.dims)
    <3>1. ASSUME NEW k \in 1 .. n PROVE j[k] \in Nat /\ j[k] < l.dims[k]
      <4>0. k \in 1 .. n + 1 /\ i[k] \in Nat /\ i[k] < v.dims[k]
        BY <1>9, <2>1
      <4>1. CASE k = d
        <5>1. j[k] = i[k] * step + i[n + 1]
          BY <4>1
        <5>2. i[k] < (l.dims[d] - win) \div step + 1
          BY <1>6, <4>0, <4>1 DEF c
        <5>3. i[k] * step \in Nat
          BY <4>0, Times
        <5>4. l.dims[d] \in Nat
          BY <1>1
        <5> HIDE DEF j
        <5>5. i[k] * step + i[n + 1] < l.dims[d]
          BY <2>2, <4>0, <5>2, <5>4, WindowEnds
        <5> QED BY <2>2, <4>1, <5>1, <5>3, <5>5
      <4>2. CASE k # d
        BY <1>6, <4>0, <4>2
      <4> QED BY <4>1, <4>2
    <3>2. j \in [1 .. n -> Nat]
      <4>1. j = [k \in 1 .. n |-> j[k]]
        OBVIOUS
      <4> HIDE DEF j
      <4> QED BY <3>1, <4>1
    <3> HIDE DEF j
    <3> QED BY <1>1, <3>1, <3>2 DEF IdxOf
  <2>4. x \in Nat /\ l.stride[d] \in Nat
    <3>1. l.stride[d] \in Nat
      BY <1>1
    <3> QED BY <2>2, <3>1, Times
  <2>5. Ints(g, n + 1)
    BY <1>6, <1>8, TermsTyped
  <2>6. Changed(f, g, d, x, n)
    <3>1. ASSUME NEW k \in 1 .. n PROVE g[k] \in Int /\ f[k] = g[k] + (IF k = d THEN x ELSE 0)
      <4>0. k \in 1 .. n + 1 /\ i[k] \in Nat
        BY <1>9, <2>1
      <4>1. g[k] = i[k] * v.stride[k] /\ f[k] = j[k] * l.stride[k]
        BY <4>0 DEF Terms
      <4>2. g[k] \in Int
        BY <2>5, <4>0 DEF Ints
      <4>3. CASE k = d
        <5>1. j[k] = i[k] * step + i[n + 1]
          BY <4>3
        <5>2. v.stride[k] = l.stride[d] * step
          BY <1>7, <4>3
        <5> DEFINE a == i[k]
                   b == l.stride[d]
                   e == i[n + 1]
        <5>3. a \in Nat /\ b \in Nat /\ e \in Nat
          BY <2>2, <2>4, <4>0
        <5>4. g[k] = a * (b * step) /\ f[k] = (a * step + e) * b /\ x = e * b
          BY <4>1, <4>3, <5>1, <5>2
        <5> HIDE DEF a, b, e, f, g, j, x
        <5>5. (a * step + e) * b = a * (b * step) + e * b
          BY <5>3
        <5> QED BY <4>2, <4>3, <5>4, <5>5
      <4>4. CASE k # d
        <5>1. j[k] = i[k] /\ v.stride[k] = l.stride[k]
          BY <1>7, <4>4
        <5> HIDE DEF f, g, j, x
        <5> QED BY <4>1, <4>2, <4>4, <5>1
      <4> QED BY <4>3, <4>4
    <3>2. x \in Int
      BY <2>4
    <3> HIDE DEF f, g, x
    <3> QED BY <3>1, <3>2 DEF Changed
  <2>7. g[n + 1] = x
    <3>1. g[n + 1] = i[n + 1] * v.stride[n + 1]
      BY <2>2 DEF Terms
    <3> HIDE DEF g
    <3> QED BY <1>7, <3>1
  <2>8. Address(v, i) = v.start_offset + SumTo(g, n + 1)
    BY <1>9, AddressIs
  <2>9. Address(l, j) = l.start_offset + SumTo(f, n)
    <3> HIDE DEF j
    <3> QED BY <1>1, AddressIs
  <2> HIDE DEF f, g, j, x
  <2>10. SumTo(f, n) = SumTo(g, n) + x
    BY <1>1, <2>6, SumChanged
  <2>11. SumTo(g, n + 1) = SumTo(g, n) + g[n + 1]
    <3>1. n + 1 \in Nat \ {0} /\ (n + 1) - 1 = n
      BY <1>1
    <3> QED BY <3>1, SumRule
  <2>12. Address(v, i) = Address(l, j)
    BY <1>2, <2>7, <2>8, <2>9, <2>10, <2>11
  <2>13. j = UnfoldFrom(i, n, d, step)
    BY DEF UnfoldFrom, j
  <2> QED BY <2>3, <2>12, <2>13 DEF Takes
<1>11. UnfoldViews(v, l, d, win, step)
  BY <1>2, <1>8, <1>10 DEF UnfoldViews, Views, c
<1> QED BY <1>11 DEF v

LEMMA UnfoldFits ==
  ASSUME NEW l, NEW size, Fits(l, size), NEW d \in 1 .. Len(l.dims),
         NEW win \in Nat, NEW step \in Nat \ {0}, win <= l.dims[d]
  PROVE  Fits(unfold(l, d, win, step), size)
<1> DEFINE v == unfold(l, d, win, step)
<1>1. UnfoldViews(v, l, d, win, step)
  BY UnfoldIs DEF Fits
<1> HIDE DEF v
<1>2. Fits(v, size)
  BY <1>1, ViewFits DEF UnfoldViews, Views
<1> QED BY <1>2 DEF v

-----------------------------------------------------------------------------
(* Layouts without gaps.                                                   *)

LEMMA ContigParts ==
  ASSUME NEW s \in Seq(Nat), NEW o \in Nat, NEW v, v = contiguous_with_offset(s, o)
  PROVE  /\ Good(v) /\ v.dims = s /\ v.start_offset = o
         /\ \A k \in 1 .. Len(s) : v.stride[k] = CountAfter(s, k)
<1>1. /\ v.dims = s /\ v.start_offset = o
      /\ v.stride = [k \in DOMAIN s |-> CountAfter(s, k)]
      /\ v = [dims |-> v.dims, stride |-> v.stride, start_offset |-> v.start_offset]
  BY DEF contiguous_with_offset, Layout, stride_contiguous
<1>2. DOMAIN s = 1 .. Len(s) /\ Len(s) \in Nat
  OBVIOUS
<1>3. \A k \in 1 .. Len(s) : CountAfter(s, k) \in Nat
  BY <1>2, AfterRule
<1>4. v.stride \in [1 .. Len(s) -> Nat]
  BY <1>1, <1>2, <1>3
<1>5. v.stride \in Seq(Nat) /\ Len(v.stride) = Len(s)
  <2> DEFINE w == v.stride
             n == Len(s)
  <2>1. n \in Nat /\ w \in [1 .. n -> Nat]
    BY <1>2, <1>4
  <2> HIDE DEF w, n
  <2>2. w \in Seq(Nat) /\ Len(w) = n
    BY <2>1
  <2> QED BY <2>2 DEF w, n
<1>6. \A k \in 1 .. Len(s) : v.stride[k] = CountAfter(s, k)
  BY <1>1, <1>2
<1>7. Good(v)
  BY <1>1, <1>5 DEF Good
<1> QED BY <1>1, <1>6, <1>7

\* The terms of an address in a layout without gaps, up to some dimension.
LEMMA ContigBound ==
  ASSUME NEW s \in Seq(Nat), NEW i \in IdxOf(s), NEW f,
         \A k \in 1 .. Len(s) : f[k] = i[k] * CountAfter(s, k)
  PROVE  /\ SumTo(f, Len(s)) \in Nat /\ SumTo(f, Len(s)) < elem_count(s)
         /\ \A k \in 0 .. Len(s) : SumTo(f, k) \in Nat
         /\ \A k \in 0 .. Len(s) : SumTo(f, k) + CountAfter(s, k) <= elem_count(s)
<1> DEFINE n == Len(s)
           T == {k \in 0 .. n : /\ SumTo(f, k) \in Nat
                                /\ SumTo(f, k) + CountAfter(s, k) <= elem_count(s)}
<1>0. n \in Nat /\ elem_count(s) \in Nat /\ \A k \in 0 .. n : CountAfter(s, k) \in Nat
  BY AfterRule
<1>1. 0 \in T
  BY SumRule, AfterRule, <1>0
<1>2. ASSUME NEW k \in 1 .. n, k - 1 \in T PROVE k \in T
  <2> DEFINE a == SumTo(f, k - 1)
             c == CountAfter(s, k)
  <2>1. k \in 0 .. n /\ k - 1 \in 0 .. n /\ k \in Nat \ {0}
    BY <1>0
  <2>2. SumTo(f, k) = a + i[k] * c
    BY <2>1, SumRule
  <2>3. CountAfter(s, k - 1) = s[k] * c
    BY AfterRule
  <2>4. i[k] \in Nat /\ s[k] \in Nat /\ i[k] < s[k]
    BY IdxParts
  <2>5. a \in Nat /\ a + CountAfter(s, k - 1) <= elem_count(s)
    BY <1>2
  <2>6. c \in Nat
    BY <1>0, <2>1
  <2> HIDE DEF a, c, T
  <2>7. i[k] * c \in Nat /\ i[k] * c + c <= s[k] * c
    <3> DEFINE x == i[k]
               y == s[k]
    <3>1. x \in Nat /\ y \in Nat /\ x + 1 <= y
      BY <2>4
    <3> HIDE DEF x, y
    <3>2. (x + 1) * c <= y * c
      BY <2>6, <3>1
    <3>3. (x + 1) * c = x * c + c /\ x * c \in Nat
      BY <2>6, <3>1
    <3>4. y * c \in Nat
      BY <2>6, <3>1
    <3> QED BY <2>6, <3>2, <3>3, <3>4 DEF x, y
  <2>8. s[k] * c \in Nat
    BY <2>4, <2>6, Times
  <2>9. SumTo(f, k) \in Nat /\ SumTo(f, k) + c <= elem_count(s)
    <3> DEFINE x == i[k] * c
               y == s[k] * c
    <3>1. x \in Nat /\ y \in Nat /\ x + c <= y /\ a + y <= elem_count(s) /\ SumTo(f, k) = a + x
      BY <2>2, <2>3, <2>5, <2>7, <2>8
    <3> HIDE DEF x, y
    <3> QED BY <1>0, <2>5, <2>6, <3>1
  <2> QED BY <2>1, <2>9 DEF T, c
<1> HIDE DEF T
<1>3. 0 .. n \subseteq T
  BY <1>0, <1>1, <1>2, UpTo
<1>4. \A k \in 0 .. n : SumTo(f, k) \in Nat /\ SumTo(f, k) + CountAfter(s, k) <= elem_count(s)
  BY <1>3 DEF T
<1>5. CountAfter(s, n) = 1 /\ n \in 0 .. n
  BY <1>0, AfterRule
<1>6. SumTo(f, n) \in Nat /\ SumTo(f, n) + 1 <= elem_count(s)
  BY <1>4, <1>5
<1> QED BY <1>0, <1>4, <1>6

LEMMA ContigFits ==
  ASSUME NEW s \in Seq(Nat), NEW o \in Nat, NEW size \in Nat,
         elem_count(s) # 0 => o + elem_count(s) <= size
  PROVE  Fits(contiguous_with_offset(s, o), size)
<1> DEFINE v == contiguous_with_offset(s, o)
           n == Len(s)
<1>1. /\ Good(v) /\ v.dims = s /\ v.start_offset = o
      /\ \A k \in 1 .. n : v.stride[k] = CountAfter(s, k)
  BY ContigParts
<1> HIDE DEF v
<1>2. ASSUME NEW i \in IdxOf(v.dims) PROVE Address(v, i) < size
  <2> DEFINE f == Terms(i, v.stride, n)
  <2>0. i \in IdxOf(s) /\ n \in Nat /\ DOMAIN v.dims = 1 .. n
    BY <1>1
  <2>1. Address(v, i) = v.start_offset + SumTo(f, n)
    BY <2>0, AddressIs
  <2>2. \A k \in 1 .. n : f[k] = i[k] * CountAfter(s, k)
    BY <1>1 DEF Terms
  <2> HIDE DEF f
  <2>3. SumTo(f, n) \in Nat /\ SumTo(f, n) < elem_count(s)
    BY <2>0, <2>2, ContigBound
  <2>4. elem_count(s) \in Nat
    BY AfterRule
  <2> QED BY <1>1, <2>1, <2>3, <2>4
<1>3. Fits(v, size)
  BY <1>1, <1>2 DEF Fits
<1> QED BY <1>3 DEF v

\* The last element of a layout without gaps.
LEMMA LastAddress ==
  ASSUME NEW l, Good(l), is_contiguous(l), elem_count(l.dims) # 0
  PROVE  \E i \in IdxOf(l.dims) : Address(l, i) + 1 = l.start_offset + elem_count(l.dims)
<1> DEFINE n == Len(l.dims)
           s == l.dims
           i == [k \in 1 .. n |-> s[k] - 1]
           f == Terms(i, l.stride, n)
           T == {k \in 0 .. n : SumTo(f, k) = elem_count(s) - CountAfter(s, k)}
<1>1. /\ s \in Seq(Nat) /\ n \in Nat /\ DOMAIN s = 1 .. n /\ l.start_offset \in Nat
      /\ \A k \in 1 .. n : s[k] \in Nat /\ l.stride[k] \in Nat
  BY GoodParts
<1>2. \A k \in 1 .. n : s[k] # 0
  BY <1>1, CountPositive
<1>3. i \in IdxOf(s)
  <2>1. ASSUME NEW k \in 1 .. n PROVE i[k] \in Nat /\ i[k] < s[k]
    <3>1. s[k] \in Nat /\ s[k] # 0 /\ i[k] = s[k] - 1
      BY <1>1, <1>2
    <3> HIDE DEF i, s
    <3> QED BY <3>1
  <2>2. i \in [1 .. n -> Nat]
    <3>1. i = [k \in 1 .. n |-> i[k]]
      OBVIOUS
    <3> HIDE DEF i
    <3> QED BY <2>1, <3>1
  <2> HIDE DEF i
  <2> QED BY <1>1, <2>1, <2>2 DEF IdxOf
<1>4. \A k \in 0 .. n : CountAfter(s, k) \in Nat
  BY <1>1, AfterRule
<1>5. elem_count(s) \in Nat /\ CountAfter(s, 0) = elem_count(s) /\ CountAfter(s, n) = 1
  BY <1>1, AfterRule
<1>6. 0 \in T
  <2>1. SumTo(f, 0) = 0
    BY SumRule
  <2> QED BY <1>1, <1>5, <2>1
<1>7. ASSUME NEW k \in 1 .. n, k - 1 \in T PROVE k \in T
  <2> DEFINE c == CountAfter(s, k)
  <2>1. k \in 0 .. n /\ k - 1 \in 0 .. n /\ k \in Nat \ {0}
    BY <1>1
  <2>2. SumTo(f, k) = SumTo(f, k - 1) + f[k]
    BY <2>1, SumRule
  <2>3. CountAfter(s, k - 1) = s[k] * c /\ c \in Nat
    BY <1>1, <1>4, <2>1, AfterRule
  <2>4. f[k] = (s[k] - 1) * l.stride[k]
    BY DEF Terms
  <2>5. f[k] = s[k] * c - c
    <3>1. s[k] \in Nat /\ s[k] # 0 /\ l.stride[k] \in Nat
      BY <1>1, <1>2
    <3>2. CASE s[k] = 1
      <4>1. f[k] = 0 * l.stride[k]
        BY <2>4, <3>2
      <4> HIDE DEF f, c
      <4> QED BY <2>3, <3>1, <3>2, <4>1
    <3>3. CASE s[k] > 1
      <4>1. l.stride[k] = c
        BY <1>1, <3>3 DEF is_contiguous
      <4> DEFINE x == s[k]
      <4>2. f[k] = (x - 1) * c /\ x \in Nat
        BY <2>4, <3>1, <4>1
      <4> HIDE DEF f, c, x
      <4>3. (x - 1) * c = x * c - c
        BY <2>3, <4>2
      <4> QED BY <4>2, <4>3 DEF x
    <3> QED BY <3>1, <3>2, <3>3
  <2>6. SumTo(f, k - 1) = elem_count(s) - CountAfter(s, k - 1)
    BY <1>7
  <2>7. s[k] * c \in Nat
    BY <1>1, <2>3, Times
  <2> HIDE DEF f, c, T
  <2>8. SumTo(f, k) = elem_count(s) - c
    <3> DEFINE y == s[k] * c
    <3>1. SumTo(f, k) = (elem_count(s) - y) + (y - c) /\ y \in Nat
      BY <2>2, <2>3, <2>5, <2>6, <2>7
    <3> HIDE DEF y, s
    <3> QED BY <1>5, <2>3, <3>1
  <2> QED BY <2>1, <2>8 DEF T, c
<1> HIDE DEF T
<1>8. 0 .. n \subseteq T
  BY <1>1, <1>6, <1>7, UpTo
<1>9. SumTo(f, n) = elem_count(s) - 1
  BY <1>1, <1>8, <1>5 DEF T
<1>10. Address(l, i) = l.start_offset + SumTo(f, n)
  <2> HIDE DEF i
  <2> QED BY <1>1, AddressIs
<1> HIDE DEF i, f
<1>11. Address(l, i) + 1 = l.start_offset + elem_count(s)
  <2> DEFINE e == elem_count(s)
  <2>1. e \in Nat /\ SumTo(f, n) = e - 1 /\ l.start_offset \in Nat
    BY <1>1, <1>5, <1>9
  <2> HIDE DEF e, s, n
  <2>2. Address(l, i) + 1 = l.start_offset + e
    BY <1>10, <2>1
  <2> QED BY <2>2 DEF e
<1> QED BY <1>3, <1>11

LEMMA ReshapeFits ==
  ASSUME NEW l, NEW size \in Nat, Fits(l, size), is_contiguous(l),
         NEW s \in Seq(Nat), elem_count(s) = elem_count(l.dims)
  PROVE  Fits(contiguous_with_offset(s, l.start_offset), size)
<1>0. Good(l)
  BY DEF Fits
<1>1. l.start_offset \in Nat /\ l.dims \in Seq(Nat)
  BY <1>0, GoodParts
<1>2. ASSUME elem_count(s) # 0 PROVE l.start_offset + elem_count(s) <= size
  <2>1. PICK i \in IdxOf(l.dims) : Address(l, i) + 1 = l.start_offset + elem_count(l.dims)
    BY <1>0, <1>2, LastAddress
  <2>2. Address(l, i) < size
    BY DEF Fits
  <2>3. Address(l, i) \in Nat
    <3> DEFINE t == SumTo(Terms(i, l.stride, Len(l.dims)), Len(l.dims))
    <3>0. Len(l.dims) \in Nat /\ DOMAIN l.dims = 1 .. Len(l.dims)
      BY <1>0, GoodParts
    <3>1. Address(l, i) = l.start_offset + t
      BY <3>0, AddressIs
    <3>2. t \in Nat
      BY <1>0, TermsTyped
    <3> HIDE DEF t
    <3> QED BY <1>1, <3>1, <3>2
  <2>4. elem_count(s) \in Nat
    BY AfterRule
  <2> QED BY <1>1, <2>1, <2>2, <2>3, <2>4
<1> QED BY <1>1, <1>2, ContigFits

-----------------------------------------------------------------------------
(* Arguments: dimensions, shapes, chunks.                                  *)

LEMMA IndexTyped ==
  ASSUME NEW d \in Int, NEW n \in Nat
  PROVE  /\ to_index(d, n) # None => to_index(d, n) \in 1 .. n
         /\ to_index_plus_one(d, n) # None => to_index_plus_one(d, n) \in 1 .. n + 1
<1>1. to_index(d, n) # None => to_index(d, n) \in 1 .. n
  <2>1. CASE d >= 0 /\ d < n
    BY <2>1 DEF to_index
  <2>2. CASE d < 0 /\ -d <= n
    BY <2>2 DEF to_index
  <2>3. CASE ~(d >= 0 /\ d < n) /\ ~(d < 0 /\ -d <= n)
    BY <2>3 DEF to_index
  <2> QED BY <2>1, <2>2, <2>3
<1>2. to_index_plus_one(d, n) # None => to_index_plus_one(d, n) \in 1 .. n + 1
  <2>1. CASE d >= 0 /\ d <= n
    BY <2>1 DEF to_index_plus_one
  <2>2. CASE d < 0 /\ -d <= n + 1
    BY <2>2 DEF to_index_plus_one
  <2>3. CASE ~(d >= 0 /\ d <= n) /\ ~(d < 0 /\ -d <= n + 1)
    BY <2>3 DEF to_index_plus_one
  <2> QED BY <2>1, <2>2, <2>3
<1> QED BY <1>1, <1>2

LEMMA SeqFull ==
  ASSUME NEW s \in Seq(Nat \cup {None}), None \notin ToSet(s)
  PROVE  s \in Seq(Nat)
<1>1. s \in [1 .. Len(s) -> Nat \cup {None}] /\ Len(s) \in Nat /\ DOMAIN s = 1 .. Len(s)
  OBVIOUS
<1>2. \A k \in 1 .. Len(s) : s[k] \in Nat
  BY <1>1 DEF ToSet
<1>3. s \in [1 .. Len(s) -> Nat]
  BY <1>1, <1>2
<1> QED BY <1>1, <1>3

LEMMA IntoTyped ==
  ASSUME NEW s \in Seq(Nat \cup {None}), NEW count \in Nat,
         None \notin ToSet(into_shape(s, count))
  PROVE  into_shape(s, count) \in Seq(Nat)
<1> DEFINE n == Len(s)
           given == [k \in 1 .. n |-> IF s[k] = None THEN 1 ELSE s[k]]
           prod == elem_count(given)
           t == into_shape(s, count)
<1>1. n \in Nat /\ DOMAIN s = 1 .. n /\ \A k \in 1 .. n : s[k] \in Nat \cup {None}
  OBVIOUS
<1>2. prod \in Nat
  <2>1. \A k \in 1 .. n : given[k] \in Nat
    BY <1>1
  <2>2. given = [k \in 1 .. n |-> given[k]]
    OBVIOUS
  <2> HIDE DEF given, n
  <2>3. given \in Seq(Nat)
    BY <1>1, <2>1, <2>2
  <2> QED BY <2>3, AfterRule
<1>3. t = [k \in 1 .. n |-> IF s[k] = None THEN hole_size(count, prod) ELSE s[k]]
  BY <1>1 DEF into_shape
<1> HIDE DEF given, prod, t, n
<1>4. hole_size(count, prod) \in Nat \cup {None}
  <2>1. CASE prod = 0
    BY <2>1 DEF hole_size
  <2>2. CASE prod # 0
    BY <1>2, <2>2 DEF hole_size
  <2> QED BY <2>1, <2>2
<1>5. t \in [1 .. n -> Nat \cup {None}]
  BY <1>1, <1>3, <1>4
<1>6. t \in Seq(Nat \cup {None})
  BY <1>1, <1>5
<1> QED BY <1>6, SeqFull DEF t

LEMMA FlatTyped ==
  ASSUME NEW s \in Seq(Nat), NEW a \in 1 .. Len(s), NEW b \in 1 .. Len(s)
  PROVE  SubSeq(s, 1, a - 1) \o <<elem_count(SubSeq(s, a, b))>> \o SubSeq(s, b + 1, Len(s)) \in Seq(Nat)
<1>1. /\ SubSeq(s, 1, a - 1) \in Seq(Nat) /\ SubSeq(s, a, b) \in Seq(Nat)
      /\ SubSeq(s, b + 1, Len(s)) \in Seq(Nat)
  <2>1. ASSUME NEW x \in 1 .. Len(s) + 1, NEW y \in 0 .. Len(s) PROVE SubSeq(s, x, y) \in Seq(Nat)
    OBVIOUS
  <2>2. 1 \in 1 .. Len(s) + 1 /\ a - 1 \in 0 .. Len(s) /\ b + 1 \in 1 .. Len(s) + 1
        /\ b \in 0 .. Len(s) /\ Len(s) \in 0 .. Len(s) /\ a \in 1 .. Len(s) + 1
    OBVIOUS
  <2> QED BY <2>1, <2>2
<1>2. elem_count(SubSeq(s, a, b)) \in Nat
  BY <1>1, AfterRule
<1> DEFINE u == SubSeq(s, 1, a - 1)
           v == <<elem_count(SubSeq(s, a, b))>>
           w == SubSeq(s, b + 1, Len(s))
<1>3. u \in Seq(Nat) /\ v \in Seq(Nat) /\ w \in Seq(Nat)
  BY <1>1, <1>2
<1> HIDE DEF u, v, w
<1>4. (u \o v) \in Seq(Nat)
  BY <1>3, ConcatIs
<1>5. (u \o v) \o w \in Seq(Nat)
  BY <1>3, <1>4, ConcatIs
<1> QED BY <1>5 DEF u, v, w

\* A chunk lies within its dimension.
LEMMA ChunkWithin ==
  ASSUME NEW size \in Nat, NEW chunks \in Nat \ {0}, NEW b \in ToSet(ChunkBounds(size, chunks))
  PROVE  b.start \in Nat /\ b.len \in Nat /\ b.start + b.len <= size
<1>1. CASE size < chunks
  <2>1. ChunkBounds(size, chunks) = [i \in 1 .. size |-> [start |-> i - 1, len |-> 1]]
    BY <1>1 DEF ChunkBounds
  <2>2. PICK i \in 1 .. size : b = [start |-> i - 1, len |-> 1]
    BY <2>1 DEF ToSet
  <2> QED BY <2>2
<1>2. CASE ~(size < chunks)
  <2> DEFINE q == size \div chunks
             r == size % chunks
             len(i) == q + (IF i <= r THEN 1 ELSE 0)
             part(i) == [j \in 1 .. i - 1 |-> len(j)]
             full == [j \in 1 .. chunks |-> len(j)]
  <2>1. q \in Nat /\ r \in 0 .. chunks - 1 /\ size = chunks * q + r
    OBVIOUS
  <2>2. ChunkBounds(size, chunks) =
          [i \in 1 .. chunks |-> [start |-> FoldLeft(+, 0, part(i)), len |-> len(i)]]
    BY <1>2 DEF ChunkBounds
  <2>3. PICK i \in 1 .. chunks : b = [start |-> FoldLeft(+, 0, part(i)), len |-> len(i)]
    BY <2>2 DEF ToSet
  <2>4. FoldLeft(+, 0, part(i)) = SumTo(full, i - 1)
    <3>1. i - 1 \in Nat /\ DOMAIN part(i) = 1 .. i - 1 /\ i - 1 \in 0 .. i - 1
      OBVIOUS
    <3>2. Agree(part(i), full, i - 1)
      BY DEF Agree
    <3> DEFINE p == part(i)
               m == i - 1
    <3>3. m \in Nat /\ DOMAIN p = 1 .. m /\ m \in 0 .. m /\ Agree(p, full, m)
      BY <3>1, <3>2
    <3> HIDE DEF p, m, full
    <3>4. FoldLeft(+, 0, p) = SumTo(p, m)
      BY <3>3, FoldIs
    <3>5. SumTo(p, m) = SumTo(full, m)
      BY <3>3, SumAgrees
    <3> QED BY <3>4, <3>5 DEF p, m
  <2> DEFINE T == {k \in 0 .. chunks : SumTo(full, k) = k * q + (IF k <= r THEN k ELSE r)}
  <2>5. 0 \in T
    BY <2>1, SumRule
  <2>6. ASSUME NEW k \in 1 .. chunks, k - 1 \in T PROVE k \in T
    <3>1. SumTo(full, k) = SumTo(full, k - 1) + full[k]
      BY SumRule
    <3>2. full[k] = q + (IF k <= r THEN 1 ELSE 0)
      OBVIOUS
    <3>3. SumTo(full, k - 1) = (k - 1) * q + (IF k - 1 <= r THEN k - 1 ELSE r)
      BY <2>6
    <3>4. k * q = (k - 1) * q + q /\ (k - 1) * q \in Nat
      BY <2>1
    <3> HIDE DEF full, T, q, r
    <3>5. SumTo(full, k) = k * q + (IF k <= r THEN k ELSE r)
      <4> DEFINE z == (k - 1) * q
      <4>1. z \in Nat /\ k * q = z + q /\ SumTo(full, k - 1) = z + (IF k - 1 <= r THEN k - 1 ELSE r)
        BY <3>3, <3>4
      <4> HIDE DEF z
      <4>2. SumTo(full, k) = (z + (IF k - 1 <= r THEN k - 1 ELSE r)) + (q + (IF k <= r THEN 1 ELSE 0))
        BY <3>1, <3>2, <4>1
      <4>3. CASE k <= r
        BY <2>1, <4>1, <4>2, <4>3
      <4>4. CASE ~(k <= r)
        BY <2>1, <4>1, <4>2, <4>4
      <4> QED BY <4>3, <4>4
    <3> QED BY <3>5 DEF T
  <2> HIDE DEF T
  <2>7. 0 .. chunks \subseteq T
    BY <2>5, <2>6, UpTo
  <2>8. b.start = (i - 1) * q + (IF i - 1 <= r THEN i - 1 ELSE r)
    <3>1. i - 1 \in 0 .. chunks
      OBVIOUS
    <3>2. b.start = SumTo(full, i - 1)
      BY <2>3, <2>4
    <3> QED BY <2>7, <3>1, <3>2 DEF T
  <2>9. b.len = q + (IF i <= r THEN 1 ELSE 0)
    BY <2>3
  <2> HIDE DEF q, r
  <2>10. (i - 1) * q \in Nat /\ i * q = (i - 1) * q + q /\ i * q <= chunks * q /\ chunks * q \in Nat
    BY <2>1
  <2> DEFINE z == (i - 1) * q
             y == chunks * q
  <2>11. z \in Nat /\ y \in Nat /\ z + q <= y /\ size = y + r /\ q \in Nat /\ r \in Nat
    BY <2>1, <2>10
  <2>12. b.start = z + (IF i - 1 <= r THEN i - 1 ELSE r)
    BY <2>8
  <2> HIDE DEF z, y
  <2>13. CASE i <= r
    BY <2>9, <2>11, <2>12, <2>13
  <2>14. CASE ~(i <= r)
    BY <2>9, <2>11, <2>12, <2>14
  <2> QED BY <2>13, <2>14
<1> QED BY <1>1, <1>2

-----------------------------------------------------------------------------
(* The iterator over the addresses of a layout.                            *)

\* The index mi with place p advanced and the places after it set back.
Moved(mj, mi, p, n) ==
  \A k \in 1 .. n : mj[k] = IF k > p THEN 0 ELSE mi[k] + (IF k = p THEN 1 ELSE 0)

\* What the places after p contribute.
After(b, mi, w, p, n) == \A k \in 1 .. n : b[k] = IF k > p THEN mi[k] * w[k] ELSE 0

LEMMA SumMoved ==
  ASSUME NEW n \in Nat, NEW p \in 1 .. n, NEW mi, NEW mj, NEW w, NEW b,
         Nats(mi, n), Nats(w, n), Moved(mj, mi, p, n), After(b, mi, w, p, n)
  PROVE  /\ SumTo(Terms(mi, w, n), n) \in Int /\ SumTo(b, n) \in Int /\ w[p] \in Nat
         /\ SumTo(Terms(mj, w, n), n) = SumTo(Terms(mi, w, n), n) + w[p] - SumTo(b, n)
<1> DEFINE f == Terms(mi, w, n)
           g == Terms(mj, w, n)
           a == [k \in 1 .. n |-> IF k = p THEN w[p] ELSE 0]
<1>0. n \in 0 .. n /\ w[p] \in Nat /\ ~(n < p)
  BY DEF Nats
<1>1. ASSUME NEW k \in 1 .. n
      PROVE  f[k] \in Int /\ a[k] \in Int /\ b[k] \in Int /\ g[k] = f[k] + a[k] - b[k]
  <2> DEFINE x == mi[k]
             y == w[k]
             z == x * y
  <2>1. x \in Nat /\ y \in Nat
    BY DEF Nats
  <2>2. z \in Nat
    BY <2>1, Times
  <2>3. f[k] = z /\ g[k] = mj[k] * y /\ a[k] = IF k = p THEN y ELSE 0
    BY DEF Terms
  <2>4. b[k] = IF k > p THEN z ELSE 0
    BY DEF After
  <2>5. mj[k] = IF k > p THEN 0 ELSE x + (IF k = p THEN 1 ELSE 0)
    BY DEF Moved
  <2> HIDE DEF f, g, a, x, y
  <2>6. CASE k > p
    <3>1. mj[k] = 0 /\ 0 * y = 0 /\ k # p
      BY <2>1, <2>5, <2>6
    <3> HIDE DEF z
    <3>2. g[k] = 0 /\ a[k] = 0 /\ b[k] = z
      BY <2>3, <2>4, <2>6, <3>1
    <3> QED BY <2>2, <2>3, <3>2
  <2>7. CASE k = p
    <3>1. mj[k] = x + 1 /\ (x + 1) * y = z + y /\ ~(k > p)
      BY <2>1, <2>5, <2>7
    <3> HIDE DEF z
    <3>2. g[k] = z + y /\ a[k] = y /\ b[k] = 0
      BY <2>3, <2>4, <2>7, <3>1
    <3> QED BY <2>1, <2>2, <2>3, <3>2
  <2>8. CASE k < p
    <3>1. mj[k] = x + 0 /\ x + 0 = x /\ ~(k > p) /\ k # p
      BY <2>1, <2>5, <2>8
    <3> HIDE DEF z
    <3>2. g[k] = x * y /\ a[k] = 0 /\ b[k] = 0
      BY <2>3, <2>4, <2>8, <3>1
    <3> QED BY <2>2, <2>3, <3>2 DEF z
  <2> QED BY <2>6, <2>7, <2>8
<1>2. Combined(g, f, a, b, n) /\ Ints(f, n) /\ Ints(b, n)
  <2> HIDE DEF f, g, a
  <2> QED BY <1>1 DEF Combined, Ints
<1>3. Only(a, p, w[p], n)
  BY DEF Only
<1> HIDE DEF f, g, a
<1>4. SumTo(f, n) \in Int /\ SumTo(b, n) \in Int
  BY <1>0, <1>2, SumTyped
<1>5. SumTo(a, n) = w[p]
  <2>1. w[p] \in Int
    BY <1>0
  <2> QED BY <1>0, <1>3, <2>1, SumOnly
<1>6. SumTo(g, n) = SumTo(f, n) + SumTo(a, n) - SumTo(b, n)
  BY <1>0, <1>2, SumCombined
<1> QED BY <1>0, <1>4, <1>5, <1>6 DEF f, g

\* The weights of the places in row-major order.
Weights(s) == [k \in 1 .. Len(s) |-> CountAfter(s, k)]

LEMMA WeightsTyped ==
  ASSUME NEW s \in Seq(Nat)
  PROVE  Nats(Weights(s), Len(s))
<1>1. \A k \in 1 .. Len(s) : CountAfter(s, k) \in Nat
  BY AfterRule
<1> QED BY <1>1 DEF Weights, Nats

\* The last index of the places after p.
LEMMA SumLast ==
  ASSUME NEW s \in Seq(Nat), NEW p \in 0 .. Len(s), NEW f,
         \A k \in 1 .. Len(s) : f[k] = IF k > p THEN (s[k] - 1) * CountAfter(s, k) ELSE 0
  PROVE  SumTo(f, Len(s)) = CountAfter(s, p) - 1
<1> DEFINE n == Len(s)
           T == {k \in 0 .. n : SumTo(f, k) = IF k > p THEN CountAfter(s, p) - CountAfter(s, k) ELSE 0}
<1>0. n \in Nat /\ \A k \in 0 .. n : CountAfter(s, k) \in Nat
  BY AfterRule
<1>1. 0 \in T
  BY <1>0, SumRule
<1>2. ASSUME NEW k \in 1 .. n, k - 1 \in T PROVE k \in T
  <2> DEFINE a == CountAfter(s, k - 1)
             c == CountAfter(s, k)
             e == CountAfter(s, p)
  <2>1. k \in 0 .. n /\ k - 1 \in 0 .. n /\ k \in Nat \ {0}
    BY <1>0
  <2>2. SumTo(f, k) = SumTo(f, k - 1) + f[k]
    BY <2>1, SumRule
  <2>3. SumTo(f, k - 1) = IF k - 1 > p THEN e - a ELSE 0
    BY <1>2
  <2>4. f[k] = IF k > p THEN (s[k] - 1) * c ELSE 0
    OBVIOUS
  <2>5. a = s[k] * c /\ s[k] \in Nat
    BY AfterRule
  <2>6. a \in Nat /\ c \in Nat /\ e \in Nat
    BY <1>0, <2>1
  <2>7. k - 1 = p => a = e
    OBVIOUS
  <2> HIDE DEF a, c, e, T
  <2>8. (s[k] - 1) * c = a - c
    <3> DEFINE x == s[k]
    <3>1. x \in Nat /\ a = x * c
      BY <2>5
    <3> HIDE DEF x
    <3>2. (x - 1) * c = x * c - c
      BY <2>6, <3>1
    <3> QED BY <3>1, <3>2 DEF x
  <2>9. SumTo(f, k) = IF k > p THEN e - c ELSE 0
    <3>1. CASE k > p
      <4>1. f[k] = a - c
        BY <2>4, <2>8, <3>1
      <4>2. CASE k - 1 = p
        BY <2>2, <2>3, <2>6, <2>7, <3>1, <4>1, <4>2
      <4>3. CASE k - 1 > p
        BY <2>2, <2>3, <2>6, <3>1, <4>1, <4>3
      <4> QED BY <3>1, <4>2, <4>3
    <3>2. CASE ~(k > p)
      BY <2>2, <2>3, <2>4, <3>2
    <3> QED BY <3>1, <3>2
  <2> QED BY <2>1, <2>9 DEF T, c, e
<1> HIDE DEF T
<1>3. 0 .. n \subseteq T
  BY <1>0, <1>1, <1>2, UpTo
<1>4. n \in 0 .. n /\ CountAfter(s, n) = 1
  BY <1>0, AfterRule
<1>5. SumTo(f, n) = IF n > p THEN CountAfter(s, p) - CountAfter(s, n) ELSE 0
  BY <1>3, <1>4 DEF T
<1>6. CASE n > p
  BY <1>4, <1>5, <1>6
<1>7. CASE n = p
  BY <1>4, <1>5, <1>7
<1> QED BY <1>0, <1>6, <1>7

LEMMA MaxIs ==
  ASSUME NEW n \in Nat, NEW T \in SUBSET (1 .. n), T # {}
  PROVE  Max(T) \in T /\ \A y \in T : y <= Max(T)
<1> DEFINE U == {n - x : x \in T}
<1>1. U \in SUBSET Nat /\ U # {}
  <2>1. \A x \in T : n - x \in Nat
    OBVIOUS
  <2>2. PICK x \in T : TRUE
    OBVIOUS
  <2>3. n - x \in U
    OBVIOUS
  <2> QED BY <2>1, <2>3
<1>2. PICK u \in U : \A y \in U : u <= y
  <2> HIDE DEF U
  <2> QED BY <1>1, NatMin
<1>3. PICK x \in T : u = n - x
  OBVIOUS
<1>4. ASSUME NEW y \in T PROVE x >= y
  <2>1. n - y \in U
    OBVIOUS
  <2>2. n - x <= n - y /\ x \in Nat /\ y \in Nat
    BY <1>2, <1>3, <2>1
  <2> QED BY <2>2
<1>5. Max(T) = CHOOSE z \in T : \A y \in T : z >= y
  BY DEF Max
<1>6. Max(T) \in T /\ \A y \in T : Max(T) >= y
  BY <1>4, <1>5
<1> QED BY <1>6

\* The iterator is at the k-th element, from 0.
IterAt(it, s, stride, o, k) ==
  /\ it = [next_storage_index |-> it.next_storage_index, multi_index |-> it.multi_index]
  /\ it.multi_index \in IdxOf(s)
  /\ it.next_storage_index = o + SumTo(Terms(it.multi_index, stride, Len(s)), Len(s))
  /\ SumTo(Terms(it.multi_index, Weights(s), Len(s)), Len(s)) = k

LEMMA AdvancedIs ==
  ASSUME NEW s \in Seq(Nat), NEW stride \in Seq(Nat), Len(stride) = Len(s), NEW o \in Nat,
         NEW k \in Nat, NEW it, IterAt(it, s, stride, o, k), NEW p \in 1 .. Len(s),
         it.multi_index[p] + 1 < s[p],
         \A i \in 1 .. Len(s) : i > p => it.multi_index[i] + 1 = s[i]
  PROVE  IterAt(Advanced(s, stride, it, p), s, stride, o, k + 1)
<1> DEFINE n == Len(s)
           mi == it.multi_index
           r == Advanced(s, stride, it, p)
           mj == r.multi_index
           b == [i \in 1 .. n |-> IF i > p THEN mi[i] * stride[i] ELSE 0]
           e == [i \in 1 .. n |-> IF i > p THEN mi[i] * Weights(s)[i] ELSE 0]
<1>1. n \in Nat /\ DOMAIN s = 1 .. n /\ \A i \in 1 .. n : s[i] \in Nat /\ stride[i] \in Nat
  BY SeqParts
<1>2. mi \in IdxOf(s) /\ \A i \in 1 .. n : mi[i] \in Nat /\ mi[i] < s[i]
  BY IdxParts DEF IterAt
<1>3. /\ r = [next_storage_index |-> r.next_storage_index, multi_index |-> mj]
      /\ r.next_storage_index = it.next_storage_index - FoldLeft(+, 0, b) + stride[p]
      /\ mj = [i \in 1 .. n |-> IF i > p THEN 0 ELSE mi[i] + (IF i = p THEN 1 ELSE 0)]
  BY <1>1 DEF Advanced
<1> HIDE DEF r
<1>4. FoldLeft(+, 0, b) = SumTo(b, n)
  <2>1. DOMAIN b = 1 .. n
    OBVIOUS
  <2> HIDE DEF b
  <2> QED BY <1>1, <2>1, FoldIs
<1>5. Moved(mj, mi, p, n)
  BY <1>3 DEF Moved
<1>6. After(b, mi, stride, p, n) /\ After(e, mi, Weights(s), p, n)
  BY DEF After
<1>7. Nats(mi, n) /\ Nats(stride, n) /\ Nats(Weights(s), n)
  BY <1>1, <1>2, WeightsTyped DEF Nats
<1>8. mj \in IdxOf(s)
  <2>1. ASSUME NEW i \in 1 .. n PROVE mj[i] \in Nat /\ mj[i] < s[i]
    <3>0. mi[i] \in Nat /\ s[i] \in Nat /\ mi[i] < s[i]
      BY <1>1, <1>2
    <3>1. mj[i] = IF i > p THEN 0 ELSE mi[i] + (IF i = p THEN 1 ELSE 0)
      BY <1>3
    <3> DEFINE x == mi[i]
               y == s[i]
    <3>2. i = p => x + 1 < y
      OBVIOUS
    <3>3. x \in Nat /\ y \in Nat /\ x < y /\ mj[i] = IF i > p THEN 0 ELSE x + (IF i = p THEN 1 ELSE 0)
      BY <3>0, <3>1
    <3> HIDE DEF x, y, mj
    <3>4. mj[i] \in Nat /\ mj[i] < y
      BY <3>2, <3>3
    <3> QED BY <3>4 DEF y
  <2>2. mj = [i \in 1 .. n |-> mj[i]]
    BY <1>3
  <2> HIDE DEF mj
  <2>3. mj \in [1 .. n -> Nat]
    BY <2>1, <2>2
  <2> QED BY <1>1, <2>1, <2>3 DEF IdxOf
<1>9. SumTo(e, n) = CountAfter(s, p) - 1 /\ CountAfter(s, p) \in Nat /\ Weights(s)[p] = CountAfter(s, p)
  <2>1. \A i \in 1 .. n : e[i] = IF i > p THEN (s[i] - 1) * CountAfter(s, i) ELSE 0
    <3> SUFFICES ASSUME NEW i \in 1 .. n, i > p PROVE e[i] = (s[i] - 1) * CountAfter(s, i)
      OBVIOUS
    <3>1. e[i] = mi[i] * Weights(s)[i] /\ Weights(s)[i] = CountAfter(s, i)
      BY DEF Weights
    <3>2. mi[i] + 1 = s[i] /\ mi[i] \in Nat
      BY <1>2
    <3> DEFINE x == mi[i]
               y == s[i]
    <3>3. x + 1 = y /\ x \in Nat
      BY <3>2
    <3> HIDE DEF x, y
    <3>4. x = y - 1
      BY <3>3
    <3> QED BY <3>1, <3>4 DEF x, y
  <2>2. p \in 0 .. n
    BY <1>1
  <2> HIDE DEF e
  <2> QED BY <2>1, <2>2, SumLast, AfterRule DEF Weights
<1>10. /\ it.next_storage_index = o + SumTo(Terms(mi, stride, n), n)
       /\ SumTo(Terms(mi, Weights(s), n), n) = k
  BY DEF IterAt
<1> HIDE DEF b, e, mi, mj
<1>11. r.next_storage_index = o + SumTo(Terms(mj, stride, n), n)
  <2>1. /\ SumTo(Terms(mi, stride, n), n) \in Int /\ SumTo(b, n) \in Int /\ stride[p] \in Nat
        /\ SumTo(Terms(mj, stride, n), n) = SumTo(Terms(mi, stride, n), n) + stride[p] - SumTo(b, n)
    BY <1>1, <1>5, <1>6, <1>7, SumMoved
  <2> DEFINE u == SumTo(Terms(mi, stride, n), n)
             v == SumTo(b, n)
             w == SumTo(Terms(mj, stride, n), n)
             x == stride[p]
  <2>2. /\ u \in Int /\ v \in Int /\ x \in Nat /\ w = u + x - v
        /\ r.next_storage_index = (o + u) - v + x
    BY <1>3, <1>4, <1>10, <2>1
  <2> HIDE DEF u, v, w, x
  <2>3. r.next_storage_index = o + w
    BY <2>2
  <2> QED BY <2>3 DEF w
<1>12. SumTo(Terms(mj, Weights(s), n), n) = k + 1
  <2> DEFINE w == Weights(s)
  <2>0. Nats(w, n) /\ After(e, mi, w, p, n) /\ w[p] = CountAfter(s, p) /\ SumTo(Terms(mi, w, n), n) = k
    BY <1>6, <1>7, <1>9, <1>10
  <2> HIDE DEF w
  <2>1. SumTo(Terms(mj, w, n), n) = SumTo(Terms(mi, w, n), n) + w[p] - SumTo(e, n)
    BY <1>1, <1>5, <1>7, <2>0, SumMoved
  <2>2. SumTo(Terms(mj, w, n), n) = k + 1
    BY <1>9, <2>0, <2>1
  <2> QED BY <2>2 DEF w
<1>13. IterAt(r, s, stride, o, k + 1)
  BY <1>3, <1>8, <1>11, <1>12 DEF IterAt, mj
<1> QED BY <1>13 DEF r

\* next moves to the next element, or ends after the last one.
LEMMA NextIs ==
  ASSUME NEW s \in Seq(Nat), NEW stride \in Seq(Nat), Len(stride) = Len(s), NEW o \in Nat,
         NEW k \in Nat, NEW it, IterAt(it, s, stride, o, k)
  PROVE  \/ k + 1 = elem_count(s) /\ next(s, stride, it).next_storage_index = None
         \/ k + 1 < elem_count(s) /\ IterAt(next(s, stride, it), s, stride, o, k + 1)
<1> DEFINE n == Len(s)
           mi == it.multi_index
           free == {i \in DOMAIN s : mi[i] + 1 < s[i]}
<1>1. n \in Nat /\ DOMAIN s = 1 .. n /\ \A i \in 1 .. n : s[i] \in Nat
  OBVIOUS
<1>2. mi \in IdxOf(s) /\ \A i \in 1 .. n : mi[i] \in Nat /\ mi[i] < s[i]
  BY IdxParts DEF IterAt
<1>3. next(s, stride, it) = IF free = {} THEN [it EXCEPT !.next_storage_index = None]
                            ELSE Advanced(s, stride, it, Max(free))
  BY DEF next
<1>4. elem_count(s) \in Nat /\ CountAfter(s, 0) = elem_count(s)
  BY AfterRule
<1>5. CASE free = {}
  <2>1. next(s, stride, it).next_storage_index = None
    BY <1>3, <1>5 DEF IterAt
  <2> DEFINE f == Terms(mi, Weights(s), n)
  <2>2. ASSUME NEW i \in 1 .. n PROVE f[i] = IF i > 0 THEN (s[i] - 1) * CountAfter(s, i) ELSE 0
    <3>1. f[i] = mi[i] * CountAfter(s, i)
      BY DEF Terms, Weights
    <3>2. ~(mi[i] + 1 < s[i]) /\ mi[i] < s[i] /\ mi[i] \in Nat /\ s[i] \in Nat
      BY <1>1, <1>2, <1>5
    <3>3. mi[i] = s[i] - 1
      BY <3>2
    <3> HIDE DEF f
    <3> QED BY <3>1, <3>3
  <2> HIDE DEF f
  <2>3. SumTo(f, n) = CountAfter(s, 0) - 1
    <3>1. 0 \in 0 .. n
      BY <1>1
    <3> QED BY <2>2, <3>1, SumLast
  <2>4. SumTo(f, n) = k
    BY DEF IterAt, f
  <2> QED BY <1>4, <2>1, <2>3, <2>4
<1>6. CASE free # {}
  <2> DEFINE p == Max(free)
  <2>1. free \in SUBSET (1 .. n)
    BY <1>1
  <2>2. p \in free /\ \A y \in free : y <= p
    <3> HIDE DEF free
    <3> QED BY <1>1, <1>6, <2>1, MaxIs
  <2>3. p \in 1 .. n /\ mi[p] + 1 < s[p]
    BY <1>1, <2>2
  <2>4. \A i \in 1 .. n : i > p => mi[i] + 1 = s[i]
    <3> SUFFICES ASSUME NEW i \in 1 .. n, i > p PROVE mi[i] + 1 = s[i]
      OBVIOUS
    <3>1. i \notin free
      <4>1. ~(i <= p)
        BY <1>1, <2>3
      <4> HIDE DEF free, p
      <4> QED BY <2>2, <4>1
    <3>2. mi[i] < s[i] /\ mi[i] \in Nat /\ s[i] \in Nat
      <4> HIDE DEF free
      <4> QED BY <1>1, <1>2
    <3>3. ~(mi[i] + 1 < s[i])
      BY <1>1, <3>1
    <3> QED BY <3>2, <3>3
  <2>5. next(s, stride, it) = Advanced(s, stride, it, p)
    BY <1>3, <1>6
  <2> HIDE DEF p, free
  <2>6. IterAt(next(s, stride, it), s, stride, o, k + 1)
    BY <2>3, <2>4, <2>5, AdvancedIs
  <2>7. k + 1 < elem_count(s)
    <3> DEFINE mj == next(s, stride, it).multi_index
               f == Terms(mj, Weights(s), n)
    <3>1. mj \in IdxOf(s) /\ SumTo(f, n) = k + 1
      BY <2>6 DEF IterAt
    <3>2. \A i \in 1 .. n : f[i] = mj[i] * CountAfter(s, i)
      BY DEF Terms, Weights
    <3> HIDE DEF mj, f
    <3> QED BY <3>1, <3>2, ContigBound
  <2> QED BY <2>6, <2>7
<1> QED BY <1>5, <1>6

LEMMA SumZero ==
  ASSUME NEW n \in Nat, NEW f, \A k \in 1 .. n : f[k] = 0
  PROVE  SumTo(f, n) = 0
<1> DEFINE T == {k \in 0 .. n : SumTo(f, k) = 0}
<1>1. 0 \in T
  BY SumRule
<1>2. \A k \in 1 .. n : k - 1 \in T => k \in T
  BY SumRule
<1> HIDE DEF T
<1>3. 0 .. n \subseteq T
  BY <1>1, <1>2, UpTo
<1> QED BY <1>3 DEF T

\* The states of the iterator, one after the other.
IsRun(run, s, stride, first, m) ==
  run = [k \in 0 .. m |->
           IF k = 0 THEN [it |-> first, returned |-> <<>>]
           ELSE LET prev == run[k - 1]
                    at == prev.it.next_storage_index
                IN  IF at = None THEN prev
                    ELSE [it |-> next(s, stride, prev.it), returned |-> Append(prev.returned, at)]]

LEMMA RunExists ==
  ASSUME NEW s, NEW stride, NEW first, NEW m \in Nat
  PROVE  \E run : IsRun(run, s, stride, first, m)
<1> DEFINE start == [it |-> first, returned |-> <<>>]
           Then(prev) == IF prev.it.next_storage_index = None THEN prev
                         ELSE [it |-> next(s, stride, prev.it),
                               returned |-> Append(prev.returned, prev.it.next_storage_index)]
           T == {k \in 0 .. m : \E run : IsRun(run, s, stride, first, k)}
<1>0. ASSUME NEW run, NEW k \in Nat, run = [j \in 0 .. k |-> IF j = 0 THEN start ELSE Then(run[j - 1])]
      PROVE  IsRun(run, s, stride, first, k)
  BY <1>0, Zenon DEF IsRun
<1>1. 0 \in T
  <2> DEFINE run == [j \in 0 .. 0 |-> start]
  <2>1. run = [j \in 0 .. 0 |-> IF j = 0 THEN start ELSE Then(run[j - 1])]
    <3>1. \A j \in 0 .. 0 : j = 0
      OBVIOUS
    <3> HIDE DEF Then, start
    <3> QED BY <3>1
  <2> HIDE DEF run, Then, start
  <2>2. IsRun(run, s, stride, first, 0)
    BY <1>0, <2>1
  <2> QED BY <2>2
<1>2. ASSUME NEW k \in 1 .. m, k - 1 \in T PROVE k \in T
  <2>1. PICK g : IsRun(g, s, stride, first, k - 1)
    BY <1>2
  <2>2. \A j \in 0 .. k - 1 : g[j] = IF j = 0 THEN start ELSE Then(g[j - 1])
    BY <2>1, Zenon DEF IsRun
  <2> DEFINE run == [j \in 0 .. k |-> IF j = k THEN Then(g[k - 1]) ELSE g[j]]
  <2>3. ASSUME NEW j \in 0 .. k PROVE run[j] = IF j = 0 THEN start ELSE Then(run[j - 1])
    <3>1. CASE j = k
      <4>1. k - 1 \in 0 .. k /\ k - 1 # k /\ k # 0
        OBVIOUS
      <4> HIDE DEF Then, start
      <4>2. run[k - 1] = g[k - 1]
        BY <4>1
      <4> QED BY <3>1, <4>1, <4>2
    <3>2. CASE j = 0
      <4>1. 0 \in 0 .. k - 1 /\ 0 # k
        OBVIOUS
      <4> HIDE DEF Then, start
      <4> QED BY <2>2, <3>2, <4>1
    <3>3. CASE j # 0 /\ j # k
      <4>1. j \in 0 .. k - 1 /\ j - 1 \in 0 .. k /\ j - 1 # k
        BY <3>3
      <4> HIDE DEF Then, start
      <4>2. run[j] = g[j] /\ run[j - 1] = g[j - 1]
        BY <3>3, <4>1
      <4> QED BY <2>2, <3>3, <4>1, <4>2
    <3> QED BY <3>1, <3>2, <3>3
  <2>4. run = [j \in 0 .. k |-> run[j]]
    OBVIOUS
  <2> HIDE DEF run, Then, start
  <2>5. run = [j \in 0 .. k |-> IF j = 0 THEN start ELSE Then(run[j - 1])]
    BY <2>3, <2>4
  <2>6. IsRun(run, s, stride, first, k)
    BY <1>0, <2>5
  <2> QED BY <2>6
<1> HIDE DEF T
<1>3. 0 .. m \subseteq T
  BY <1>1, <1>2, UpTo
<1> QED BY <1>3 DEF T

\* What the iterator has returned: one address for each index, in row-major order.
Got(w, s, stride, o, k) ==
  /\ w \in Seq(Nat) /\ Len(w) = k
  /\ \A j \in 1 .. k :
       \E i \in IdxOf(s) : /\ w[j] = o + SumTo(Terms(i, stride, Len(s)), Len(s))
                          /\ SumTo(Terms(i, Weights(s), Len(s)), Len(s)) = j - 1

LEMMA GotMore ==
  ASSUME NEW s \in Seq(Nat), NEW stride \in Seq(Nat), Len(stride) = Len(s), NEW o \in Nat,
         NEW k \in Nat, NEW it, IterAt(it, s, stride, o, k), NEW w, Got(w, s, stride, o, k)
  PROVE  /\ it.next_storage_index # None
         /\ Got(Append(w, it.next_storage_index), s, stride, o, k + 1)
<1> DEFINE i == it.multi_index
           a == SumTo(Terms(i, stride, Len(s)), Len(s))
           at == it.next_storage_index
           v == [dims |-> s, stride |-> stride, start_offset |-> o]
           u == Append(w, at)
           Is(j, x) == /\ x = o + SumTo(Terms(j, stride, Len(s)), Len(s))
           Pos(j) == SumTo(Terms(j, Weights(s), Len(s)), Len(s))
<1>1. at = o + a /\ i \in IdxOf(s) /\ Pos(i) = k
  BY DEF IterAt
<1>2. Good(v) /\ v.dims = s /\ v.stride = stride
  BY DEF Good
<1>3. at \in Nat
  <2> HIDE DEF v, i
  <2>1. a \in Nat
    BY <1>1, <1>2, TermsTyped
  <2> HIDE DEF a, at
  <2> QED BY <1>1, <2>1
<1>4. at # None
  BY <1>3 DEF None
<1>5. w \in Seq(Nat) /\ Len(w) = k /\ \A j \in 1 .. k : \E x \in IdxOf(s) : Is(x, w[j]) /\ Pos(x) = j - 1
  BY DEF Got
<1>6. Is(i, at)
  BY <1>1
<1> HIDE DEF i, a, at, v, Is, Pos
<1>7. /\ u \in Seq(Nat) /\ Len(u) = k + 1
      /\ \A j \in 1 .. k : u[j] = w[j]
      /\ u[k + 1] = at
  BY <1>3, <1>5, AppendIs
<1> HIDE DEF u
<1>8. ASSUME NEW j \in 1 .. k + 1
      PROVE  \E x \in IdxOf(s) : Is(x, u[j]) /\ Pos(x) = j - 1
  <2>1. CASE j = k + 1
    <3>1. j - 1 = k
      BY <2>1
    <3> QED BY <1>1, <1>6, <1>7, <2>1, <3>1
  <2>2. CASE j # k + 1
    <3>1. j \in 1 .. k
      BY <2>2
    <3> QED BY <1>5, <1>7, <3>1
  <2> QED BY <2>1, <2>2
<1>9. Got(u, s, stride, o, k + 1)
  BY <1>7, <1>8 DEF Got, Is, Pos
<1> QED BY <1>4, <1>9 DEF u, at

\* What the iterator returns in all, as many addresses as there are elements.
IsReads(r, s, stride, o) == Got(r, s, stride, o, elem_count(s))

LEMMA IteratorReads ==
  ASSUME NEW s \in Seq(Nat), NEW stride \in Seq(Nat), Len(stride) = Len(s), NEW o \in Nat
  PROVE  IsReads(StridedIndex(s, stride, o), s, stride, o)
<1> DEFINE n == elem_count(s)
           first == [next_storage_index |-> IF n = 0 THEN None ELSE o,
                     multi_index |-> [i \in DOMAIN s |-> 0]]
           start == [it |-> first, returned |-> <<>>]
           run == CHOOSE run : IsRun(run, s, stride, first, n + 1)
<1>1. StridedIndex(s, stride, o) = run[n + 1].returned
  BY Zenon DEF StridedIndex, IsRun
<1>2. n \in Nat
  BY AfterRule
<1>3. IsRun(run, s, stride, first, n + 1)
  <2>1. n + 1 \in Nat
    BY <1>2
  <2> HIDE DEF n, first
  <2> QED BY <2>1, RunExists
<1> DEFINE Then(prev) == IF prev.it.next_storage_index = None THEN prev
                         ELSE [it |-> next(s, stride, prev.it),
                               returned |-> Append(prev.returned, prev.it.next_storage_index)]
<1> HIDE DEF run
<1>4. \A k \in 0 .. n + 1 : run[k] = IF k = 0 THEN start ELSE Then(run[k - 1])
  <2> HIDE DEF n, first
  <2> QED BY <1>3, Zenon DEF IsRun
<1>5. run[0] = start
  <2> HIDE DEF n, start, Then
  <2>1. 0 \in 0 .. n + 1
    BY <1>2
  <2> QED BY <1>4, <2>1
<1>6. \A k \in 1 .. n + 1 : run[k] = Then(run[k - 1])
  <2> HIDE DEF n, start, Then
  <2> QED BY <1>2, <1>4
<1> DEFINE Stands(it, k) == IF k = n THEN it.next_storage_index = None ELSE IterAt(it, s, stride, o, k)
           T == {k \in 0 .. n : Stands(run[k].it, k) /\ Got(run[k].returned, s, stride, o, k)}
<1>7. 0 \in T
  <2>0. run[0].it = first /\ run[0].returned = <<>>
    <3> HIDE DEF first
    <3> QED BY <1>5
  <2>1. Stands(first, 0)
   <3> HIDE DEF run
   <3>1. CASE n = 0
    <4>1. first.next_storage_index = None
      BY <3>1
    <4> HIDE DEF n, first
    <4> QED BY <3>1, <4>1
   <3>2. CASE n # 0
    <4> DEFINE z == [i \in DOMAIN s |-> 0]
    <4>1. DOMAIN s = 1 .. Len(s) /\ Len(s) \in Nat /\ \A d \in 1 .. Len(s) : s[d] \in Nat
      OBVIOUS
    <4>2. \A d \in 1 .. Len(s) : s[d] # 0
      BY <3>2, CountPositive
    <4>3. z \in IdxOf(s)
      BY <4>1, <4>2 DEF IdxOf
    <4>4. ASSUME NEW w, Nats(w, Len(s)) PROVE SumTo(Terms(z, w, Len(s)), Len(s)) = 0
      <5> DEFINE f == Terms(z, w, Len(s))
                 m == Len(s)
      <5>1. \A k \in 1 .. m : f[k] = 0
        <6> SUFFICES ASSUME NEW k \in 1 .. m PROVE f[k] = 0
          OBVIOUS
        <6>1. f[k] = z[k] * w[k] /\ z[k] = 0 /\ w[k] \in Nat
          BY <4>1, <4>4 DEF Terms, Nats
        <6> HIDE DEF f, z
        <6> QED BY <6>1
      <5> HIDE DEF f
      <5>2. SumTo(f, m) = 0
        BY <4>1, <5>1, SumZero
      <5> QED BY <5>2 DEF f
    <4>5. SumTo(Terms(z, stride, Len(s)), Len(s)) = 0 /\ SumTo(Terms(z, Weights(s), Len(s)), Len(s)) = 0
      <5>1. Nats(stride, Len(s))
        BY DEF Nats
      <5> HIDE DEF z
      <5> QED BY <4>4, <5>1, WeightsTyped
    <4>6. first = [next_storage_index |-> o, multi_index |-> z]
      BY <3>2
    <4> HIDE DEF n, first, z
    <4>7. IterAt(first, s, stride, o, 0)
      BY <4>3, <4>5, <4>6 DEF IterAt
    <4> QED BY <3>2, <4>7
   <3> QED BY <3>1, <3>2
  <2>2. Got(<<>>, s, stride, o, 0)
    BY DEF Got
  <2>3. 0 \in 0 .. n
    BY <1>2
  <2> HIDE DEF Stands, first
  <2> QED BY <2>0, <2>1, <2>2, <2>3
<1>8. ASSUME NEW k \in 1 .. n, k - 1 \in T PROVE k \in T
  <2>1. k - 1 \in Nat /\ k - 1 # n /\ (k - 1) + 1 = k /\ k \in 1 .. n + 1 /\ k \in 0 .. n
    BY <1>2
  <2> DEFINE it == run[k - 1].it
             w == run[k - 1].returned
  <2>2. IterAt(it, s, stride, o, k - 1) /\ Got(w, s, stride, o, k - 1)
    BY <1>8, <2>1
  <2>3. run[k] = Then(run[k - 1])
    BY <1>6, <2>1
  <2> HIDE DEF it, w
  <2>4. it.next_storage_index # None /\ Got(Append(w, it.next_storage_index), s, stride, o, (k - 1) + 1)
    BY <2>1, <2>2, GotMore
  <2>5. run[k].it = next(s, stride, it) /\ run[k].returned = Append(w, it.next_storage_index)
    BY <2>3, <2>4 DEF it, w
  <2>6. \/ (k - 1) + 1 = n /\ next(s, stride, it).next_storage_index = None
        \/ (k - 1) + 1 < n /\ IterAt(next(s, stride, it), s, stride, o, (k - 1) + 1)
    BY <2>1, <2>2, NextIs
  <2> HIDE DEF T, Then, n
  <2>7. Stands(run[k].it, k)
    BY <1>2, <2>1, <2>5, <2>6
  <2>8. Got(run[k].returned, s, stride, o, k)
    BY <2>1, <2>4, <2>5
  <2> HIDE DEF Stands
  <2> QED BY <2>1, <2>7, <2>8 DEF T
<1> HIDE DEF T
<1>9. 0 .. n \subseteq T
  BY <1>2, <1>7, <1>8, UpTo
<1>10. run[n].it.next_storage_index = None /\ Got(run[n].returned, s, stride, o, n)
  <2>1. n \in 0 .. n
    BY <1>2
  <2> HIDE DEF n
  <2> QED BY <1>9, <2>1 DEF T
<1>11. run[n + 1] = run[n]
  <2>1. n + 1 \in 1 .. n + 1 /\ (n + 1) - 1 = n
    BY <1>2
  <2> HIDE DEF n
  <2>2. run[n + 1] = Then(run[n])
    <3> HIDE DEF Then
    <3> QED BY <1>6, <2>1
  <2> QED BY <1>10, <2>2
<1> HIDE DEF first, Then, start
<1> QED BY <1>1, <1>10, <1>11 DEF IsReads

-----------------------------------------------------------------------------
(* The blocks of a layout, and a copy through them.                        *)

LEMMA SumTrailing ==
  ASSUME NEW n \in Nat, NEW m \in 0 .. n, NEW f, \A k \in 1 .. n : k > m => f[k] = 0, Ints(f, n)
  PROVE  SumTo(f, n) = SumTo(f, m)
<1> DEFINE T == {k \in 0 .. n : k >= m => SumTo(f, k) = SumTo(f, m)}
<1>1. 0 \in T
  OBVIOUS
<1>2. ASSUME NEW k \in 1 .. n, k - 1 \in T PROVE k \in T
  <2>1. SumTo(f, k) = SumTo(f, k - 1) + f[k]
    BY SumRule
  <2>2. CASE k = m
    BY <2>2
  <2>3. CASE k < m
    BY <2>3
  <2>4. CASE k > m
    BY <1>2, <2>4, SumTyped, <2>1
  <2> QED BY <2>2, <2>3, <2>4
<1> HIDE DEF T
<1>3. 0 .. n \subseteq T
  BY <1>1, <1>2, UpTo
<1>4. n \in T
  BY <1>3
<1> QED BY <1>4 DEF T

LEMMA CountSplit ==
  ASSUME NEW s \in Seq(Nat), NEW m \in 0 .. Len(s)
  PROVE  elem_count(SubSeq(s, 1, m)) * CountAfter(s, m) = elem_count(s)
<1> DEFINE n == Len(s)
           u == SubSeq(s, 1, m)
           T == {k \in 0 .. n : ProdTo(s, k) * CountAfter(s, k) = elem_count(s)}
<1>1. n \in Nat /\ Nats(s, n)
  BY DEF Nats
<1>2. \A k \in 0 .. n : ProdTo(s, k) \in Nat /\ CountAfter(s, k) \in Nat
  BY <1>1, ProdTyped, AfterRule
<1>3. 0 \in T
  BY ProdRule, AfterRule, <1>1
<1>4. ASSUME NEW k \in 1 .. n, k - 1 \in T PROVE k \in T
  <2> DEFINE a == ProdTo(s, k - 1)
             c == CountAfter(s, k)
             x == s[k]
  <2>1. k \in 0 .. n /\ k - 1 \in 0 .. n /\ k \in Nat \ {0}
    BY <1>1
  <2>2. ProdTo(s, k) = a * x /\ CountAfter(s, k - 1) = x * c
    BY <2>1, ProdRule, AfterRule
  <2>3. a \in Nat /\ c \in Nat /\ x \in Nat
    BY <1>1, <1>2, <2>1 DEF Nats
  <2>4. a * (x * c) = elem_count(s)
    BY <1>4, <2>2
  <2> HIDE DEF a, c, x, T
  <2>5. ProdTo(s, k) * c = elem_count(s)
    BY <2>2, <2>3, <2>4, TimesAssoc
  <2> QED BY <2>1, <2>5 DEF T, c
<1> HIDE DEF T
<1>5. 0 .. n \subseteq T
  BY <1>1, <1>3, <1>4, UpTo
<1>6. ProdTo(s, m) * CountAfter(s, m) = elem_count(s)
  BY <1>5 DEF T
<1>7. elem_count(u) = ProdTo(s, m)
  <2>1. m \in Nat /\ DOMAIN u = 1 .. m /\ Agree(u, s, m) /\ m \in 0 .. m
    BY DEF Agree
  <2> HIDE DEF u
  <2>2. elem_count(u) = ProdTo(u, m)
    BY <2>1, CountIs
  <2> QED BY <2>1, <2>2, ProdAgrees
<1> QED BY <1>6, <1>7

LEMMA ContigDims ==
  ASSUME NEW l, Good(l)
  PROVE  /\ contiguous_dims(l) \in 0 .. Len(l.dims)
         /\ \A i \in 1 .. Len(l.dims) :
              i > Len(l.dims) - contiguous_dims(l) => l.stride[i] = CountAfter(l.dims, i)
<1> DEFINE n == Len(l.dims)
           Right(k) == \A i \in n - k + 1 .. n : l.stride[i] = CountAfter(l.dims, i)
           c == contiguous_dims(l)
<1>1. n \in Nat
  BY GoodParts
<1>2. c = CHOOSE k \in 0 .. n : Right(k) /\ (k = n \/ ~Right(k + 1))
  BY DEF contiguous_dims
<1>3. Right(0)
  BY <1>1
<1> DEFINE T == {k \in 0 .. n : ~Right(k)}
<1>4. \E k \in 0 .. n : Right(k) /\ (k = n \/ ~Right(k + 1))
  <2>1. CASE T = {}
    BY <1>1, <2>1
  <2>2. CASE T # {}
    <3>1. PICK k \in T : \A j \in T : k <= j
      <4>1. T \in SUBSET Nat
        BY <1>1
      <4> HIDE DEF T
      <4> QED BY <2>2, <4>1, NatMin
    <3>2. k \in 0 .. n /\ ~Right(k)
      OBVIOUS
    <3> HIDE DEF Right
    <3>3. k # 0
      BY <1>3, <3>2
    <3>4. k - 1 \in 0 .. n /\ ~(k <= k - 1) /\ (k - 1) + 1 = k
      BY <3>2, <3>3
    <3>5. Right(k - 1)
      BY <3>1, <3>4
    <3> QED BY <3>2, <3>4, <3>5
  <2> QED BY <2>1, <2>2
<1> HIDE DEF c, T
<1>5. c \in 0 .. n /\ Right(c)
  <2> HIDE DEF Right
  <2> QED BY <1>2, <1>4
<1>6. \A i \in 1 .. n : i > n - c => l.stride[i] = CountAfter(l.dims, i)
  <2> SUFFICES ASSUME NEW i \in 1 .. n, i > n - c PROVE l.stride[i] = CountAfter(l.dims, i)
    OBVIOUS
  <2>1. i \in n - c + 1 .. n
    BY <1>1, <1>5
  <2> QED BY <1>5, <2>1
<1> QED BY <1>5, <1>6 DEF c

LEMMA PrefixIs ==
  ASSUME NEW s \in Seq(Nat), NEW m \in 0 .. Len(s)
  PROVE  /\ SubSeq(s, 1, m) \in Seq(Nat) /\ Len(SubSeq(s, 1, m)) = m
         /\ \A k \in 1 .. m : SubSeq(s, 1, m)[k] = s[k]
  OBVIOUS

LEMMA SuffixIs ==
  ASSUME NEW s \in Seq(Nat), NEW m \in 0 .. Len(s)
  PROVE  /\ SubSeq(s, m + 1, Len(s)) \in Seq(Nat) /\ Len(SubSeq(s, m + 1, Len(s))) = Len(s) - m
         /\ \A x \in 1 .. Len(s) - m : SubSeq(s, m + 1, Len(s))[x] = s[m + x]
  OBVIOUS

\* Blocks that together have as many elements as the layout, each in the storage.
BlocksFit(b, l, size) ==
  /\ b.starts \in Seq(Nat) /\ b.len \in Nat /\ Len(b.starts) * b.len = elem_count(l.dims)
  /\ \A k \in 1 .. Len(b.starts) : b.len # 0 => b.starts[k] + b.len <= size

LEMMA BlockEnds ==
  ASSUME NEW l, NEW size \in Nat, Fits(l, size), NEW m \in 1 .. Len(l.dims),
         \A k \in 1 .. Len(l.dims) : k > m => l.stride[k] = CountAfter(l.dims, k),
         CountAfter(l.dims, m) # 0, NEW i \in IdxOf(SubSeq(l.dims, 1, m))
  PROVE  l.start_offset + SumTo(Terms(i, SubSeq(l.stride, 1, m), m), m) + CountAfter(l.dims, m) <= size
<1> DEFINE n == Len(l.dims)
           s == l.dims
           u == SubSeq(s, 1, m)
           v == SubSeq(l.stride, 1, m)
           j == [k \in 1 .. n |-> IF k <= m THEN i[k] ELSE s[k] - 1]
           f == [k \in 1 .. n |-> IF k <= m THEN i[k] * l.stride[k] ELSE 0]
           a == [k \in 1 .. n |-> IF k > m THEN (s[k] - 1) * CountAfter(s, k) ELSE 0]
           z == [k \in 1 .. n |-> 0]
           g == Terms(j, l.stride, n)
           t == Terms(i, v, m)
<1>0. Good(l)
  BY DEF Fits
<1>1. /\ s \in Seq(Nat) /\ l.stride \in Seq(Nat) /\ l.start_offset \in Nat /\ n \in Nat
      /\ DOMAIN s = 1 .. n /\ DOMAIN l.stride = 1 .. n /\ Len(l.stride) = n
      /\ \A k \in 1 .. n : s[k] \in Nat /\ l.stride[k] \in Nat
  BY <1>0, GoodParts
<1>2. /\ u \in Seq(Nat) /\ Len(u) = m /\ m \in Nat /\ m \in 0 .. n /\ m \in 0 .. m /\ n \in 0 .. n
      /\ \A k \in 1 .. m : u[k] = s[k] /\ v[k] = l.stride[k] /\ k \in 1 .. n
  <2>1. m \in Nat /\ m \in 0 .. n /\ m \in 0 .. m /\ n \in 0 .. n /\ \A k \in 1 .. m : k \in 1 .. n
    <3>1. m \in 1 .. n /\ n \in Nat
      BY <1>1
    <3> HIDE DEF n
    <3> QED BY <3>1
  <2>2. u \in Seq(Nat) /\ Len(u) = m /\ \A k \in 1 .. m : u[k] = s[k]
    BY <1>1, <2>1, PrefixIs
  <2>3. \A k \in 1 .. m : v[k] = l.stride[k]
    BY <1>1, <2>1, PrefixIs
  <2> HIDE DEF u, v, n, s
  <2> QED BY <2>1, <2>2, <2>3
<1>3. \A k \in 1 .. m : i[k] \in Nat /\ i[k] < s[k]
  <2>1. i \in IdxOf(u)
    OBVIOUS
  <2> HIDE DEF u, s
  <2>2. \A k \in 1 .. m : i[k] \in Nat /\ i[k] < u[k]
    BY <1>2, <2>1, IdxParts
  <2> QED BY <1>2, <2>2
<1>4. ASSUME NEW k \in 1 .. n, k > m PROVE s[k] # 0
  <2> DEFINE w == SubSeq(s, m + 1, n)
  <2>1. w \in Seq(Nat) /\ Len(w) = n - m /\ \A d \in 1 .. n - m : w[d] = s[m + d]
    BY <1>1, <1>2
  <2>2. elem_count(w) = CountAfter(s, m)
    BY Zenon DEF CountAfter
  <2>3. k - m \in 1 .. n - m /\ m + (k - m) = k
    BY <1>1, <1>2, <1>4
  <2> HIDE DEF w
  <2>4. w[k - m] = s[k]
    BY <2>1, <2>3
  <2>5. \A d \in 1 .. Len(w) : w[d] # 0
    BY <2>1, <2>2, CountPositive
  <2> QED BY <2>1, <2>3, <2>4, <2>5
<1>5. j \in IdxOf(s)
  <2>1. ASSUME NEW k \in 1 .. n PROVE j[k] \in Nat /\ j[k] < s[k]
    <3>1. CASE k <= m
      <4>1. j[k] = i[k] /\ k \in 1 .. m
        BY <1>1, <1>2, <3>1
      <4> HIDE DEF j
      <4> QED BY <1>3, <4>1
    <3>2. CASE ~(k <= m)
      <4>1. j[k] = s[k] - 1 /\ k > m /\ s[k] \in Nat
        BY <1>1, <1>2, <3>2
      <4>2. s[k] # 0
        BY <1>4, <4>1
      <4> HIDE DEF j, s
      <4> QED BY <4>1, <4>2
    <3> QED BY <3>1, <3>2
  <2>2. j \in [1 .. n -> Nat]
    <3>1. j = [k \in 1 .. n |-> j[k]]
      OBVIOUS
    <3> HIDE DEF j
    <3> QED BY <2>1, <3>1
  <2> HIDE DEF j
  <2> QED BY <1>1, <2>1, <2>2 DEF IdxOf
<1>6. \A k \in 0 .. n : CountAfter(s, k) \in Nat
  BY <1>1, AfterRule
<1>7. ASSUME NEW k \in 1 .. n
      PROVE  f[k] \in Int /\ a[k] \in Int /\ z[k] \in Int /\ g[k] = f[k] + a[k] - z[k]
  <2>1. g[k] = j[k] * l.stride[k] /\ z[k] = 0
    BY DEF Terms
  <2>2. CASE k <= m
    <3>1. k \in 1 .. m /\ ~(k > m)
      BY <1>1, <1>2, <2>2
    <3>2. f[k] = i[k] * l.stride[k] /\ a[k] = 0 /\ j[k] = i[k]
      BY <2>2, <3>1
    <3>3. i[k] \in Nat /\ l.stride[k] \in Nat
      BY <1>1, <1>3, <3>1
    <3> HIDE DEF f, a, z, g, j
    <3>4. f[k] \in Nat /\ g[k] = f[k]
      BY <2>1, <3>2, <3>3, Times
    <3> QED BY <2>1, <3>2, <3>4
  <2>3. CASE ~(k <= m)
    <3>1. k > m
      BY <1>1, <1>2, <2>3
    <3>2. f[k] = 0 /\ a[k] = (s[k] - 1) * CountAfter(s, k) /\ j[k] = s[k] - 1
      BY <2>3, <3>1
    <3>3. l.stride[k] = CountAfter(s, k)
      BY <3>1
    <3>4. s[k] - 1 \in Nat
      <4>1. s[k] \in Nat /\ s[k] # 0
        BY <1>1, <1>4, <3>1
      <4> HIDE DEF s
      <4> QED BY <4>1
    <3>5. CountAfter(s, k) \in Nat
      BY <1>1, <1>6
    <3> HIDE DEF f, a, z, g, j, s
    <3>6. a[k] \in Nat /\ g[k] = a[k]
      BY <2>1, <3>2, <3>3, <3>4, <3>5, Times
    <3> QED BY <2>1, <3>2, <3>6
  <2> QED BY <2>2, <2>3
<1>8. Combined(g, f, a, z, n) /\ Ints(f, n)
  <2> HIDE DEF f, a, z, g
  <2> QED BY <1>7 DEF Combined, Ints
<1>9. SumTo(z, n) = 0
  <2>1. \A k \in 1 .. n : z[k] = 0
    OBVIOUS
  <2> HIDE DEF z
  <2> QED BY <1>1, <2>1, SumZero
<1>10. SumTo(a, n) = CountAfter(s, m) - 1
  <2>1. \A k \in 1 .. n : a[k] = IF k > m THEN (s[k] - 1) * CountAfter(s, k) ELSE 0
    OBVIOUS
  <2> HIDE DEF a
  <2> QED BY <1>1, <1>2, <2>1, SumLast
<1>11. SumTo(f, n) = SumTo(t, m)
  <2>1. \A k \in 1 .. n : k > m => f[k] = 0
    BY <1>1, <1>2
  <2>2. Agree(f, t, m)
    <3> SUFFICES ASSUME NEW k \in 1 .. m PROVE f[k] = t[k]
      BY DEF Agree
    <3>1. t[k] = i[k] * v[k] /\ v[k] = l.stride[k] /\ k \in 1 .. n
      BY <1>2 DEF Terms
    <3>2. f[k] = i[k] * l.stride[k]
      BY <3>1
    <3> HIDE DEF f, t, v
    <3> QED BY <3>1, <3>2
  <2> HIDE DEF f, t
  <2>3. SumTo(f, n) = SumTo(f, m)
    BY <1>1, <1>2, <1>8, <2>1, SumTrailing
  <2> QED BY <1>2, <2>2, <2>3, SumAgrees
<1>12. Address(l, j) = l.start_offset + SumTo(g, n) /\ Address(l, j) < size
  <2>1. Address(l, j) < size
    BY <1>5 DEF Fits
  <2> HIDE DEF j
  <2> QED BY <1>1, <2>1, AddressIs
<1> HIDE DEF f, a, z, g, t, j
<1>13. SumTo(g, n) = SumTo(f, n) + SumTo(a, n) - SumTo(z, n) /\ SumTo(f, n) \in Int
  BY <1>1, <1>2, <1>8, SumCombined, SumTyped
<1>14. CountAfter(s, m) \in Nat
  BY <1>2, <1>6
<1>15. l.start_offset + SumTo(t, m) + CountAfter(s, m) <= size
  <2> DEFINE x == SumTo(t, m)
             y == CountAfter(s, m)
             o == l.start_offset
  <2>1. x \in Int /\ y \in Nat /\ o \in Nat /\ SumTo(g, n) = x + (y - 1)
    BY <1>1, <1>9, <1>10, <1>11, <1>13, <1>14
  <2>2. o + SumTo(g, n) < size
    BY <1>12
  <2> HIDE DEF x, y, o, n, s
  <2>3. o + x + y <= size
    BY <2>1, <2>2
  <2> QED BY <2>3 DEF x, y, o, s
<1> QED BY <1>15 DEF t

LEMMA BlocksAre ==
  ASSUME NEW l, NEW size \in Nat, Fits(l, size)
  PROVE  BlocksFit(strided_blocks(l), l, size)
<1> DEFINE n == Len(l.dims)
           s == l.dims
           c == contiguous_dims(l)
           m == n - c
           b == strided_blocks(l)
<1>0. Good(l)
  BY DEF Fits
<1>1. s \in Seq(Nat) /\ l.stride \in Seq(Nat) /\ l.start_offset \in Nat /\ n \in Nat /\ Len(l.stride) = n
  BY <1>0, GoodParts
<1>2. c \in 0 .. n /\ \A k \in 1 .. n : k > m => l.stride[k] = CountAfter(s, k)
  BY <1>0, ContigDims
<1> HIDE DEF c
<1>3. m \in 0 .. n
  <2> HIDE DEF n
  <2> QED BY <1>1, <1>2
<1>4. b = BlocksAfter(l, m)
  BY DEF strided_blocks, c
<1> HIDE DEF m, b
<1>5. /\ b.len = CountAfter(s, m)
      /\ b.starts = IF m = 0 THEN <<l.start_offset>>
                    ELSE StridedIndex(SubSeq(s, 1, m), SubSeq(l.stride, 1, m), l.start_offset)
  BY <1>4 DEF BlocksAfter
<1>6. b.len \in Nat
  BY <1>1, <1>3, <1>5, AfterRule
<1>7. CASE m = 0
  <2>1. b.starts = <<l.start_offset>> /\ b.len = elem_count(s)
    BY <1>1, <1>5, <1>7, AfterRule
  <2>2. b.starts \in Seq(Nat) /\ Len(b.starts) = 1 /\ b.starts[1] = l.start_offset
    BY <1>1, <2>1
  <2>3. Len(b.starts) * b.len = elem_count(s)
    <3>1. 1 * b.len = b.len
      BY <1>6
    <3> QED BY <2>1, <2>2, <3>1
  <2>4. ASSUME b.len # 0 PROVE b.starts[1] + b.len <= size
    <3>1. is_contiguous(l)
      <4>1. \A k \in 1 .. n : l.stride[k] = CountAfter(s, k)
        <5> SUFFICES ASSUME NEW k \in 1 .. n PROVE l.stride[k] = CountAfter(s, k)
          OBVIOUS
        <5>1. k > m
          BY <1>1, <1>7
        <5> QED BY <1>2, <5>1
      <4>2. DOMAIN l.dims = 1 .. n
        BY <1>1
      <4> QED BY <4>1, <4>2 DEF is_contiguous
    <3>2. PICK i \in IdxOf(s) : Address(l, i) + 1 = l.start_offset + elem_count(s)
      BY <1>0, <2>1, <2>4, <3>1, LastAddress
    <3>3. Address(l, i) < size
      BY <3>2 DEF Fits
    <3>4. Address(l, i) \in Int
      <4> DEFINE t == SumTo(Terms(i, l.stride, n), n)
      <4>1. Address(l, i) = l.start_offset + t
        BY <1>1, AddressIs
      <4>2. t \in Nat
        BY <1>0, TermsTyped
      <4> HIDE DEF t
      <4> QED BY <1>1, <4>1, <4>2
    <3> DEFINE e == elem_count(s)
    <3>5. e \in Nat /\ Address(l, i) + 1 = l.start_offset + e /\ b.starts[1] + b.len = l.start_offset + e
      BY <1>6, <2>1, <2>2, <3>2
    <3> HIDE DEF e, s
    <3> QED BY <1>1, <3>3, <3>4, <3>5
  <2>5. \A k \in 1 .. Len(b.starts) : k = 1
    BY <2>2
  <2>6. ASSUME NEW k \in 1 .. Len(b.starts), b.len # 0 PROVE b.starts[k] + b.len <= size
    BY <2>4, <2>5, <2>6
  <2>7. \A k \in 1 .. Len(b.starts) : b.len # 0 => b.starts[k] + b.len <= size
    BY <2>6
  <2>8. Len(b.starts) * b.len = elem_count(l.dims)
    BY <2>3
  <2>9. BlocksFit(b, l, size)
    BY <1>6, <2>2, <2>7, <2>8, Zenon DEF BlocksFit
  <2> QED BY <2>9 DEF b
<1>8. CASE m # 0
  <2> DEFINE u == SubSeq(s, 1, m)
             v == SubSeq(l.stride, 1, m)
  <2>0. m \in 1 .. n /\ m \in Nat
    BY <1>1, <1>3, <1>8
  <2>1. /\ u \in Seq(Nat) /\ Len(u) = m /\ v \in Seq(Nat) /\ Len(v) = m
    BY <1>1, <1>3, PrefixIs
  <2>2. IsReads(b.starts, u, v, l.start_offset)
    <3>1. b.starts = StridedIndex(u, v, l.start_offset)
      BY <1>5, <1>8
    <3> HIDE DEF u, v
    <3> QED BY <1>1, <2>1, <3>1, IteratorReads
  <2>3. elem_count(u) * CountAfter(s, m) = elem_count(s)
    BY <1>1, <1>3, CountSplit
  <2>4. ASSUME NEW k \in 1 .. Len(b.starts), b.len # 0 PROVE b.starts[k] + b.len <= size
    <3>1. PICK i \in IdxOf(u) : b.starts[k] = l.start_offset + SumTo(Terms(i, v, m), m)
      <4> HIDE DEF u, v
      <4> QED BY <2>1, <2>2 DEF IsReads, Got
    <3>2. i \in IdxOf(SubSeq(l.dims, 1, m)) /\ CountAfter(l.dims, m) # 0
      BY <1>5, <2>4
    <3>3. l.start_offset + SumTo(Terms(i, SubSeq(l.stride, 1, m), m), m) + CountAfter(l.dims, m) <= size
      BY <1>2, <2>0, <3>2, BlockEnds
    <3> QED BY <1>5, <3>1, <3>3
  <2>5. b.starts \in Seq(Nat) /\ Len(b.starts) = elem_count(u)
    <3> HIDE DEF u, v
    <3> QED BY <2>2 DEF IsReads, Got
  <2> HIDE DEF u, v
  <2>6. Len(b.starts) * b.len = elem_count(l.dims)
    BY <1>5, <2>3, <2>5
  <2>7. \A k \in 1 .. Len(b.starts) : b.len # 0 => b.starts[k] + b.len <= size
    BY <2>4
  <2>8. BlocksFit(b, l, size)
    BY <1>6, <2>5, <2>6, <2>7, Zenon DEF BlocksFit
  <2> QED BY <2>8 DEF b
<1> QED BY <1>7, <1>8 DEF b

\* k sequences of the same length, one after the other.
IsFlat(r, k, len, size) ==
  r \in Seq(Nat) /\ Len(r) = k * len /\ \A j \in 1 .. Len(r) : r[j] < size

IsFlatten(g, seqs, m) ==
  g = [i \in 1 .. m |-> IF i = 1 THEN seqs[i] ELSE g[i - 1] \o seqs[i]]

LEMMA FlattenExists ==
  ASSUME NEW seqs, NEW m \in Nat
  PROVE  \E g : IsFlatten(g, seqs, m)
<1> DEFINE T == {k \in 0 .. m : \E g : IsFlatten(g, seqs, k)}
<1>1. 0 \in T
  <2> DEFINE g == [i \in 1 .. 0 |-> 0]
  <2>1. g = [i \in 1 .. 0 |-> IF i = 1 THEN seqs[i] ELSE g[i - 1] \o seqs[i]]
    <3>1. 1 .. 0 = {}
      OBVIOUS
    <3> QED BY <3>1
  <2> HIDE DEF g
  <2>2. IsFlatten(g, seqs, 0)
    BY <2>1, Zenon DEF IsFlatten
  <2> QED BY <2>2
<1>2. ASSUME NEW k \in 1 .. m, k - 1 \in T PROVE k \in T
  <2>1. PICK h : IsFlatten(h, seqs, k - 1)
    BY <1>2
  <2>2. \A i \in 1 .. k - 1 : h[i] = IF i = 1 THEN seqs[i] ELSE h[i - 1] \o seqs[i]
    BY <2>1, Zenon DEF IsFlatten
  <2> DEFINE g == [i \in 1 .. k |-> IF i = k /\ k # 1 THEN h[k - 1] \o seqs[k]
                                    ELSE IF i = k THEN seqs[k] ELSE h[i]]
  <2>3. ASSUME NEW i \in 1 .. k PROVE g[i] = IF i = 1 THEN seqs[i] ELSE g[i - 1] \o seqs[i]
    <3>1. CASE i = 1 /\ k = 1
      BY <3>1
    <3>2. CASE i = k /\ k # 1
      <4>1. k - 1 \in 1 .. k /\ k - 1 # k
        BY <3>2
      <4>2. g[k - 1] = h[k - 1] /\ g[k] = h[k - 1] \o seqs[k]
        BY <3>2, <4>1
      <4> HIDE DEF g
      <4> QED BY <3>2, <4>2
    <3>3. CASE i = 1 /\ i # k
      <4>1. i \in 1 .. k - 1
        BY <3>3
      <4>2. g[i] = h[i]
        BY <3>3
      <4> HIDE DEF g
      <4> QED BY <2>2, <3>3, <4>1, <4>2
    <3>4. CASE i # 1 /\ i # k
      <4>1. i \in 1 .. k - 1 /\ i - 1 \in 1 .. k /\ i - 1 # k
        BY <3>4
      <4>2. g[i] = h[i] /\ g[i - 1] = h[i - 1]
        BY <3>4, <4>1
      <4> HIDE DEF g
      <4> QED BY <2>2, <3>4, <4>1, <4>2
    <3> QED BY <3>1, <3>2, <3>3, <3>4
  <2>4. g = [i \in 1 .. k |-> g[i]]
    OBVIOUS
  <2> HIDE DEF g
  <2>5. g = [i \in 1 .. k |-> IF i = 1 THEN seqs[i] ELSE g[i - 1] \o seqs[i]]
    BY <2>3, <2>4
  <2>6. IsFlatten(g, seqs, k)
    BY <2>5, Zenon DEF IsFlatten
  <2> QED BY <2>6
<1> HIDE DEF T
<1>3. 0 .. m \subseteq T
  BY <1>1, <1>2, UpTo
<1> QED BY <1>3 DEF T

LEMMA FlattenIs ==
  ASSUME NEW seqs, NEW m \in Nat, DOMAIN seqs = 1 .. m, Len(seqs) = m, NEW len \in Nat, NEW size \in Nat,
         \A i \in 1 .. m : IsFlat(seqs[i], 1, len, size), m = 0 => seqs = <<>>
  PROVE  IsFlat(FlattenSeq(seqs), m, len, size)
<1>1. CASE m = 0
  BY <1>1 DEF FlattenSeq, IsFlat
<1>2. CASE m # 0
  <2> DEFINE g == CHOOSE h : IsFlatten(h, seqs, m)
  <2>1. FlattenSeq(seqs) = g[m]
    BY <1>2, Zenon DEF FlattenSeq, IsFlatten
  <2>2. IsFlatten(g, seqs, m)
    BY FlattenExists
  <2> HIDE DEF g
  <2>3. \A i \in 1 .. m : g[i] = IF i = 1 THEN seqs[i] ELSE g[i - 1] \o seqs[i]
    BY <2>2, Zenon DEF IsFlatten
  <2> DEFINE T == {k \in 0 .. m : k # 0 => IsFlat(g[k], k, len, size)}
  <2>4. 0 \in T
    OBVIOUS
  <2>5. ASSUME NEW k \in 1 .. m, k - 1 \in T PROVE k \in T
    <3>1. CASE k = 1
      BY <2>3, <3>1
    <3>2. CASE k # 1
      <4> DEFINE x == g[k - 1]
                 y == seqs[k]
      <4>1. g[k] = x \o y
        BY <2>3, <3>2
      <4>2. IsFlat(x, k - 1, len, size) /\ IsFlat(y, 1, len, size)
        BY <2>5, <3>2
      <4> HIDE DEF x, y, T
      <4>3. /\ x \in Seq(Nat) /\ Len(x) = (k - 1) * len /\ \A j \in 1 .. Len(x) : x[j] < size
            /\ y \in Seq(Nat) /\ Len(y) = 1 * len /\ \A j \in 1 .. Len(y) : y[j] < size
        BY <4>2 DEF IsFlat
      <4>4. (k - 1) * len + 1 * len = k * len
        OBVIOUS
      <4>5. x \o y \in Seq(Nat) /\ Len(x \o y) = k * len
        <5>1. x \in Seq(Nat) /\ y \in Seq(Nat) /\ Len(x) = (k - 1) * len /\ Len(y) = 1 * len
          BY <4>3
        <5>2. x \o y \in Seq(Nat) /\ Len(x \o y) = Len(x) + Len(y)
          BY <5>1, ConcatIs, Zenon
        <5> QED BY <4>4, <5>1, <5>2, Zenon
      <4>6. ASSUME NEW j \in 1 .. Len(x \o y) PROVE (x \o y)[j] < size
        <5>0. Len(x) \in Nat /\ Len(y) \in Nat /\ Len(x \o y) = Len(x) + Len(y)
          <6>1. x \in Seq(Nat) /\ y \in Seq(Nat)
            BY <4>3
          <6> QED BY <6>1, ConcatIs
        <5>1. CASE j <= Len(x)
          BY <5>0, <5>1, <4>3, ConcatIs
        <5>2. CASE ~(j <= Len(x))
          <6> DEFINE e == j - Len(x)
          <6>1. e \in 1 .. Len(y) /\ Len(x) + e = j
            BY <5>0, <5>2
          <6> HIDE DEF e
          <6>2. (x \o y)[Len(x) + e] = y[e]
            BY <4>3, <6>1, ConcatIs
          <6> QED BY <4>3, <6>1, <6>2
        <5> QED BY <5>1, <5>2
      <4>7. IsFlat(g[k], k, len, size)
        BY <4>1, <4>5, <4>6 DEF IsFlat
      <4> QED BY <4>7 DEF T
    <3> QED BY <3>1, <3>2
  <2> HIDE DEF T
  <2>6. 0 .. m \subseteq T
    BY <2>4, <2>5, UpTo
  <2>7. m \in T
    BY <2>6
  <2> QED BY <1>2, <2>1, <2>7 DEF T
<1> QED BY <1>1, <1>2

\* A loop over one tensor reads as many elements as it has, all in the storage.
LEMMA LoopFits ==
  ASSUME NEW l, NEW size \in Nat, Fits(l, size)
  PROVE  IsFlat(unary_map(l), 1, elem_count(l.dims), size)
<1> DEFINE b == strided_blocks(l)
           m == Len(b.starts)
           seqs == [i \in DOMAIN b.starts |-> Block(b.starts[i], b.len)]
<1>1. /\ b.starts \in Seq(Nat) /\ b.len \in Nat /\ m * b.len = elem_count(l.dims)
      /\ \A k \in 1 .. m : b.len # 0 => b.starts[k] + b.len <= size
  BY BlocksAre DEF BlocksFit
<1>2. unary_map(l) = FlattenSeq(seqs)
  BY Zenon DEF unary_map, InBlocks
<1> HIDE DEF b
<1>3. m \in Nat /\ DOMAIN b.starts = 1 .. m /\ \A k \in 1 .. m : b.starts[k] \in Nat
  BY <1>1
<1>4. DOMAIN seqs = 1 .. m /\ Len(seqs) = m /\ (m = 0 => seqs = <<>>)
  <2>1. seqs = [i \in 1 .. m |-> Block(b.starts[i], b.len)]
    BY <1>3
  <2> HIDE DEF seqs
  <2>2. DOMAIN seqs = 1 .. m
    BY <2>1
  <2>3. Len(seqs) = m
    BY <1>3, <2>1
  <2>4. ASSUME m = 0 PROVE seqs = <<>>
    <3>1. 1 .. m = {}
      BY <2>4
    <3> QED BY <2>1, <3>1
  <2> QED BY <2>2, <2>3, <2>4
<1>5. ASSUME NEW i \in 1 .. m PROVE IsFlat(seqs[i], 1, b.len, size)
  <2> DEFINE a == b.starts[i]
             len == b.len
             r == seqs[i]
  <2>1. r = [j \in 1 .. len |-> a + j - 1] /\ a \in Nat /\ len \in Nat /\ (len # 0 => a + len <= size)
    BY <1>1, <1>3 DEF Block
  <2> HIDE DEF a, len, r
  <2>2. \A j \in 1 .. len : r[j] = a + j - 1 /\ r[j] \in Nat /\ r[j] < size
    BY <2>1
  <2>3. r \in [1 .. len -> Nat]
    BY <2>1, <2>2
  <2>4. r \in Seq(Nat) /\ Len(r) = len /\ 1 * len = len
    BY <2>1, <2>3
  <2>5. IsFlat(r, 1, len, size)
    BY <2>2, <2>4 DEF IsFlat
  <2> QED BY <2>5 DEF r, len
<1> HIDE DEF seqs
<1>6. IsFlat(FlattenSeq(seqs), m, b.len, size)
  BY <1>1, <1>3, <1>4, <1>5, FlattenIs
<1>7. m * b.len = 1 * elem_count(l.dims)
  <2>1. elem_count(l.dims) \in Nat
    BY GoodParts, AfterRule DEF Fits
  <2> QED BY <1>1, <2>1
<1> QED BY <1>2, <1>6, <1>7 DEF IsFlat

LEMMA FunIsSeq ==
  ASSUME NEW n \in Nat, NEW f \in [1 .. n -> Nat]
  PROVE  f \in Seq(Nat) /\ Len(f) = n
  OBVIOUS

\* copy_strided_src into a new storage fills it from the old one.
LEMMA CopyIs ==
  ASSUME NEW src \in Seq(Nat), NEW l, Fits(l, Len(src)), NEW n, n = elem_count(l.dims),
         NEW new, new = copy_strided_src(src, [i \in 1 .. n |-> None], 0, l)
  PROVE  new \in Seq(Nat) /\ Len(new) = n
<1> DEFINE at == unary_map(l)
           vals == [k \in DOMAIN at |-> src[at[k] + 1]]
           dst == [i \in 1 .. n |-> None]
<1>0. n \in Nat /\ Len(src) \in Nat
  BY GoodParts, AfterRule DEF Fits
<1>1. at \in Seq(Nat) /\ Len(at) = n /\ \A k \in 1 .. n : at[k] < Len(src)
  <2>1. IsFlat(at, 1, n, Len(src))
    BY <1>0, LoopFits
  <2>2. 1 * n = n
    BY <1>0
  <2> HIDE DEF at
  <2> QED BY <2>1, <2>2 DEF IsFlat
<1>2. new = Overwritten(dst, 0, vals)
  BY Zenon DEF copy_strided_src, ElemsAt
<1> HIDE DEF at
<1>3. DOMAIN at = 1 .. n /\ \A k \in 1 .. n : at[k] \in Nat
  BY <1>0, <1>1
<1>4. vals = [k \in 1 .. n |-> src[at[k] + 1]]
  BY <1>3
<1>5. \A k \in 1 .. n : src[at[k] + 1] \in Nat
  <2> SUFFICES ASSUME NEW k \in 1 .. n PROVE src[at[k] + 1] \in Nat
    OBVIOUS
  <2>1. at[k] \in Nat /\ at[k] < Len(src)
    BY <1>1, <1>3
  <2>2. at[k] + 1 \in 1 .. Len(src)
    BY <1>0, <2>1
  <2> QED BY <2>2
<1> HIDE DEF vals
<1>6. Len(vals) = n /\ \A k \in 1 .. n : vals[k] \in Nat
  BY <1>0, <1>4, <1>5
<1>7. new = [i \in 1 .. n |-> IF i > 0 /\ i - 0 <= Len(vals) THEN vals[i - 0] ELSE dst[i]]
  BY <1>2 DEF Overwritten
<1>8. \A i \in 1 .. n : new[i] = vals[i]
  <2> SUFFICES ASSUME NEW i \in 1 .. n PROVE new[i] = vals[i]
    OBVIOUS
  <2>1. i > 0 /\ i - 0 <= Len(vals) /\ i - 0 = i
    BY <1>0, <1>6
  <2> HIDE DEF dst
  <2> QED BY <1>7, <2>1
<1>9. new \in [1 .. n -> Nat]
  BY <1>7, <1>6, <1>8
<1> QED BY <1>0, <1>9, FunIsSeq

-----------------------------------------------------------------------------
(* The operations keep the tensor within its storage.                      *)

\* The inductive invariant: every index of the tensor, not only the ones that
\* RowMajor lists, has its address in the storage.
VInv == Fits(layout, Len(data)) /\ data \in Seq(Nat) /\ ops \in Nat /\ ops <= MaxOps

LEMMA BoundTyped == MaxOps \in Nat
BY ViewsAssumption DEF ViewsAssumption

\* The state that the lemmas are about.
LEMMA StateTyped ==
  ASSUME VInv
  PROVE  /\ Good(layout) /\ Fits(layout, Len(data)) /\ Len(data) \in Nat
         /\ dims \in Seq(Nat) /\ rank = Len(dims) /\ rank \in Nat
         /\ elem_count(dims) \in Nat
         /\ \A d \in 1 .. rank : dims[d] \in Nat
<1>1. Good(layout) /\ Fits(layout, Len(data)) /\ Len(data) \in Nat
  BY DEF VInv, Fits
<1>2. dims \in Seq(Nat) /\ rank = Len(dims) /\ rank \in Nat /\ \A d \in 1 .. rank : dims[d] \in Nat
  BY <1>1, GoodParts DEF dims, rank
<1>3. elem_count(dims) \in Nat
  BY <1>2, AfterRule
<1> QED BY <1>1, <1>2, <1>3

LEMMA ViewKeeps ==
  ASSUME VInv, NEW l, Fits(l, Len(data)), View(l)
  PROVE  VInv'
<1>1. layout' = l /\ data' = data /\ ops' = ops + 1 /\ ops < MaxOps
  BY DEF View
<1>2. Fits(layout', Len(data'))
  BY <1>1
<1>3. data' \in Seq(Nat) /\ ops' \in Nat /\ ops' <= MaxOps
  BY <1>1, BoundTyped DEF VInv
<1> QED BY <1>2, <1>3 DEF VInv

\* What copy_strided_src of a view with as many elements as the new shape leaves.
LEMMA CopiedKeeps ==
  ASSUME VInv, NEW l, Fits(l, Len(data)), NEW shape \in Seq(Nat),
         elem_count(shape) = elem_count(l.dims), ops < MaxOps, ops' = ops + 1,
         layout' = contiguous_with_offset(shape, 0),
         data' = copy_strided_src(data, [i \in 1 .. elem_count(shape) |-> None], 0, l)
  PROVE  VInv'
<1> DEFINE n == elem_count(shape)
<1>1. n \in Nat
  BY AfterRule
<1>2. data' \in Seq(Nat) /\ Len(data') = n
  <2>1. data \in Seq(Nat)
    BY DEF VInv
  <2> QED BY <2>1, CopyIs
<1>3. Fits(contiguous_with_offset(shape, 0), n)
  <2>1. n # 0 => 0 + n <= n
    BY <1>1
  <2> QED BY <1>1, <2>1, ContigFits
<1>4. Fits(layout', Len(data'))
  BY <1>2, <1>3
<1>5. ops' \in Nat /\ ops' <= MaxOps
  BY BoundTyped DEF VInv
<1> QED BY <1>2, <1>4, <1>5 DEF VInv

LEMMA CopyKeeps ==
  ASSUME VInv, NEW shape \in Seq(Nat), elem_count(shape) = elem_count(dims), CopyOf(shape)
  PROVE  VInv'
<1>1. Fits(layout, Len(data))
  BY DEF VInv
<1> QED BY <1>1, CopiedKeeps DEF CopyOf, dims

LEMMA ReshapeKeeps ==
  ASSUME VInv, NEW shape \in Seq(Nat), ReshapeTo(shape)
  PROVE  VInv'
<1>1. elem_count(shape) = elem_count(dims)
  BY DEF ReshapeTo
<1>2. CASE is_contiguous(layout) /\ View(contiguous_with_offset(shape, layout.start_offset))
  BY <1>1, <1>2, StateTyped, ReshapeFits, ViewKeeps DEF dims
<1>3. CASE CopyOf(shape)
  BY <1>1, <1>3, CopyKeeps
<1> QED BY <1>2, <1>3 DEF ReshapeTo

LEMMA InitFits == Init => VInv
<1> SUFFICES ASSUME Init PROVE VInv
  OBVIOUS
<1>1. PICK shape \in BaseShapes :
        /\ layout = contiguous_with_offset(shape, 0)
        /\ data = [i \in 1 .. elem_count(shape) |-> i] /\ ops = 0
  BY DEF Init
<1>2. shape \in Seq(Nat)
  BY ViewsAssumption DEF ViewsAssumption
<1> DEFINE n == elem_count(shape)
<1>3. n \in Nat
  BY <1>2, AfterRule
<1>4. data \in Seq(Nat) /\ Len(data) = n
  BY <1>3, <1>1, FunIsSeq
<1>5. Fits(contiguous_with_offset(shape, 0), n)
  <2>1. n # 0 => 0 + n <= n
    BY <1>3
  <2> QED BY <1>2, <1>3, <2>1, ContigFits
<1>6. Fits(layout, Len(data))
  BY <1>1, <1>4, <1>5
<1>7. ops \in Nat /\ ops <= MaxOps
  <2>1. ops = 0
    BY <1>1
  <2> QED BY <2>1, BoundTyped
<1> QED BY <1>4, <1>6, <1>7 DEF VInv

LEMMA NarrowKeeps ==
  ASSUME VInv, NEW dim \in Dims, NEW start \in Sizes, NEW len \in Sizes, Narrow(dim, start, len)
  PROVE  VInv'
<1> DEFINE d == to_index(dim, rank)
<1>1. dim \in Int /\ start \in Nat /\ len \in Nat
  BY ViewsAssumption DEF ViewsAssumption
<1>2. d \in 1 .. rank /\ start + len <= dims[d] /\ View(Narrowed(layout, d, start, len))
  BY <1>1, StateTyped, IndexTyped DEF Narrow
<1> HIDE DEF d
<1>3. Fits(Narrowed(layout, d, start, len), Len(data))
  BY <1>1, <1>2, StateTyped, NarrowFits DEF dims, rank
<1> QED BY <1>2, <1>3, ViewKeeps

LEMMA UnfoldKeeps ==
  ASSUME VInv, NEW dim \in Dims, NEW size \in Sizes, NEW step \in Sizes, Unfold(dim, size, step)
  PROVE  VInv'
<1> DEFINE d == to_index(dim, rank)
<1>1. dim \in Int /\ size \in Nat /\ step \in Nat
  BY ViewsAssumption DEF ViewsAssumption
<1>2. d \in 1 .. rank /\ size <= dims[d] /\ step > 0 /\ View(unfold(layout, d, size, step))
  BY <1>1, StateTyped, IndexTyped DEF Unfold
<1> HIDE DEF d
<1>3. Fits(unfold(layout, d, size, step), Len(data))
  BY <1>1, <1>2, StateTyped, UnfoldFits DEF dims, rank
<1> QED BY <1>2, <1>3, ViewKeeps

LEMMA ChunkKeeps ==
  ASSUME VInv, NEW dim \in Dims, NEW chunks \in Sizes, Chunk(dim, chunks)
  PROVE  VInv'
<1> DEFINE d == to_index(dim, rank)
<1>1. dim \in Int /\ chunks \in Nat
  BY ViewsAssumption DEF ViewsAssumption
<1>2. /\ d \in 1 .. rank /\ chunks > 0
      /\ \E b \in ToSet(ChunkBounds(dims[d], chunks)) : View(Narrowed(layout, d, b.start, b.len))
  BY <1>1, StateTyped, IndexTyped DEF Chunk
<1> HIDE DEF d
<1>3. PICK b \in ToSet(ChunkBounds(dims[d], chunks)) : View(Narrowed(layout, d, b.start, b.len))
  BY <1>2
<1>4. b.start \in Nat /\ b.len \in Nat /\ b.start + b.len <= dims[d]
  BY <1>1, <1>2, StateTyped, ChunkWithin
<1>5. Fits(Narrowed(layout, d, b.start, b.len), Len(data))
  BY <1>2, <1>4, StateTyped, NarrowFits DEF dims, rank
<1> QED BY <1>3, <1>5, ViewKeeps

LEMMA TransposeKeeps ==
  ASSUME VInv, NEW dim1 \in Dims, NEW dim2 \in Dims, Transpose(dim1, dim2)
  PROVE  VInv'
<1> DEFINE d1 == to_index(dim1, rank)
           d2 == to_index(dim2, rank)
<1>1. dim1 \in Int /\ dim2 \in Int
  BY ViewsAssumption DEF ViewsAssumption
<1>2. /\ d1 \in 1 .. rank /\ d2 \in 1 .. rank
      /\ View(IF d1 = d2 THEN layout ELSE transpose(layout, d1, d2))
  BY <1>1, StateTyped, IndexTyped DEF Transpose
<1> HIDE DEF d1, d2
<1>3. Fits(transpose(layout, d1, d2), Len(data))
  BY <1>2, StateTyped, TransposeFits DEF dims, rank
<1>4. Fits(IF d1 = d2 THEN layout ELSE transpose(layout, d1, d2), Len(data))
  BY <1>3, StateTyped
<1> QED BY <1>2, <1>4, ViewKeeps

LEMMA FlattenKeeps ==
  ASSUME VInv, NEW dim1 \in Dims, NEW dim2 \in Dims, Flatten(dim1, dim2)
  PROVE  VInv'
<1> DEFINE d1 == to_index(dim1, rank)
           d2 == to_index(dim2, rank)
           flat == SubSeq(dims, 1, d1 - 1) \o <<elem_count(SubSeq(dims, d1, d2))>>
                     \o SubSeq(dims, d2 + 1, rank)
<1>1. dim1 \in Int /\ dim2 \in Int
  BY ViewsAssumption DEF ViewsAssumption
<1>2. CASE rank = 0
  <2>1. ReshapeTo(<<1>>)
    BY <1>2 DEF Flatten
  <2>2. <<1>> \in Seq(Nat)
    OBVIOUS
  <2> QED BY <2>1, <2>2, ReshapeKeeps
<1>3. CASE rank # 0
  <2>1. /\ d1 # None /\ d2 # None
        /\ \/ d1 >= d2 /\ View(layout)
           \/ d1 < d2 /\ ReshapeTo(flat)
    BY <1>3 DEF Flatten
  <2>2. d1 \in 1 .. rank /\ d2 \in 1 .. rank
    BY <1>1, <2>1, StateTyped, IndexTyped
  <2>3. flat \in Seq(Nat)
    <3> HIDE DEF d1, d2
    <3> QED BY <2>2, StateTyped, FlatTyped
  <2> HIDE DEF d1, d2, flat
  <2>4. CASE View(layout)
    BY <2>4, StateTyped, ViewKeeps
  <2>5. CASE ReshapeTo(flat)
    BY <2>3, <2>5, ReshapeKeeps
  <2> QED BY <2>1, <2>4, <2>5
<1> QED BY <1>2, <1>3

LEMMA PermuteKeeps ==
  ASSUME VInv, NEW idxs \in TupleOf(1 .. rank, rank), Permute(idxs)
  PROVE  VInv'
<1>1. idxs \in [1 .. rank -> 1 .. rank]
  BY DEF TupleOf
<1>2. DOMAIN idxs = 1 .. rank /\ \A k \in 1 .. rank : idxs[k] \in 1 .. rank
  BY <1>1
<1>3. Lists(idxs, rank)
  BY <1>2 DEF Permute, is_permutation, ToSet, Lists
<1>4. permute(layout, idxs) = [dims |-> [k \in 1 .. rank |-> dims[idxs[k]]],
                               stride |-> [k \in 1 .. rank |-> layout.stride[idxs[k]]],
                               start_offset |-> layout.start_offset]
  BY <1>2 DEF permute, Layout, dims
<1>5. Fits(permute(layout, idxs), Len(data))
  BY <1>2, <1>3, <1>4, StateTyped, PermuteFits DEF dims, rank
<1> QED BY <1>5, ViewKeeps DEF Permute

LEMMA BroadcastKeeps ==
  ASSUME VInv, NEW shape \in Seq(Nat), BroadcastAs(shape)
  PROVE  VInv'
<1>1. Fits(broadcast_as(layout, shape), Len(data))
  BY StateTyped, BroadcastFits DEF BroadcastAs
<1> QED BY <1>1, ViewKeeps DEF BroadcastAs

LEMMA BroadcastLeftKeeps ==
  ASSUME VInv, NEW shape \in Seq(Nat \cup {None}), BroadcastLeft(shape)
  PROVE  VInv'
<1>1. shape \in Seq(Nat)
  BY SeqFull DEF BroadcastLeft
<1>2. shape \o dims \in Seq(Nat)
  BY <1>1, StateTyped, ConcatIs
<1> QED BY <1>2, BroadcastKeeps DEF BroadcastLeft

LEMMA ShapeKeeps ==
  ASSUME VInv, NEW s \in Seq(Nat \cup {None}), Reshape(s)
  PROVE  VInv'
<1> DEFINE shape == into_shape(s, elem_count(dims))
<1>1. None \notin ToSet(shape) /\ ReshapeTo(shape)
  BY DEF Reshape
<1>2. shape \in Seq(Nat)
  BY <1>1, StateTyped, IntoTyped
<1> QED BY <1>1, <1>2, ReshapeKeeps

LEMMA SqueezeKeeps ==
  ASSUME VInv, NEW dim \in Dims, Squeeze(dim)
  PROVE  VInv'
<1> DEFINE d == to_index(dim, rank)
<1>1. d \in 1 .. rank /\ View(IF dims[d] = 1 THEN squeeze(layout, d) ELSE layout)
  <2>1. dim \in Int
    BY ViewsAssumption DEF ViewsAssumption
  <2> QED BY <2>1, StateTyped, IndexTyped DEF Squeeze
<1> HIDE DEF d
<1>2. CASE dims[d] = 1
  BY <1>1, <1>2, StateTyped, SqueezeFits, ViewKeeps DEF dims, rank
<1>3. CASE dims[d] # 1
  BY <1>1, <1>3, StateTyped, ViewKeeps
<1> QED BY <1>2, <1>3

LEMMA UnsqueezeKeeps ==
  ASSUME VInv, NEW dim \in Dims, Unsqueeze(dim)
  PROVE  VInv'
<1> DEFINE d == to_index_plus_one(dim, rank)
<1>1. d \in 1 .. rank + 1 /\ View(unsqueeze(layout, d))
  <2>1. dim \in Int
    BY ViewsAssumption DEF ViewsAssumption
  <2> QED BY <2>1, StateTyped, IndexTyped DEF Unsqueeze
<1> HIDE DEF d
<1>2. Fits(unsqueeze(layout, d), Len(data))
  BY <1>1, StateTyped, UnsqueezeFits DEF dims, rank
<1> QED BY <1>1, <1>2, ViewKeeps

\* One index of a dimension: the view has 1 there.
LEMMA RowIs ==
  ASSUME VInv, NEW d \in 1 .. rank, NEW i \in Nat, i < dims[d]
  PROVE  /\ Fits(Narrowed(layout, d, i, 1), Len(data))
         /\ Len(Narrowed(layout, d, i, 1).dims) = rank
         /\ \A k \in 1 .. rank :
              Narrowed(layout, d, i, 1).dims[k] = IF k = d THEN 1 ELSE dims[k]
<1>1. Fits(Narrowed(layout, d, i, 1), Len(data))
  BY StateTyped, NarrowFits DEF dims, rank
<1>2. CASE i = 0 /\ dims[d] = 1
  BY <1>2, <1>1 DEF Narrowed, dims, rank
<1>3. CASE ~ (i = 0 /\ dims[d] = 1)
  BY <1>3, StateTyped, <1>1 DEF Narrowed, narrow, Layout, dims, With
<1> QED BY <1>2, <1>3

LEMMA GetOnDimKeeps ==
  ASSUME VInv, NEW dim \in Dims, NEW i \in Sizes, GetOnDim(dim, i)
  PROVE  VInv'
<1> DEFINE d == to_index(dim, rank)
           row == Narrowed(layout, d, i, 1)
<1>1. dim \in Int /\ i \in Nat
  BY ViewsAssumption DEF ViewsAssumption
<1>2. d \in 1 .. rank /\ i < dims[d] /\ View(squeeze(row, d))
  BY <1>1, StateTyped, IndexTyped DEF GetOnDim
<1> HIDE DEF d
<1>3. Fits(row, Len(data)) /\ Len(row.dims) = rank /\ row.dims[d] = 1
  BY <1>1, <1>2, RowIs
<1> HIDE DEF row
<1>4. Fits(squeeze(row, d), Len(data))
  BY <1>2, <1>3, SqueezeFits
<1> QED BY <1>2, <1>4, ViewKeeps

\* A row has as many elements as the dimensions after the first say.
LEMMA RowCount ==
  ASSUME NEW s \in Seq(Nat), NEW r \in Seq(Nat), Len(r) = Len(s), Len(s) > 0, r[1] = 1,
         \A k \in 2 .. Len(s) : r[k] = s[k]
  PROVE  Tail(s) \in Seq(Nat) /\ elem_count(Tail(s)) = elem_count(r)
<1>1. Tail(s) \in Seq(Nat)
  OBVIOUS
<1>2. SubSeq(r, 2, Len(r)) = Tail(s)
  <2>1. /\ SubSeq(r, 2, Len(r)) \in Seq(Nat) /\ Len(SubSeq(r, 2, Len(r))) = Len(r) - 1
        /\ \A k \in 1 .. Len(r) - 1 : SubSeq(r, 2, Len(r))[k] = r[k + 1]
    OBVIOUS
  <2>2. /\ Tail(s) \in Seq(Nat) /\ Len(Tail(s)) = Len(s) - 1
        /\ \A k \in 1 .. Len(s) - 1 : Tail(s)[k] = s[k + 1]
    OBVIOUS
  <2>3. \A k \in 1 .. Len(s) - 1 : r[k + 1] = s[k + 1]
    OBVIOUS
  <2> DEFINE u == SubSeq(r, 2, Len(r))
             v == Tail(s)
  <2>4. u \in Seq(Nat) /\ v \in Seq(Nat) /\ Len(u) = Len(v) /\ \A k \in 1 .. Len(u) : u[k] = v[k]
    BY <2>1, <2>2, <2>3
  <2> HIDE DEF u, v
  <2>5. u = v
    BY <2>4, SeqEqual
  <2> QED BY <2>5 DEF u, v
<1>3. CountAfter(r, 1) = elem_count(Tail(s))
  <2>1. 1 + 1 = 2
    OBVIOUS
  <2> QED BY <1>2, <2>1 DEF CountAfter
<1>4. CountAfter(r, 0) = r[1] * CountAfter(r, 1) /\ CountAfter(r, 0) = elem_count(r)
      /\ CountAfter(r, 1) \in Nat
  BY AfterRule
<1> QED BY <1>1, <1>3, <1>4

LEMMA GetKeeps ==
  ASSUME VInv, NEW i \in Sizes, Get(i)
  PROVE  VInv'
<1> DEFINE row == Narrowed(layout, 1, i, 1)
<1>1. i \in Nat
  BY ViewsAssumption DEF ViewsAssumption
<1>2. 1 \in 1 .. rank /\ i < dims[1]
  BY StateTyped DEF Get
<1>3. /\ Fits(row, Len(data)) /\ Len(row.dims) = rank
      /\ \A k \in 1 .. rank : row.dims[k] = IF k = 1 THEN 1 ELSE dims[k]
  BY <1>1, <1>2, RowIs
<1>4. /\ is_contiguous(row) => View(contiguous_with_offset(Tail(dims), row.start_offset))
      /\ ~ is_contiguous(row) =>
           /\ ops < MaxOps /\ ops' = ops + 1
           /\ layout' = contiguous_with_offset(Tail(dims), 0)
           /\ data' = copy_strided_src(data, [k \in 1 .. elem_count(Tail(dims)) |-> None], 0, row)
  BY DEF Get
<1> HIDE DEF row
<1>5. row.dims \in Seq(Nat)
  BY <1>3, GoodParts DEF Fits
<1>6. Tail(dims) \in Seq(Nat) /\ elem_count(Tail(dims)) = elem_count(row.dims)
  <2>1. Len(row.dims) = Len(dims) /\ Len(dims) > 0 /\ row.dims[1] = 1
        /\ \A k \in 2 .. Len(dims) : row.dims[k] = dims[k]
    BY <1>2, <1>3, StateTyped
  <2> QED BY <1>5, <2>1, StateTyped, RowCount
<1>7. CASE is_contiguous(row)
  BY <1>3, <1>6, <1>7, StateTyped, ReshapeFits, <1>4, ViewKeeps
<1>8. CASE ~ is_contiguous(row)
  BY <1>3, <1>4, <1>6, <1>8, CopiedKeeps
<1> QED BY <1>7, <1>8

LEMMA ForceContiguousKeeps ==
  ASSUME VInv, ForceContiguous
  PROVE  VInv'
BY StateTyped, CopyKeeps DEF ForceContiguous

\* The inductive invariant is kept by every step.
LEMMA StepKeeps ==
  ASSUME VInv, [Next]_vars
  PROVE  VInv'
<1>1. ASSUME NEW dim \in Dims, NEW start \in Sizes, NEW len \in Sizes,
             Narrow(dim, start, len) \/ Unfold(dim, start, len)
      PROVE  VInv'
  BY <1>1, NarrowKeeps, UnfoldKeeps
<1>2. ASSUME NEW dim \in Dims, NEW n \in Sizes, Chunk(dim, n) \/ GetOnDim(dim, n)
      PROVE  VInv'
  BY <1>2, ChunkKeeps, GetOnDimKeeps
<1>3. ASSUME NEW dim1 \in Dims, NEW dim2 \in Dims, Transpose(dim1, dim2) \/ Flatten(dim1, dim2)
      PROVE  VInv'
  BY <1>3, TransposeKeeps, FlattenKeeps
<1>4. ASSUME NEW idxs \in TupleOf(1 .. rank, rank), Permute(idxs)
      PROVE  VInv'
  BY <1>4, PermuteKeeps
<1>5. ASSUME NEW shape \in Shapes, BroadcastAs(shape) \/ BroadcastLeft(shape) \/ Reshape(shape)
      PROVE  VInv'
  <2>1. shape \in Seq(Nat \cup {None})
    BY ViewsAssumption DEF ViewsAssumption
  <2>2. CASE BroadcastAs(shape)
    <3>1. shape \in Seq(Nat)
      BY <2>1, <2>2, SeqFull DEF BroadcastAs
    <3> QED BY <2>2, <3>1, BroadcastKeeps
  <2>3. CASE BroadcastLeft(shape)
    BY <2>1, <2>3, BroadcastLeftKeeps
  <2>4. CASE Reshape(shape)
    BY <2>1, <2>4, ShapeKeeps
  <2> QED BY <1>5, <2>2, <2>3, <2>4
<1>6. ASSUME NEW dim \in Dims, Squeeze(dim) \/ Unsqueeze(dim)
      PROVE  VInv'
  BY <1>6, SqueezeKeeps, UnsqueezeKeeps
<1>7. ASSUME NEW i \in Sizes, Get(i)
      PROVE  VInv'
  BY <1>7, GetKeeps
<1>8. CASE ForceContiguous
  BY <1>8, ForceContiguousKeeps
<1>9. CASE UNCHANGED vars
  BY <1>9 DEF vars, VInv
<1>10. CASE Next
  BY <1>10, <1>1, <1>2, <1>3, <1>4, <1>5, <1>6, <1>7, <1>8 DEF Next
<1> QED BY <1>9, <1>10

\* The indexes that RowMajor lists are indexes of the tensor.
LEMMA PositionsAre ==
  ASSUME NEW s \in Seq(Nat), NEW k \in 1 .. Size(s)
  PROVE  AtPosition(k - 1, s) \in IdxOf(s)
<1> DEFINE i == AtPosition(k - 1, s)
           q == k - 1
<1>1. q \in Nat /\ elem_count(s) # 0 /\ Len(s) \in Nat /\ DOMAIN s = 1 .. Len(s)
  BY AfterRule
<1>2. \A d \in 1 .. Len(s) : s[d] \in Nat \ {0}
  BY <1>1, CountPositive
<1>3. \A d \in 1 .. Len(s) : CountAfter(s, d) \in Nat \ {0}
  <2>1. \A d \in 1 .. Len(s) : s[d] # 0
    BY <1>2
  <2>2. \A d \in 0 .. Len(s) : CountAfter(s, d) # 0
    BY <2>1, CountPositive
  <2>3. \A d \in 0 .. Len(s) : CountAfter(s, d) \in Nat
    BY AfterRule
  <2>4. \A d \in 1 .. Len(s) : d \in 0 .. Len(s)
    BY <1>1
  <2> QED BY <2>2, <2>3, <2>4
<1>4. \A d \in 1 .. Len(s) : i[d] \in Nat /\ i[d] < s[d]
  <2> SUFFICES ASSUME NEW d \in 1 .. Len(s) PROVE i[d] \in Nat /\ i[d] < s[d]
    OBVIOUS
  <2> DEFINE c == CountAfter(s, d)
             y == s[d]
  <2>1. Size(SubSeq(s, d + 1, Len(s))) = c
    <3>1. SubSeq(s, d + 1, Len(s)) \in Seq(Nat)
      BY <1>1
    <3> QED BY <3>1, AfterRule DEF CountAfter
  <2>2. i[d] = (q \div c) % y
    BY <1>1, <2>1 DEF AtPosition
  <2>3. c \in Nat \ {0} /\ y \in Nat \ {0}
    BY <1>2, <1>3
  <2> HIDE DEF c, y, q, i
  <2>4. q \div c \in Nat
    BY <1>1, <2>3
  <2>5. (q \div c) % y \in Nat /\ (q \div c) % y < y
    BY <2>3, <2>4
  <2> QED BY <2>2, <2>5 DEF y
<1>5. DOMAIN i = 1 .. Len(s) /\ i = [d \in 1 .. Len(s) |-> i[d]]
  BY <1>1 DEF AtPosition
<1> HIDE DEF i
<1>6. i \in [1 .. Len(s) -> Nat]
  BY <1>4, <1>5
<1> QED BY <1>1, <1>4, <1>6 DEF IdxOf, i

LEMMA VInvTyped == VInv => TypeOK
<1> SUFFICES ASSUME VInv PROVE TypeOK
  OBVIOUS
<1>1. layout \in [dims : Seq(Nat), stride : Seq(Nat), start_offset : Nat] /\ Len(layout.stride) = rank
  BY StateTyped DEF Good, rank
<1>2. ToSet(data) \subseteq Nat
  BY DEF VInv, ToSet
<1>3. ASSUME NEW k \in 1 .. Size(dims) PROVE RowMajor(layout)[k] < Len(data)
  BY StateTyped, PositionsAre DEF Fits, dims, RowMajor
<1> QED BY <1>1, <1>2, <1>3 DEF TypeOK, VInv

\* Whatever views, reshapes and copies are taken of a tensor, and in whatever
\* order, every element of the result lies within its storage: no layout that
\* tensor.rs and layout.rs compute lets a loop read past the end of the data.
THEOREM ViewsStayWithin == Spec => []TypeOK
<1>1. Init => VInv
  BY InitFits
<1>2. VInv /\ [Next]_vars => VInv'
  BY StepKeeps
<1>3. VInv => TypeOK
  BY VInvTyped
<1> QED BY <1>1, <1>2, <1>3, PTL DEF Spec

-----------------------------------------------------------------------------
(* The position of an index.                                               *)

LEMMA SumSplit ==
  ASSUME NEW m \in Nat, NEW n \in Nat, NEW f, NEW g, Ints(f, m + n),
         \A k \in 1 .. n : g[k] = f[m + k]
  PROVE  SumTo(f, m + n) = SumTo(f, m) + SumTo(g, n)
<1> DEFINE T == {k \in 0 .. n : SumTo(f, m + k) = SumTo(f, m) + SumTo(g, k)}
<1>0. /\ \A k \in 0 .. m + n : SumTo(f, k) \in Int
      /\ \A k \in 0 .. n : SumTo(g, k) \in Int
  <2>1. m + n \in Nat
    OBVIOUS
  <2>2. \A k \in 0 .. m + n : SumTo(f, k) \in Int
    BY <2>1, SumTyped
  <2>3. Ints(g, n)
    BY DEF Ints
  <2> QED BY <2>2, <2>3, SumTyped
<1>1. 0 \in T
  BY SumRule, <1>0
<1>2. ASSUME NEW k \in 1 .. n, k - 1 \in T PROVE k \in T
  <2>1. k \in Nat \ {0} /\ m + k \in Nat \ {0} /\ (m + k) - 1 = m + (k - 1) /\ m + k \in 1 .. m + n
        /\ k - 1 \in 0 .. n /\ m \in 0 .. m + n
    OBVIOUS
  <2>2. SumTo(f, m + k) = SumTo(f, m + (k - 1)) + f[m + k]
    BY <2>1, SumRule
  <2>3. SumTo(g, k) = SumTo(g, k - 1) + g[k]
    BY <2>1, SumRule
  <2>4. SumTo(f, m + (k - 1)) = SumTo(f, m) + SumTo(g, k - 1) /\ g[k] = f[m + k]
    BY <1>2
  <2>5. f[m + k] \in Int /\ SumTo(f, m) \in Int /\ SumTo(g, k - 1) \in Int
    BY <1>0, <2>1 DEF Ints
  <2> HIDE DEF T
  <2>6. SumTo(f, m + k) = SumTo(f, m) + SumTo(g, k)
    BY <2>2, <2>3, <2>4, <2>5
  <2> QED BY <2>6 DEF T
<1> HIDE DEF T
<1>3. 0 .. n \subseteq T
  BY <1>1, <1>2, UpTo
<1>4. n \in 0 .. n
  OBVIOUS
<1> QED BY <1>3, <1>4 DEF T

LEMMA SumScaled ==
  ASSUME NEW n \in Nat, NEW f, NEW g, NEW c \in Int, Ints(f, n), \A k \in 1 .. n : g[k] = f[k] * c
  PROVE  SumTo(g, n) = SumTo(f, n) * c
<1> DEFINE T == {k \in 0 .. n : SumTo(g, k) = SumTo(f, k) * c}
<1>0. \A k \in 0 .. n : SumTo(f, k) \in Int
  BY SumTyped
<1>1. 0 \in T
  BY SumRule
<1>2. ASSUME NEW k \in 1 .. n, k - 1 \in T PROVE k \in T
  <2> DEFINE a == SumTo(f, k - 1)
             b == f[k]
  <2>1. k \in Nat \ {0} /\ k - 1 \in 0 .. n
    OBVIOUS
  <2>2. SumTo(f, k) = a + b /\ SumTo(g, k) = SumTo(g, k - 1) + g[k]
    BY <2>1, SumRule
  <2>3. a \in Int /\ b \in Int
    BY <1>0, <2>1 DEF Ints
  <2>4. SumTo(g, k - 1) = a * c /\ g[k] = b * c
    BY <1>2
  <2> HIDE DEF T, a, b
  <2>5. a * c + b * c = (a + b) * c
    BY <2>3
  <2>6. SumTo(g, k) = SumTo(f, k) * c
    BY <2>2, <2>4, <2>5
  <2> QED BY <2>6 DEF T
<1> HIDE DEF T
<1>3. 0 .. n \subseteq T
  BY <1>1, <1>2, UpTo
<1>4. n \in 0 .. n
  OBVIOUS
<1> QED BY <1>3, <1>4 DEF T

\* n elements of f after the first m.
Piece(f, m, n) == [k \in 1 .. n |-> f[m + k]]

\* A shape without its first m dimensions.
IsRest(w, s, m) == s \in Seq(Nat) /\ m \in 0 .. Len(s) /\ w = SubSeq(s, m + 1, Len(s))

RestParts(w, s, m) ==
  /\ w \in Seq(Nat) /\ Len(w) = Len(s) - m /\ DOMAIN w = 1 .. Len(s) - m
  /\ \A k \in 1 .. Len(s) - m : w[k] = s[m + k]
  /\ elem_count(w) = CountAfter(s, m)
  /\ \A k \in 0 .. Len(s) - m : CountAfter(w, k) = CountAfter(s, m + k)

LEMMA RestIs ==
  ASSUME NEW s, NEW m, NEW w, IsRest(w, s, m)
  PROVE  RestParts(w, s, m)
<1>0. s \in Seq(Nat) /\ m \in 0 .. Len(s) /\ w = SubSeq(s, m + 1, Len(s))
  BY DEF IsRest
<1>1. /\ w \in Seq(Nat) /\ Len(w) = Len(s) - m /\ DOMAIN w = 1 .. Len(s) - m
      /\ \A k \in 1 .. Len(s) - m : w[k] = s[m + k]
  BY <1>0
<1>2. elem_count(w) = CountAfter(s, m)
  BY <1>0, Zenon DEF CountAfter
<1>3. ASSUME NEW k \in 0 .. Len(s) - m PROVE CountAfter(w, k) = CountAfter(s, m + k)
  <2> DEFINE x == SubSeq(w, k + 1, Len(w))
             y == SubSeq(s, (m + k) + 1, Len(s))
             e == Len(s) - m - k
  <2>1. e \in Nat /\ k \in Nat /\ m + k \in Nat /\ m \in Nat
    BY <1>0
  <2>2. y \in Seq(Nat) /\ Len(y) = e /\ \A j \in 1 .. e : y[j] = s[(m + k) + j]
    BY <1>0
  <2>3. x \in Seq(Nat) /\ Len(x) = e /\ \A j \in 1 .. e : x[j] = w[k + j]
    <3> HIDE DEF y
    <3> QED BY <1>1
  <2>4. \A j \in 1 .. e : w[k + j] = s[(m + k) + j]
    <3> SUFFICES ASSUME NEW j \in 1 .. e PROVE w[k + j] = s[(m + k) + j]
      OBVIOUS
    <3>1. k + j \in 1 .. Len(s) - m /\ m + (k + j) = (m + k) + j
      BY <2>1
    <3> QED BY <1>1, <3>1
  <2>5. CountAfter(w, k) = elem_count(x) /\ CountAfter(s, m + k) = elem_count(y)
    BY Zenon DEF CountAfter
  <2> HIDE DEF x, y, e
  <2>6. Len(x) = Len(y) /\ \A j \in 1 .. Len(x) : x[j] = y[j]
    BY <2>2, <2>3, <2>4
  <2>7. x = y
    BY <2>2, <2>3, <2>6, SeqEqual
  <2> QED BY <2>5, <2>7
<1> QED BY <1>1, <1>2, <1>3 DEF RestParts

\* The strides of the first m dimensions, and of the same without the rest.
LEMMA CountSplits ==
  ASSUME NEW s \in Seq(Nat), NEW m \in 0 .. Len(s), NEW k \in 0 .. m
  PROVE  CountAfter(s, k) = CountAfter(SubSeq(s, 1, m), k) * CountAfter(s, m)
<1> DEFINE u == SubSeq(s, 1, m)
           w == SubSeq(s, k + 1, Len(s))
           n == Len(s)
<1>0. n \in Nat /\ m \in 0 .. n /\ k \in 0 .. n /\ m - k \in 0 .. n - k /\ k + (m - k) = m /\ k \in Nat /\ m \in Nat
  OBVIOUS
<1>1. /\ w \in Seq(Nat) /\ Len(w) = n - k
      /\ \A j \in 1 .. n - k : w[j] = s[k + j]
      /\ elem_count(w) = CountAfter(s, k)
      /\ \A j \in 0 .. n - k : CountAfter(w, j) = CountAfter(s, k + j)
  <2>1. IsRest(w, s, k)
    BY <1>0 DEF IsRest
  <2> HIDE DEF w
  <2>2. RestParts(w, s, k)
    BY <2>1, RestIs
  <2> QED BY <2>2 DEF RestParts
<1> HIDE DEF w
<1>2. elem_count(SubSeq(w, 1, m - k)) * CountAfter(w, m - k) = elem_count(w)
  <2> HIDE DEF n
  <2>1. m - k \in 0 .. Len(w)
    BY <1>0, <1>1
  <2> QED BY <1>1, <2>1, CountSplit
<1>3. CountAfter(u, k) = elem_count(SubSeq(w, 1, m - k))
  <2> DEFINE x == SubSeq(u, k + 1, Len(u))
             y == SubSeq(w, 1, m - k)
             e == m - k
  <2>0. e \in Nat /\ e \in 0 .. Len(w)
    BY <1>0, <1>1
  <2>1. u \in Seq(Nat) /\ Len(u) = m /\ \A j \in 1 .. m : u[j] = s[j]
    BY PrefixIs
  <2> HIDE DEF u
  <2>2. x \in Seq(Nat) /\ Len(x) = e /\ \A j \in 1 .. e : x[j] = u[k + j]
    BY <2>1
  <2>3. y \in Seq(Nat) /\ Len(y) = e /\ \A j \in 1 .. e : y[j] = w[j]
    <3> HIDE DEF e
    <3> QED BY <1>1, <2>0, PrefixIs DEF e
  <2>4. \A j \in 1 .. e : u[k + j] = s[k + j] /\ w[j] = s[k + j]
    <3> SUFFICES ASSUME NEW j \in 1 .. e PROVE u[k + j] = s[k + j] /\ w[j] = s[k + j]
      OBVIOUS
    <3>1. k + j \in 1 .. m /\ j \in 1 .. n - k
      BY <1>0
    <3> QED BY <1>1, <2>1, <3>1
  <2>5. CountAfter(u, k) = elem_count(x)
    BY Zenon DEF CountAfter
  <2> HIDE DEF x, y, e
  <2>6. Len(x) = Len(y) /\ \A j \in 1 .. Len(x) : x[j] = y[j]
    BY <2>2, <2>3, <2>4
  <2>7. x = y
    BY <2>2, <2>3, <2>6, SeqEqual
  <2> QED BY <2>5, <2>7 DEF y, e
<1>4. CountAfter(w, m - k) = CountAfter(s, m)
  BY <1>0, <1>1
<1> HIDE DEF u, n
<1> QED BY <1>1, <1>2, <1>3, <1>4 DEF u

PosOf(i, s) == SumTo(Terms(i, Weights(s), Len(s)), Len(s))

LEMMA PosBound ==
  ASSUME NEW s \in Seq(Nat), NEW i \in IdxOf(s)
  PROVE  PosOf(i, s) \in Nat /\ PosOf(i, s) < elem_count(s)
<1> DEFINE n == Len(s)
           f == Terms(i, Weights(s), n)
<1>1. \A k \in 1 .. n : f[k] = i[k] * CountAfter(s, k)
  BY DEF Terms, Weights
<1> HIDE DEF f
<1>2. SumTo(f, n) \in Nat /\ SumTo(f, n) < elem_count(s)
  BY <1>1, ContigBound
<1> QED BY <1>2 DEF PosOf, f

\* An index of a shape is one of its first m dimensions and one of the rest.
LEMMA PiecesAre ==
  ASSUME NEW s \in Seq(Nat), NEW m \in 0 .. Len(s), NEW i \in IdxOf(s)
  PROVE  /\ Piece(i, 0, m) \in IdxOf(SubSeq(s, 1, m))
         /\ Piece(i, m, Len(s) - m) \in IdxOf(SubSeq(s, m + 1, Len(s)))
<1> DEFINE n == Len(s)
           u == SubSeq(s, 1, m)
           w == SubSeq(s, m + 1, n)
           i1 == Piece(i, 0, m)
           i2 == Piece(i, m, n - m)
<1>0. n \in Nat /\ m \in Nat /\ n - m \in Nat
  OBVIOUS
<1>1. \A d \in 1 .. n : i[d] \in Nat /\ s[d] \in Nat /\ i[d] < s[d]
  BY IdxParts
<1>2. u \in Seq(Nat) /\ Len(u) = m /\ DOMAIN u = 1 .. m /\ \A k \in 1 .. m : u[k] = s[k]
  <2>1. u \in Seq(Nat) /\ Len(u) = m /\ \A k \in 1 .. m : u[k] = s[k]
    BY PrefixIs
  <2> HIDE DEF u
  <2> QED BY <2>1, SeqParts
<1>3. DOMAIN w = 1 .. n - m /\ \A k \in 1 .. n - m : w[k] = s[m + k]
  <2>1. IsRest(w, s, m)
    BY DEF IsRest
  <2> HIDE DEF w
  <2>2. RestParts(w, s, m)
    BY <2>1, RestIs
  <2> QED BY <2>2 DEF RestParts
<1> HIDE DEF u, w
<1>4. i1 \in IdxOf(u)
  <2>1. \A k \in 1 .. m : i1[k] = i[k] /\ k \in 1 .. n
    BY <1>0 DEF Piece
  <2>2. i1 = [k \in 1 .. m |-> i1[k]]
    BY DEF Piece
  <2> HIDE DEF i1
  <2>3. \A k \in 1 .. m : i1[k] \in Nat /\ i1[k] < u[k]
    BY <1>1, <1>2, <2>1
  <2>4. i1 \in [1 .. m -> Nat]
    BY <2>2, <2>3
  <2> QED BY <1>2, <2>3, <2>4 DEF IdxOf
<1>5. i2 \in IdxOf(w)
  <2>1. \A k \in 1 .. n - m : i2[k] = i[m + k] /\ m + k \in 1 .. n
    BY <1>0 DEF Piece
  <2>2. i2 = [k \in 1 .. n - m |-> i2[k]]
    BY DEF Piece
  <2> HIDE DEF i2
  <2>3. \A k \in 1 .. n - m : i2[k] \in Nat /\ i2[k] < w[k]
    BY <1>1, <1>3, <2>1
  <2>4. i2 \in [1 .. n - m -> Nat]
    BY <2>2, <2>3
  <2> QED BY <1>3, <2>3, <2>4 DEF IdxOf
<1> QED BY <1>4, <1>5 DEF u, w

\* The sum over an index by strides, in two parts.
LEMMA StrideSplit ==
  ASSUME NEW s \in Seq(Nat), NEW m \in 0 .. Len(s), NEW i \in IdxOf(s),
         NEW stride \in Seq(Nat), Len(stride) = Len(s)
  PROVE  SumTo(Terms(i, stride, Len(s)), Len(s)) =
           SumTo(Terms(Piece(i, 0, m), SubSeq(stride, 1, m), m), m)
             + SumTo(Terms(Piece(i, m, Len(s) - m), SubSeq(stride, m + 1, Len(s)), Len(s) - m), Len(s) - m)
<1> DEFINE n == Len(s)
           r == n - m
           v1 == SubSeq(stride, 1, m)
           v2 == SubSeq(stride, m + 1, n)
           i1 == Piece(i, 0, m)
           i2 == Piece(i, m, r)
           f == Terms(i, stride, n)
           f1 == Terms(i1, v1, m)
           f2 == Terms(i2, v2, r)
<1>0. n \in Nat /\ m \in Nat /\ r \in Nat /\ m + r = n
  OBVIOUS
<1>1. Ints(f, n)
  <2>1. \A k \in 1 .. n : f[k] = i[k] * stride[k] /\ i[k] \in Nat /\ stride[k] \in Nat
    BY IdxParts, SeqParts DEF Terms
  <2> HIDE DEF f
  <2> SUFFICES ASSUME NEW k \in 1 .. n PROVE f[k] \in Int
    BY DEF Ints
  <2> DEFINE a == i[k]
             b == stride[k]
  <2>2. f[k] = a * b /\ a \in Nat /\ b \in Nat
    BY <2>1
  <2> HIDE DEF a, b
  <2> QED BY <2>2
<1>2. \A k \in 1 .. m : f1[k] = f[k]
  <2>1. \A k \in 1 .. m : v1[k] = stride[k]
    <3>1. m \in 0 .. Len(stride)
      BY <1>0
    <3> QED BY <3>1, PrefixIs
  <2>2. \A k \in 1 .. m : i1[k] = i[k] /\ k \in 1 .. n
    BY <1>0 DEF Piece
  <2> HIDE DEF v1, i1
  <2> QED BY <2>1, <2>2 DEF Terms
<1>3. \A k \in 1 .. r : f2[k] = f[m + k]
  <2>1. \A k \in 1 .. r : v2[k] = stride[m + k]
    <3>1. IsRest(v2, stride, m) /\ r = Len(stride) - m
      BY <1>0 DEF IsRest
    <3> HIDE DEF v2, r
    <3>2. RestParts(v2, stride, m)
      BY <3>1, RestIs
    <3> QED BY <3>1, <3>2 DEF RestParts
  <2>2. \A k \in 1 .. r : i2[k] = i[m + k] /\ m + k \in 1 .. n
    BY <1>0 DEF Piece
  <2> HIDE DEF v2, i2, r
  <2> QED BY <2>1, <2>2 DEF Terms
<1> HIDE DEF f, f1, f2, n, r, v1, v2, i1, i2
<1>4. SumTo(f, m + r) = SumTo(f, m) + SumTo(f2, r)
  <2>1. m \in Nat /\ r \in Nat /\ Ints(f, m + r)
    BY <1>0, <1>1
  <2> QED BY <1>3, <2>1, SumSplit
<1>5. SumTo(f1, m) = SumTo(f, m)
  <2>1. Agree(f1, f, m) /\ m \in 0 .. m
    BY <1>0, <1>2 DEF Agree
  <2> QED BY <1>0, <2>1, SumAgrees
<1>6. SumTo(f, n) = SumTo(f1, m) + SumTo(f2, r)
  BY <1>0, <1>4, <1>5
<1> QED BY <1>6 DEF f, f1, f2, n, r, v1, v2, i1, i2

LEMMA PosSplit ==
  ASSUME NEW s \in Seq(Nat), NEW m \in 0 .. Len(s), NEW i \in IdxOf(s)
  PROVE  LET X == PosOf(Piece(i, 0, m), SubSeq(s, 1, m))
             R == PosOf(Piece(i, m, Len(s) - m), SubSeq(s, m + 1, Len(s)))
         IN  /\ PosOf(i, s) = X * CountAfter(s, m) + R
             /\ X \in Nat /\ R \in Nat /\ R < CountAfter(s, m) /\ CountAfter(s, m) \in Nat
             /\ X < elem_count(SubSeq(s, 1, m))
<1> DEFINE n == Len(s)
           r == n - m
           c == CountAfter(s, m)
           u == SubSeq(s, 1, m)
           w == SubSeq(s, m + 1, n)
           ws == Weights(s)
           i1 == Piece(i, 0, m)
           i2 == Piece(i, m, r)
           X == PosOf(i1, u)
           R == PosOf(i2, w)
<1>0. n \in Nat /\ m \in Nat /\ r \in Nat /\ m + r = n /\ c \in Nat
  BY AfterRule
<1>1. u \in Seq(Nat) /\ Len(u) = m
  BY PrefixIs
<1>2. /\ w \in Seq(Nat) /\ Len(w) = r /\ elem_count(w) = c
      /\ \A k \in 0 .. r : CountAfter(w, k) = CountAfter(s, m + k)
  <2>1. IsRest(w, s, m)
    BY DEF IsRest
  <2> HIDE DEF w
  <2>2. RestParts(w, s, m)
    BY <2>1, RestIs
  <2> QED BY <2>2 DEF RestParts
<1>3. i1 \in IdxOf(u) /\ i2 \in IdxOf(w)
  BY PiecesAre
<1>4. ws \in Seq(Nat) /\ Len(ws) = n /\ \A k \in 1 .. n : ws[k] = CountAfter(s, k)
  <2>1. \A k \in 1 .. n : ws[k] = CountAfter(s, k)
    BY DEF Weights
  <2>2. ws = [k \in 1 .. n |-> ws[k]]
    BY DEF Weights
  <2> HIDE DEF ws
  <2>3. \A k \in 1 .. n : ws[k] \in Nat
    BY <2>1, AfterRule
  <2> HIDE DEF n
  <2>4. ws \in [1 .. n -> Nat]
    BY <2>2, <2>3
  <2> QED BY <1>0, <2>1, <2>4, FunIsSeq
<1>5. X \in Nat /\ X < elem_count(u) /\ R \in Nat /\ R < c
  <2> HIDE DEF u, w, i1, i2, c
  <2> QED BY <1>1, <1>2, <1>3, PosBound
<1> DEFINE g1 == Terms(i1, SubSeq(ws, 1, m), m)
           g2 == Terms(i2, SubSeq(ws, m + 1, n), r)
           f1 == Terms(i1, Weights(u), m)
           f2 == Terms(i2, Weights(w), r)
<1>6. PosOf(i, s) = SumTo(g1, m) + SumTo(g2, r)
  <2> HIDE DEF ws
  <2>1. SumTo(Terms(i, ws, Len(s)), Len(s)) =
           SumTo(Terms(Piece(i, 0, m), SubSeq(ws, 1, m), m), m)
             + SumTo(Terms(Piece(i, m, Len(s) - m), SubSeq(ws, m + 1, Len(s)), Len(s) - m), Len(s) - m)
    BY <1>4, StrideSplit
  <2> QED BY <2>1, Zenon DEF PosOf, ws
<1>7. X = SumTo(f1, m) /\ R = SumTo(f2, r)
  <2> HIDE DEF u, w, i1, i2, r
  <2> QED BY <1>1, <1>2, Zenon DEF PosOf
<1>8. SumTo(g1, m) = X * c
  <2>1. \A k \in 1 .. m : i1[k] \in Nat
    <3> HIDE DEF u, i1
    <3> QED BY <1>1, <1>3, IdxParts
  <2>2. \A k \in 1 .. m : SubSeq(ws, 1, m)[k] = CountAfter(u, k) * c
    <3> SUFFICES ASSUME NEW k \in 1 .. m PROVE SubSeq(ws, 1, m)[k] = CountAfter(u, k) * c
      OBVIOUS
    <3>1. SubSeq(ws, 1, m)[k] = ws[k]
      <4>1. m \in 0 .. Len(ws)
        BY <1>0, <1>4
      <4> HIDE DEF ws
      <4> QED BY <1>4, <4>1, PrefixIs
    <3>2. k \in 1 .. n /\ k \in 0 .. m
      BY <1>0
    <3>3. ws[k] = CountAfter(s, k)
      BY <1>4, <3>2
    <3>4. CountAfter(s, k) = CountAfter(u, k) * c
      BY <3>2, CountSplits
    <3> QED BY <3>1, <3>3, <3>4
  <2>3. \A k \in 1 .. m : Weights(u)[k] = CountAfter(u, k) /\ CountAfter(u, k) \in Nat
    <3> HIDE DEF u
    <3>1. \A k \in 1 .. m : k \in 0 .. m
      BY <1>0
    <3> QED BY <1>1, <3>1, AfterRule DEF Weights
  <2>4. \A k \in 1 .. m : g1[k] = i1[k] * SubSeq(ws, 1, m)[k] /\ f1[k] = i1[k] * Weights(u)[k]
    BY DEF Terms
  <2> HIDE DEF g1, f1, u, i1, c, ws
  <2>5. ASSUME NEW k \in 1 .. m PROVE g1[k] = f1[k] * c /\ f1[k] \in Int
    <3> DEFINE a == i1[k]
               b == CountAfter(u, k)
    <3>1. a \in Nat /\ b \in Nat /\ g1[k] = a * (b * c) /\ f1[k] = a * b
      BY <2>1, <2>2, <2>3, <2>4
    <3> HIDE DEF a, b
    <3>2. (a * b) * c = a * (b * c) /\ a * b \in Int
      BY <1>0, <3>1, TimesAssoc
    <3> QED BY <3>1, <3>2
  <2>6. Ints(f1, m) /\ c \in Int
    BY <1>0, <2>5 DEF Ints
  <2>7. SumTo(g1, m) = SumTo(f1, m) * c
    BY <1>0, <2>5, <2>6, SumScaled
  <2> QED BY <1>7, <2>7
<1>9. SumTo(g2, r) = R
  <2>1. \A k \in 1 .. r : SubSeq(ws, m + 1, n)[k] = Weights(w)[k]
    <3> SUFFICES ASSUME NEW k \in 1 .. r PROVE SubSeq(ws, m + 1, n)[k] = Weights(w)[k]
      OBVIOUS
    <3>1. SubSeq(ws, m + 1, n)[k] = ws[m + k]
      <4> DEFINE x == SubSeq(ws, m + 1, n)
      <4>1. IsRest(x, ws, m) /\ k \in 1 .. Len(ws) - m
        BY <1>0, <1>4 DEF IsRest
      <4> HIDE DEF ws, x
      <4>2. x[k] = ws[m + k]
        <5>1. RestParts(x, ws, m)
          BY <4>1, RestIs
        <5> QED BY <4>1, <5>1 DEF RestParts
      <4> QED BY <4>2 DEF x
    <3>2. m + k \in 1 .. n /\ k \in 0 .. r
      BY <1>0
    <3>3. Weights(w)[k] = CountAfter(w, k)
      <4> HIDE DEF w
      <4> QED BY <1>2 DEF Weights
    <3> QED BY <1>2, <1>4, <3>1, <3>2, <3>3
  <2>2. g2 = f2
    <3>1. g2 = [k \in 1 .. r |-> i2[k] * SubSeq(ws, m + 1, n)[k]] /\ f2 = [k \in 1 .. r |-> i2[k] * Weights(w)[k]]
      BY DEF Terms
    <3> HIDE DEF g2, f2, i2, ws, w
    <3> QED BY <2>1, <3>1
  <2> QED BY <1>7, <2>2
<1> HIDE DEF g1, g2, f1, f2, X, R, c
<1>10. PosOf(i, s) = X * c + R
  BY <1>6, <1>8, <1>9
<1> QED BY <1>0, <1>5, <1>10 DEF X, R, c

Splits(x, a, c, b) == a \in Nat /\ c \in Nat \ {0} /\ b \in Nat /\ b < c /\ x = a * c + b

LEMMA DivRule ==
  ASSUME NEW x, NEW a, NEW c, NEW b, Splits(x, a, c, b)
  PROVE  x \div c = a /\ x % c = b
<1> DEFINE q == x \div c
           r == x % c
<1>0. a \in Nat /\ c \in Nat \ {0} /\ b \in Nat /\ b < c /\ x = a * c + b
  BY DEF Splits
<1>1. x \in Nat
  <2> DEFINE y == a * c
  <2>1. y \in Nat
    BY <1>0, Times
  <2>2. x = y + b
    BY <1>0
  <2> HIDE DEF y
  <2> QED BY <1>0, <2>1, <2>2
<1>2. q \in Nat /\ r \in Nat /\ r < c /\ x = q * c + r
  <2>1. q \in Int /\ r \in 0 .. c - 1 /\ x = c * q + r
    BY <1>0, <1>1
  <2> HIDE DEF q, r
  <2>2. c * q = q * c
    BY <1>0, <2>1
  <2>3. q >= 0
    <3> SUFFICES ASSUME q < 0 PROVE FALSE
      BY <2>1
    <3> DEFINE e == -1 - q
               y == c * q
    <3>1. e \in Nat /\ q = -1 - e
      BY <2>1
    <3>2. c * q = -c - c * e
      <4> HIDE DEF e
      <4>1. c * (-1 - e) = -c - c * e
        BY <1>0, <3>1
      <4> QED BY <3>1, <4>1
    <3>3. c * e \in Nat
      <4> HIDE DEF e
      <4> QED BY <1>0, <3>1, Times
    <3> DEFINE z == c * e
    <3>4. z \in Nat /\ y = -c - z /\ x = y + r
      BY <2>1, <3>2, <3>3
    <3> HIDE DEF y, z, e
    <3> QED BY <1>0, <1>1, <2>1, <3>4
  <2> QED BY <1>0, <2>1, <2>2, <2>3
<1> HIDE DEF q, r
<1>3. q * c + r = a * c + b
  BY <1>0, <1>2
<1>4. ASSUME NEW g \in Nat, NEW h \in Nat, g < h, NEW t \in Nat, t < c, NEW w \in Nat,
             g * c + t = h * c + w
      PROVE  FALSE
  <2> DEFINE e == h - g - 1
             y == g * c
             z == e * c
  <2>1. e \in Nat /\ h = g + 1 + e
    BY <1>4
  <2>2. h * c = g * c + c + e * c
    <3> HIDE DEF e
    <3>1. (g + 1 + e) * c = g * c + c + e * c
      BY <1>0, <1>4, <2>1
    <3> QED BY <2>1, <3>1
  <2>3. y \in Nat /\ z \in Nat
    <3> HIDE DEF e
    <3> QED BY <1>0, <1>4, <2>1, Times
  <2>4. y + t = (y + c + z) + w
    BY <1>4, <2>2
  <2> HIDE DEF e, y, z
  <2> QED BY <1>0, <1>4, <2>3, <2>4
<1>5. ~ (q < a)
  BY <1>0, <1>2, <1>3, <1>4
<1>6. ~ (a < q)
  BY <1>0, <1>2, <1>3, <1>4
<1>7. q = a
  BY <1>0, <1>2, <1>5, <1>6
<1>8. r = b
  <2> DEFINE y == a * c
  <2>1. y \in Nat /\ y + r = y + b
    BY <1>0, <1>3, <1>7, Times
  <2> HIDE DEF y
  <2> QED BY <1>0, <1>2, <2>1
<1> QED BY <1>7, <1>8 DEF q, r

\* An index with a dimension has no dimension of size 0.
LEMMA IdxPositive ==
  ASSUME NEW s \in Seq(Nat), NEW i \in IdxOf(s)
  PROVE  /\ elem_count(s) # 0 /\ \A d \in 1 .. Len(s) : s[d] \in Nat \ {0}
         /\ \A d \in 0 .. Len(s) : CountAfter(s, d) \in Nat \ {0}
<1>1. \A d \in 1 .. Len(s) : s[d] \in Nat \ {0}
  BY IdxParts
<1>2. \A d \in 0 .. Len(s) : CountAfter(s, d) # 0
  BY <1>1, CountPositive
<1>3. /\ \A d \in 0 .. Len(s) : CountAfter(s, d) \in Nat
      /\ CountAfter(s, 0) = elem_count(s) /\ 0 \in 0 .. Len(s)
  BY AfterRule
<1> QED BY <1>1, <1>2, <1>3

\* An index of one dimension is its position.
LEMMA PosOne ==
  ASSUME NEW s \in Seq(Nat), Len(s) = 1, NEW i \in IdxOf(s)
  PROVE  PosOf(i, s) = i[1]
<1> DEFINE f == Terms(i, Weights(s), 1)
<1>1. f[1] = i[1] * CountAfter(s, 1) /\ CountAfter(s, 1) = 1 /\ i[1] \in Nat
  BY AfterRule, IdxParts DEF Terms, Weights
<1>2. PosOf(i, s) = SumTo(f, 1)
  BY DEF PosOf
<1> HIDE DEF f
<1>3. SumTo(f, 0) = 0 /\ SumTo(f, 1) = SumTo(f, 1 - 1) + f[1] /\ 1 - 1 = 0
  <2>1. 1 \in Nat \ {0}
    OBVIOUS
  <2> QED BY <2>1, SumRule
<1> QED BY <1>1, <1>2, <1>3

LEMMA PosInverse ==
  ASSUME NEW s \in Seq(Nat), NEW i \in IdxOf(s)
  PROVE  AtPosition(PosOf(i, s), s) = i
<1> DEFINE n == Len(s)
           p == PosOf(i, s)
<1>0. n \in Nat /\ DOMAIN s = 1 .. n /\ DOMAIN i = 1 .. n /\ i = [d \in 1 .. n |-> i[d]]
  BY SeqParts, IdxParts DEF IdxOf
<1>1. ASSUME NEW d \in 1 .. n
      PROVE  (p \div Size(SubSeq(s, d + 1, Len(s)))) % s[d] = i[d]
  <2> DEFINE u == SubSeq(s, 1, d)
             c == CountAfter(s, d)
             i1 == Piece(i, 0, d)
             X == PosOf(i1, u)
             R == PosOf(Piece(i, d, n - d), SubSeq(s, d + 1, n))
  <2>0. d \in 0 .. n /\ d \in Nat /\ d - 1 \in 0 .. d
    BY <1>0
  <2>1. Size(SubSeq(s, d + 1, Len(s))) = c
    <3>1. SubSeq(s, d + 1, Len(s)) \in Seq(Nat)
      BY <2>0
    <3> QED BY <3>1, AfterRule DEF CountAfter
  <2>2. p = X * c + R /\ X \in Nat /\ R \in Nat /\ R < c
    BY <2>0, PosSplit
  <2>3. c \in Nat \ {0} /\ s[d] \in Nat \ {0}
    BY <2>0, IdxPositive
  <2>4. p \div c = X
    <3>1. Splits(p, X, c, R)
      BY <2>2, <2>3 DEF Splits
    <3> HIDE DEF p, X, c, R
    <3> QED BY <3>1, DivRule, Zenon
  <2>5. X % s[d] = i[d]
    <3> DEFINE w == SubSeq(u, (d - 1) + 1, d)
               i2 == Piece(i1, d - 1, d - (d - 1))
               Y == PosOf(Piece(i1, 0, d - 1), SubSeq(u, 1, d - 1))
               Q == PosOf(i2, w)
    <3>1. u \in Seq(Nat) /\ Len(u) = d /\ u[d] = s[d]
      BY <2>0, PrefixIs
    <3>2. i1 \in IdxOf(u)
      BY <2>0, PiecesAre
    <3>3. i1[d] = i[d]
      BY <2>0 DEF Piece
    <3> HIDE DEF u, i1
    <3>4. X = Y * CountAfter(u, d - 1) + Q /\ Y \in Nat
      BY <2>0, <3>1, <3>2, PosSplit
    <3>5. CountAfter(u, d - 1) = s[d]
      <4>1. CountAfter(u, d) = 1 /\ CountAfter(u, d - 1) = u[d] * CountAfter(u, d)
        <5>1. d \in 1 .. Len(u)
          BY <2>0, <3>1
        <5> QED BY <3>1, <5>1, AfterRule
      <4> QED BY <2>3, <3>1, <4>1
    <3>6. Q = i[d]
      <4>1. w \in Seq(Nat) /\ Len(w) = 1 /\ i2 \in IdxOf(w)
        <5>1. w = SubSeq(u, (d - 1) + 1, Len(u)) /\ Len(u) - (d - 1) = d - (d - 1) /\ d - (d - 1) = 1
          BY <2>0, <3>1
        <5>2. d - 1 \in 0 .. Len(u)
          BY <2>0, <3>1
        <5>3. i2 = Piece(i1, d - 1, Len(u) - (d - 1))
          BY <5>1
        <5> HIDE DEF w, i2
        <5>4. w \in Seq(Nat) /\ Len(w) = Len(u) - (d - 1)
          BY <3>1, <5>1, <5>2, RestIs DEF IsRest, RestParts
        <5>5. i2 \in IdxOf(w)
          BY <3>1, <3>2, <5>1, <5>2, <5>3, PiecesAre
        <5> QED BY <5>1, <5>4, <5>5
      <4>2. i2[1] = i1[d]
        BY <2>0 DEF Piece
      <4> HIDE DEF w, i2
      <4>3. Q = i2[1]
        BY <4>1, PosOne
      <4> QED BY <3>3, <4>2, <4>3
    <3>7. i[d] \in Nat /\ i[d] < s[d]
      BY IdxParts
    <3> DEFINE z == s[d]
               y == i[d]
    <3>8. X = Y * z + y
      BY <3>4, <3>5, <3>6
    <3>9. Y \in Nat /\ z \in Nat \ {0} /\ y \in Nat /\ y < z
      BY <2>3, <3>4, <3>7
    <3> HIDE DEF X, Y, Q, z, y
    <3>10. Splits(X, Y, z, y)
      BY <3>8, <3>9 DEF Splits
    <3>11. X % z = y
      BY <3>10, DivRule, Zenon
    <3> QED BY <3>11 DEF z, y
  <2> QED BY <2>1, <2>4, <2>5
<1>2. AtPosition(p, s) = [d \in 1 .. n |-> (p \div Size(SubSeq(s, d + 1, Len(s)))) % s[d]]
  BY <1>0 DEF AtPosition
<1> HIDE DEF p, n
<1>3. AtPosition(p, s) = i
  BY <1>0, <1>1, <1>2
<1> QED BY <1>3 DEF p

\* AtPosition gives the index of a position.
LEMMA PositionIs ==
  ASSUME NEW s \in Seq(Nat), NEW q \in Nat, q < elem_count(s)
  PROVE  AtPosition(q, s) \in IdxOf(s) /\ PosOf(AtPosition(q, s), s) = q
<1> DEFINE r == StridedIndex(s, s, 0)
<1>1. elem_count(s) \in Nat
  BY AfterRule
<1>2. IsReads(r, s, s, 0)
  BY IteratorReads
<1>3. q + 1 \in 1 .. elem_count(s) /\ (q + 1) - 1 = q
  BY <1>1
<1> HIDE DEF r
<1>4. PICK i \in IdxOf(s) : PosOf(i, s) = q
  BY <1>2, <1>3 DEF IsReads, Got, PosOf
<1> QED BY <1>4, PosInverse

\* Row-major order, by addresses.
LEMMA RowMajorIs ==
  ASSUME NEW l, Good(l)
  PROVE  LET n == elem_count(l.dims) IN
         /\ n \in Nat /\ DOMAIN RowMajor(l) = 1 .. n
         /\ RowMajor(l) = [k \in 1 .. n |-> RowMajor(l)[k]]
         /\ \A k \in 1 .. n :
              /\ AtPosition(k - 1, l.dims) \in IdxOf(l.dims)
              /\ PosOf(AtPosition(k - 1, l.dims), l.dims) = k - 1
              /\ RowMajor(l)[k] = Address(l, AtPosition(k - 1, l.dims))
              /\ RowMajor(l)[k] = l.start_offset
                   + SumTo(Terms(AtPosition(k - 1, l.dims), l.stride, Len(l.dims)), Len(l.dims))
<1> DEFINE s == l.dims
           n == elem_count(s)
<1>1. s \in Seq(Nat) /\ Len(s) \in Nat /\ DOMAIN s = 1 .. Len(s) /\ n \in Nat /\ Size(s) = n
  BY GoodParts, AfterRule
<1>2. RowMajor(l) = [k \in 1 .. n |-> Address(l, AtPosition(k - 1, s))]
  BY <1>1 DEF RowMajor
<1> HIDE DEF n
<1>3. ASSUME NEW k \in 1 .. n
      PROVE  /\ AtPosition(k - 1, s) \in IdxOf(s) /\ PosOf(AtPosition(k - 1, s), s) = k - 1
             /\ Address(l, AtPosition(k - 1, s)) = l.start_offset
                   + SumTo(Terms(AtPosition(k - 1, s), l.stride, Len(s)), Len(s))
  BY <1>1, PositionIs, AddressIs DEF n
<1>4. \A k \in 1 .. n : RowMajor(l)[k] = Address(l, AtPosition(k - 1, s))
  BY <1>2
<1>5. DOMAIN RowMajor(l) = 1 .. n /\ RowMajor(l) = [k \in 1 .. n |-> RowMajor(l)[k]]
  BY <1>2
<1>6. \A k \in 1 .. n : RowMajor(l)[k] = l.start_offset
                   + SumTo(Terms(AtPosition(k - 1, s), l.stride, Len(s)), Len(s))
  BY <1>3, <1>4
<1> QED BY <1>1, <1>3, <1>4, <1>5, <1>6 DEF n

\* The iterator goes through a layout in row-major order.
LEMMA IteratorInOrder ==
  ASSUME NEW l, Good(l)
  PROVE  strided_index(l) = RowMajor(l)
<1> DEFINE s == l.dims
           n == elem_count(s)
           r == strided_index(l)
           e == RowMajor(l)
<1>1. s \in Seq(Nat) /\ l.stride \in Seq(Nat) /\ Len(l.stride) = Len(s) /\ l.start_offset \in Nat
  BY GoodParts
<1>2. IsReads(r, s, l.stride, l.start_offset)
  BY <1>1, IteratorReads DEF strided_index
<1>3. /\ n \in Nat /\ e = [k \in 1 .. n |-> e[k]]
      /\ \A k \in 1 .. n : e[k] = l.start_offset
                   + SumTo(Terms(AtPosition(k - 1, s), l.stride, Len(s)), Len(s))
  BY RowMajorIs
<1> HIDE DEF r, e
<1>4. /\ r \in Seq(Nat) /\ Len(r) = n
      /\ \A j \in 1 .. n :
          \E i \in IdxOf(s) : /\ r[j] = l.start_offset + SumTo(Terms(i, l.stride, Len(s)), Len(s))
                             /\ PosOf(i, s) = j - 1
  BY <1>2 DEF IsReads, Got, PosOf
<1> HIDE DEF n
<1>5. ASSUME NEW k \in 1 .. n PROVE r[k] = e[k]
  <2>1. PICK i \in IdxOf(s) : /\ r[k] = l.start_offset + SumTo(Terms(i, l.stride, Len(s)), Len(s))
                             /\ PosOf(i, s) = k - 1
    BY <1>4
  <2>2. AtPosition(k - 1, s) = i
    BY <1>1, <2>1, PosInverse
  <2> QED BY <1>3, <2>1, <2>2
<1>6. r = [k \in 1 .. n |-> r[k]]
  BY <1>4
<1>7. r = e
  BY <1>3, <1>5, <1>6
<1> QED BY <1>7 DEF r, e

-----------------------------------------------------------------------------
(* Loops over one tensor.                                                  *)

\* The elements of r are those of k sequences of the same length.
FlatAt(r, seqs, k, len) ==
  /\ r \in Seq(Nat) /\ Len(r) = k * len
  /\ \A a \in 1 .. k, b \in 1 .. len : r[(a - 1) * len + b] = seqs[a][b]

LEMMA FlattenAre ==
  ASSUME NEW seqs, NEW m \in Nat, NEW len \in Nat, DOMAIN seqs = 1 .. m, Len(seqs) = m,
         \A i \in 1 .. m : seqs[i] \in Seq(Nat) /\ Len(seqs[i]) = len, m = 0 => seqs = <<>>
  PROVE  FlatAt(FlattenSeq(seqs), seqs, m, len)
<1>1. CASE m = 0
  BY <1>1 DEF FlattenSeq, FlatAt
<1>2. CASE m # 0
  <2> DEFINE g == CHOOSE h : IsFlatten(h, seqs, m)
  <2>1. FlattenSeq(seqs) = g[m]
    BY <1>2, Zenon DEF FlattenSeq, IsFlatten
  <2>2. IsFlatten(g, seqs, m)
    BY FlattenExists
  <2> HIDE DEF g
  <2>3. \A i \in 1 .. m : g[i] = IF i = 1 THEN seqs[i] ELSE g[i - 1] \o seqs[i]
    BY <2>2, Zenon DEF IsFlatten
  <2> DEFINE T == {k \in 0 .. m : k # 0 => FlatAt(g[k], seqs, k, len)}
  <2>4. 0 \in T
    OBVIOUS
  <2>5. ASSUME NEW k \in 1 .. m, k - 1 \in T PROVE k \in T
    <3>1. CASE k = 1
      <4> DEFINE y == seqs[1]
      <4>1. g[1] = y /\ y \in Seq(Nat) /\ Len(y) = len /\ 1 * len = len
        BY <2>3, <3>1
      <4> HIDE DEF y, T
      <4>2. ASSUME NEW a \in 1 .. 1, NEW b \in 1 .. len PROVE y[(a - 1) * len + b] = seqs[a][b]
        BY DEF y
      <4>3. FlatAt(y, seqs, 1, len)
        BY <4>1, <4>2 DEF FlatAt
      <4> QED BY <3>1, <4>1, <4>3 DEF T
    <3>2. CASE k # 1
      <4> DEFINE x == g[k - 1]
                 y == seqs[k]
      <4>1. g[k] = x \o y
        BY <2>3, <3>2
      <4>2. FlatAt(x, seqs, k - 1, len) /\ y \in Seq(Nat) /\ Len(y) = len
        BY <2>5, <3>2
      <4> HIDE DEF x, y, T
      <4>3. /\ x \in Seq(Nat) /\ Len(x) = (k - 1) * len
            /\ \A a \in 1 .. k - 1, b \in 1 .. len : x[(a - 1) * len + b] = seqs[a][b]
        BY <4>2 DEF FlatAt
      <4>4. (k - 1) * len + len = k * len /\ k - 1 \in Nat
        OBVIOUS
      <4>5. x \o y \in Seq(Nat) /\ Len(x \o y) = Len(x) + Len(y)
        BY <4>2, <4>3, ConcatIs, Zenon
      <4>6. /\ \A j \in 1 .. Len(x) : (x \o y)[j] = x[j]
            /\ \A j \in 1 .. Len(y) : (x \o y)[Len(x) + j] = y[j]
        BY <4>2, <4>3, ConcatIs, Zenon
      <4>7. ASSUME NEW a \in 1 .. k, NEW b \in 1 .. len
            PROVE  (x \o y)[(a - 1) * len + b] = seqs[a][b]
        <5>1. CASE a = k
          BY <4>2, <4>3, <4>6, <5>1 DEF y
        <5>2. CASE a # k
          <6> DEFINE j == (a - 1) * len + b
                     e == (k - 1) - a
                     z1 == (a - 1) * len
                     z2 == e * len
          <6>1. a \in 1 .. k - 1 /\ e \in Nat /\ a - 1 \in Nat /\ k - 1 = (a - 1) + 1 + e
            BY <5>2
          <6>2. (k - 1) * len = z1 + len + z2
            <7> HIDE DEF e
            <7>1. ((a - 1) + 1 + e) * len = (a - 1) * len + len + e * len
              BY <6>1
            <7> QED BY <6>1, <7>1
          <6>3. z1 \in Nat /\ z2 \in Nat
            <7> HIDE DEF e
            <7> QED BY <6>1, Times
          <6>4. j = z1 + b /\ Len(x) = z1 + len + z2
            BY <4>3, <6>2
          <6> HIDE DEF e, z1, z2, j
          <6>5. j \in 1 .. Len(x)
            BY <6>3, <6>4
          <6>6. (x \o y)[j] = x[j]
            BY <4>6, <6>5
          <6> QED BY <4>3, <6>1, <6>6 DEF j
        <5> QED BY <5>1, <5>2
      <4>8. FlatAt(x \o y, seqs, k, len)
        <5> DEFINE z == x \o y
        <5>1. Len(z) = k * len
          BY <4>2, <4>3, <4>4, <4>5
        <5>2. z \in Seq(Nat)
          BY <4>5
        <5>3. \A a \in 1 .. k, b \in 1 .. len : z[(a - 1) * len + b] = seqs[a][b]
          BY <4>7
        <5> HIDE DEF z
        <5>4. FlatAt(z, seqs, k, len)
          BY <5>1, <5>2, <5>3 DEF FlatAt
        <5> QED BY <5>4 DEF z
      <4>9. FlatAt(g[k], seqs, k, len)
        BY <4>1, <4>8, Zenon
      <4>10. k \in 0 .. m
        OBVIOUS
      <4> QED BY <4>9, <4>10, Zenon DEF T
    <3> QED BY <3>1, <3>2
  <2> HIDE DEF T
  <2>6. 0 .. m \subseteq T
    BY <2>4, <2>5, UpTo
  <2>7. m \in T
    BY <2>6
  <2> QED BY <1>2, <2>1, <2>7 DEF T
<1> QED BY <1>1, <1>2

\* The sum over an index when the dimensions after m have no gaps.
LEMMA TailSum ==
  ASSUME NEW s \in Seq(Nat), NEW m \in 0 .. Len(s), NEW i \in IdxOf(s),
         NEW stride \in Seq(Nat), Len(stride) = Len(s),
         \A k \in 1 .. Len(s) : k > m => stride[k] = CountAfter(s, k)
  PROVE  SumTo(Terms(i, stride, Len(s)), Len(s)) =
           SumTo(Terms(Piece(i, 0, m), SubSeq(stride, 1, m), m), m)
             + PosOf(Piece(i, m, Len(s) - m), SubSeq(s, m + 1, Len(s)))
<1> DEFINE n == Len(s)
           r == n - m
           w == SubSeq(s, m + 1, n)
           v2 == SubSeq(stride, m + 1, n)
           i2 == Piece(i, m, r)
           f1 == SumTo(Terms(Piece(i, 0, m), SubSeq(stride, 1, m), m), m)
<1>0. n \in Nat /\ m \in Nat /\ r \in Nat /\ m + r = n
  OBVIOUS
<1>1. /\ w \in Seq(Nat) /\ Len(w) = r /\ \A k \in 0 .. r : CountAfter(w, k) = CountAfter(s, m + k)
  <2>1. IsRest(w, s, m)
    BY DEF IsRest
  <2> HIDE DEF w
  <2>2. RestParts(w, s, m)
    BY <2>1, RestIs
  <2> QED BY <2>2 DEF RestParts
<1>2. ASSUME NEW k \in 1 .. r PROVE v2[k] = Weights(w)[k]
  <2>1. v2[k] = stride[m + k]
    <3>1. IsRest(v2, stride, m) /\ k \in 1 .. Len(stride) - m
      BY <1>0 DEF IsRest
    <3> HIDE DEF v2, r
    <3>2. RestParts(v2, stride, m)
      BY <3>1, RestIs
    <3> QED BY <3>1, <3>2 DEF RestParts
  <2>2. m + k \in 1 .. n /\ m + k > m /\ k \in 0 .. r
    BY <1>0
  <2>3. Weights(w)[k] = CountAfter(w, k)
    <3> HIDE DEF w
    <3> QED BY <1>1 DEF Weights
  <2> HIDE DEF w, v2, r
  <2> QED BY <1>1, <2>1, <2>2, <2>3
<1>3. Terms(i2, v2, r) = Terms(i2, Weights(w), r)
  <2> HIDE DEF i2, v2, w, r
  <2> QED BY <1>2 DEF Terms
<1>4. PosOf(i2, w) = SumTo(Terms(i2, Weights(w), r), r)
  <2> HIDE DEF i2, w, r
  <2> QED BY <1>1, Zenon DEF PosOf
<1>5. SumTo(Terms(i, stride, n), n) = f1 + SumTo(Terms(i2, v2, r), r)
  BY StrideSplit, Zenon
<1> HIDE DEF f1, i2, v2, w, r, n
<1>6. SumTo(Terms(i, stride, n), n) = f1 + PosOf(i2, w)
  BY <1>3, <1>4, <1>5
<1> QED BY <1>6 DEF f1, i2, v2, w, r, n

\* The blocks that strided_blocks finds start in row-major order.
LEMMA StartsAre ==
  ASSUME NEW l, Good(l), NEW m \in 0 .. Len(l.dims)
  PROVE  IsReads(BlocksAfter(l, m).starts, SubSeq(l.dims, 1, m), SubSeq(l.stride, 1, m), l.start_offset)
<1> DEFINE s == l.dims
           o == l.start_offset
           u == SubSeq(s, 1, m)
           v == SubSeq(l.stride, 1, m)
           starts == BlocksAfter(l, m).starts
<1>1. s \in Seq(Nat) /\ l.stride \in Seq(Nat) /\ o \in Nat /\ Len(l.stride) = Len(s)
  BY GoodParts
<1>2. u \in Seq(Nat) /\ Len(u) = m /\ v \in Seq(Nat) /\ Len(v) = m
  BY <1>1, PrefixIs
<1>3. starts = IF m = 0 THEN <<o>> ELSE StridedIndex(u, v, o)
  BY DEF BlocksAfter
<1> HIDE DEF u, v, starts, s
<1>4. CASE m # 0
  BY <1>1, <1>2, IteratorReads, <1>3, <1>4 DEF u, v, starts, s
<1>5. CASE m = 0
  <2> DEFINE i == [d \in DOMAIN u |-> 0]
  <2>1. DOMAIN u = {} /\ i \in IdxOf(u)
    BY <1>2, <1>5 DEF IdxOf
  <2> HIDE DEF i
  <2>2. elem_count(u) = 1
    BY <1>2, AfterRule, <1>5
  <2>3. SumTo(Terms(i, v, 0), 0) = 0 /\ SumTo(Terms(i, Weights(u), 0), 0) = 0
    BY SumRule
  <2>4. <<o>> \in Seq(Nat) /\ Len(<<o>>) = 1 /\ <<o>>[1] = o
    BY <1>1
  <2>5. ASSUME NEW j \in 1 .. 1
        PROVE  /\ <<o>>[j] = o + SumTo(Terms(i, v, Len(u)), Len(u))
               /\ SumTo(Terms(i, Weights(u), Len(u)), Len(u)) = j - 1
    BY <1>1, <1>2, <1>5, <2>3, <2>4
  <2>6. Got(<<o>>, u, v, o, 1)
    BY <2>1, <2>4, <2>5 DEF Got
  <2>7. IsReads(starts, u, v, o)
    BY <1>3, <1>5, <2>2, <2>6, Zenon DEF IsReads
  <2> QED BY <2>7 DEF u, v, starts, s
<1> QED BY <1>4, <1>5

\* Block by block, a loop over one tensor goes through it in row-major order.
LEMMA LoopInOrder ==
  ASSUME NEW l, Good(l)
  PROVE  unary_map(l) = RowMajor(l)
<1> DEFINE s == l.dims
           n == Len(s)
           N == elem_count(s)
           o == l.start_offset
           m == n - contiguous_dims(l)
           b == BlocksAfter(l, m)
           starts == b.starts
           len == CountAfter(s, m)
           u == SubSeq(s, 1, m)
           v == SubSeq(l.stride, 1, m)
           seqs == [i \in DOMAIN starts |-> Block(starts[i], b.len)]
           r == FlattenSeq(seqs)
           e == RowMajor(l)
<1>1. s \in Seq(Nat) /\ l.stride \in Seq(Nat) /\ o \in Nat /\ n \in Nat /\ Len(l.stride) = n
  BY GoodParts
<1>2. m \in 0 .. n /\ \A k \in 1 .. n : k > m => l.stride[k] = CountAfter(s, k)
  <2>1. /\ contiguous_dims(l) \in 0 .. n
        /\ \A k \in 1 .. n : k > n - contiguous_dims(l) => l.stride[k] = CountAfter(s, k)
    BY ContigDims
  <2>2. m \in 0 .. n
    <3> DEFINE c == contiguous_dims(l)
    <3> HIDE DEF c, n
    <3> QED BY <1>1, <2>1 DEF c
  <2> QED BY <2>1, <2>2
<1>3. unary_map(l) = r
  BY Zenon DEF unary_map, InBlocks, strided_blocks
<1> HIDE DEF m
<1>4. b.len = len /\ len \in Nat
  BY <1>1, <1>2, AfterRule DEF BlocksAfter
<1>5. IsReads(starts, u, v, o)
  <2> HIDE DEF b
  <2> QED BY <1>2, StartsAre DEF b
<1>6. u \in Seq(Nat) /\ Len(u) = m /\ v \in Seq(Nat) /\ Len(v) = m /\ m \in Nat
  BY <1>1, <1>2, PrefixIs
<1> HIDE DEF b, u, v, len
<1> DEFINE M == elem_count(u)
<1>7. /\ starts \in Seq(Nat) /\ Len(starts) = M /\ M \in Nat /\ DOMAIN starts = 1 .. M
      /\ \A j \in 1 .. M : \E i \in IdxOf(u) : /\ starts[j] = o + SumTo(Terms(i, v, m), m)
                                              /\ PosOf(i, u) = j - 1
  BY <1>5, <1>6, AfterRule DEF IsReads, Got, PosOf
<1>8. M * len = N
  BY <1>1, <1>2, CountSplit DEF u, len
<1> HIDE DEF starts, M
<1>9. seqs = [j \in 1 .. M |-> [k \in 1 .. len |-> starts[j] + k - 1]]
  BY <1>4, <1>7 DEF Block
<1> HIDE DEF seqs
<1>10. ASSUME NEW j \in 1 .. M
       PROVE  /\ seqs[j] \in Seq(Nat) /\ Len(seqs[j]) = len
              /\ \A k \in 1 .. len : seqs[j][k] = starts[j] + k - 1
  <2> DEFINE a == starts[j]
             x == seqs[j]
  <2>1. x = [k \in 1 .. len |-> a + k - 1] /\ a \in Nat
    BY <1>7, <1>9
  <2> HIDE DEF a, x
  <2>2. x \in [1 .. len -> Nat] /\ \A k \in 1 .. len : x[k] = a + k - 1
    BY <1>4, <2>1
  <2>3. x \in Seq(Nat) /\ Len(x) = len
    BY <1>4, <2>2, FunIsSeq
  <2> QED BY <2>2, <2>3 DEF a, x
<1>11. FlatAt(r, seqs, M, len)
  <2>1. DOMAIN seqs = 1 .. M /\ Len(seqs) = M
    BY <1>7, <1>9
  <2>2. M = 0 => seqs = <<>>
    <3>1. SUFFICES ASSUME M = 0 PROVE seqs = <<>>
      OBVIOUS
    <3>2. 1 .. M = {}
      BY <3>1
    <3> QED BY <1>9, <3>2
  <2> QED BY <1>4, <1>7, <1>10, <2>1, <2>2, FlattenAre
<1>12. /\ N \in Nat /\ e = [k \in 1 .. N |-> e[k]]
       /\ \A k \in 1 .. N :
            /\ AtPosition(k - 1, s) \in IdxOf(s) /\ PosOf(AtPosition(k - 1, s), s) = k - 1
            /\ e[k] = o + SumTo(Terms(AtPosition(k - 1, s), l.stride, n), n)
  BY RowMajorIs
<1> HIDE DEF e, r, N
<1>13. r \in Seq(Nat) /\ Len(r) = N
  BY <1>8, <1>11 DEF FlatAt
<1>14. ASSUME NEW k \in 1 .. N PROVE r[k] = e[k]
  <2> DEFINE i == AtPosition(k - 1, s)
             i1 == Piece(i, 0, m)
             X == PosOf(i1, u)
             R == PosOf(Piece(i, m, n - m), SubSeq(s, m + 1, n))
  <2>1. i \in IdxOf(s) /\ PosOf(i, s) = k - 1 /\ e[k] = o + SumTo(Terms(i, l.stride, n), n)
    BY <1>12
  <2> HIDE DEF i
  <2>2. k - 1 = X * len + R /\ X \in Nat /\ R \in Nat /\ R < len /\ X < M
    BY <1>1, <1>2, <2>1, PosSplit DEF u, len, M
  <2>3. i1 \in IdxOf(u)
    BY <1>1, <1>2, <2>1, PiecesAre DEF u
  <2>4. SumTo(Terms(i, l.stride, n), n) = SumTo(Terms(i1, v, m), m) + R
    BY <1>1, <1>2, <2>1, TailSum DEF v
  <2> HIDE DEF i1, X, R
  <2>5. X + 1 \in 1 .. M /\ R + 1 \in 1 .. len /\ (X + 1) - 1 = X
    BY <1>4, <1>7, <2>2
  <2>6. PICK i3 \in IdxOf(u) : /\ starts[X + 1] = o + SumTo(Terms(i3, v, m), m)
                               /\ PosOf(i3, u) = X
    BY <1>7, <2>5
  <2>7. i3 = i1
    BY <1>6, <2>6, PosInverse, <2>3 DEF X
  <2>8. r[X * len + (R + 1)] = seqs[X + 1][R + 1]
    BY <1>11, <2>5 DEF FlatAt
  <2>9. seqs[X + 1][R + 1] = starts[X + 1] + (R + 1) - 1 /\ starts[X + 1] \in Nat
    <3> DEFINE j == X + 1
               j1 == R + 1
    <3>1. j \in 1 .. M /\ j1 \in 1 .. len
      BY <2>5
    <3> HIDE DEF j, j1
    <3>2. seqs[j][j1] = starts[j] + j1 - 1
      BY <1>10, <3>1, Zenon
    <3>3. starts[j] \in Nat
      BY <1>7, <3>1
    <3> QED BY <3>2, <3>3 DEF j, j1
  <2>10. X * len + (R + 1) = k
    <3> DEFINE y == X * len
    <3>1. y \in Nat /\ k - 1 = y + R
      BY <1>4, <2>2, Times
    <3> HIDE DEF y
    <3>2. y + (R + 1) = k
      BY <1>12, <2>2, <3>1
    <3> QED BY <3>2 DEF y
  <2> DEFINE z == SumTo(Terms(i1, v, m), m)
  <2>11. starts[X + 1] = o + z /\ e[k] = o + (z + R) /\ r[k] = starts[X + 1] + (R + 1) - 1
    BY <2>1, <2>4, <2>6, <2>7, <2>8, <2>9, <2>10
  <2>12. z \in Nat
    <3> DEFINE l1 == [dims |-> u, stride |-> v, start_offset |-> o]
    <3>1. Good(l1) /\ l1.dims = u /\ l1.stride = v
      BY <1>1, <1>6 DEF Good
    <3> HIDE DEF l1
    <3> QED BY <1>6, <2>3, <3>1, TermsTyped
  <2> HIDE DEF z, o
  <2> QED BY <1>1, <2>2, <2>9, <2>11, <2>12
<1>15. r = [k \in 1 .. N |-> r[k]]
  BY <1>13
<1>16. r = e
  BY <1>12, <1>14, <1>15
<1> QED BY <1>3, <1>16 DEF e

-----------------------------------------------------------------------------
(* Loops over two tensors.                                                 *)

\* In a contiguous layout the strides lead to the position.
LEMMA ContigOrder ==
  ASSUME NEW l, Good(l), is_contiguous(l), NEW i \in IdxOf(l.dims)
  PROVE  SumTo(Terms(i, l.stride, Len(l.dims)), Len(l.dims)) = PosOf(i, l.dims)
<1> DEFINE s == l.dims
           n == Len(s)
           f == Terms(i, l.stride, n)
           g == Terms(i, Weights(s), n)
<1>1. s \in Seq(Nat) /\ n \in Nat /\ DOMAIN s = 1 .. n /\ \A d \in 1 .. n : s[d] \in Nat /\ l.stride[d] \in Nat
  BY GoodParts
<1>2. \A d \in 0 .. n : CountAfter(s, d) \in Nat
  BY <1>1, AfterRule
<1>3. ASSUME NEW d \in 1 .. n PROVE f[d] = g[d]
  <2> DEFINE x == i[d]
             a == l.stride[d]
             c == CountAfter(s, d)
  <2>1. f[d] = x * a /\ g[d] = x * c
    BY DEF Terms, Weights
  <2>2. x \in Nat /\ x < s[d] /\ a \in Nat /\ c \in Nat /\ s[d] \in Nat
    BY <1>1, <1>2, IdxParts
  <2>3. s[d] > 1 => a = c
    BY <1>1 DEF is_contiguous
  <2> HIDE DEF x, a, c, f, g
  <2>4. CASE s[d] > 1
    BY <2>1, <2>3, <2>4
  <2>5. CASE ~(s[d] > 1)
    <3>1. x = 0
      BY <2>2, <2>5
    <3> QED BY <2>1, <2>2, <3>1
  <2> QED BY <2>4, <2>5
<1>4. Agree(f, g, n) /\ n \in 0 .. n
  BY <1>1, <1>3 DEF Agree
<1> HIDE DEF f, g
<1>5. SumTo(f, n) = SumTo(g, n)
  BY <1>1, <1>4, SumAgrees
<1> QED BY <1>5 DEF f, g, PosOf

\* The slice of a contiguous tensor is the tensor in row-major order.
LEMMA SliceInOrder ==
  ASSUME NEW l, Good(l), is_contiguous(l)
  PROVE  LET c == contiguous_offsets(l)
         IN  c.from # None /\ c.to - c.from = elem_count(l.dims) /\ Run(c) = RowMajor(l)
<1> DEFINE s == l.dims
           N == elem_count(s)
           o == l.start_offset
           c == contiguous_offsets(l)
           e == RowMajor(l)
<1>1. o \in Nat /\ N \in Nat
  BY GoodParts, AfterRule
<1>2. c.from = o /\ c.to = o + N
  BY DEF contiguous_offsets
<1>3. /\ e = [k \in 1 .. N |-> e[k]]
      /\ \A k \in 1 .. N :
           /\ AtPosition(k - 1, s) \in IdxOf(s) /\ PosOf(AtPosition(k - 1, s), s) = k - 1
           /\ e[k] = o + SumTo(Terms(AtPosition(k - 1, s), l.stride, Len(s)), Len(s))
  BY RowMajorIs
<1> HIDE DEF c, e, N
<1>4. c.from # None /\ c.to - c.from = N
  BY <1>1, <1>2 DEF None
<1>5. ASSUME NEW k \in 1 .. N PROVE e[k] = o + k - 1
  BY <1>3, ContigOrder, <1>1
<1>6. Run(c) = [k \in 1 .. N |-> o + k - 1]
  BY <1>2, <1>4 DEF Run, Block
<1>7. Run(c) = e
  BY <1>3, <1>5, <1>6
<1> QED BY <1>4, <1>7 DEF c, e, N

\* q is the position of element b of a repeated block, in its round a.
Inside(ob, q, a, b, c) ==
  /\ ob.start \in Nat /\ ob.len \in Nat /\ ob.left_broadcast \in Nat /\ ob.right_broadcast \in Nat
  /\ a \in Nat /\ b \in Nat /\ c \in Nat
  /\ a < ob.left_broadcast /\ b < ob.len /\ c < ob.right_broadcast
  /\ q = (a * ob.len + b) * ob.right_broadcast + c

LEMMA BlockRead ==
  ASSUME NEW ob, NEW q, NEW a, NEW b, NEW c, Inside(ob, q, a, b, c)
  PROVE  InBlock(ob, q + 1) = ob.start + b /\ InBlockVec(ob, q + 1) = ob.start + b
<1> DEFINE n == ob.len
           lb == ob.left_broadcast
           rb == ob.right_broadcast
           x == a * n + b
           y == b * rb + c
           z == n * rb
<1>1. /\ n \in Nat \ {0} /\ lb \in Nat /\ rb \in Nat \ {0} /\ a \in Nat /\ b \in Nat /\ c \in Nat
      /\ a < lb /\ b < n /\ c < rb /\ q = x * rb + c /\ ob.start \in Nat
  BY DEF Inside
<1> HIDE DEF n, lb, rb
<1>2. x \in Nat /\ y \in Nat /\ z \in Nat \ {0}
  BY <1>1, Times
<1>3. x \div n = a /\ x % n = b
  <2>1. Splits(x, a, n, b)
    BY <1>1 DEF Splits
  <2> HIDE DEF x
  <2> QED BY <2>1, DivRule, Zenon
<1>4. q \div rb = x /\ q % rb = c
  <2> HIDE DEF x
  <2>1. Splits(q, x, rb, c)
    BY <1>1, <1>2 DEF Splits
  <2> QED BY <2>1, DivRule, Zenon
<1>5. q = a * z + y /\ y < z
  <2>1. x * rb = a * z + b * rb
    <3>1. (a * n + b) * rb = (a * n) * rb + b * rb
      <4> DEFINE w == a * n
      <4>1. w \in Nat
        BY <1>1, Times
      <4> HIDE DEF w
      <4>2. (w + b) * rb = w * rb + b * rb
        BY <1>1, <4>1
      <4> QED BY <4>2 DEF w
    <3>2. (a * n) * rb = a * (n * rb)
      BY <1>1, TimesAssoc
    <3> QED BY <3>1, <3>2
  <2>2. b * rb + rb <= n * rb
    <3> DEFINE d == n - (b + 1)
    <3>1. d \in Nat /\ n = b + 1 + d
      BY <1>1
    <3> HIDE DEF d
    <3>2. (b + 1 + d) * rb = b * rb + rb + d * rb /\ d * rb \in Nat /\ b * rb \in Nat
      BY <1>1, <3>1, Times
    <3> QED BY <1>1, <3>1, <3>2
  <2> DEFINE w == b * rb
             t == a * z
  <2>3. w \in Nat /\ t \in Nat
    <3> HIDE DEF z
    <3> QED BY <1>1, <1>2, Times
  <2>4. x * rb = t + w /\ w + rb <= z /\ y = w + c
    BY <2>1, <2>2
  <2> HIDE DEF w, t, x, y, z
  <2>5. q = t + y /\ y < z
    BY <1>1, <1>2, <2>3, <2>4
  <2> QED BY <2>5 DEF t
<1>6. q \div z = a /\ q % z = y
  <2> HIDE DEF y, z, x
  <2>1. Splits(q, a, z, y)
    BY <1>1, <1>2, <1>5 DEF Splits
  <2> QED BY <2>1, DivRule, Zenon
<1>7. y \div rb = b
  <2>1. Splits(y, b, rb, c)
    BY <1>1 DEF Splits
  <2> HIDE DEF y
  <2> QED BY <2>1, DivRule, Zenon
<1>8. q \in Nat /\ (q + 1) - 1 = q
  <2> DEFINE t == a * z
  <2>1. t \in Nat
    <3> HIDE DEF z
    <3> QED BY <1>1, <1>2, Times
  <2> HIDE DEF y, z
  <2>2. q = t + y
    BY <1>5
  <2> HIDE DEF t
  <2> QED BY <1>2, <2>1, <2>2
<1>9. q + 1 <= lb * z
  <2> DEFINE e == lb - (a + 1)
             t == a * z
             w == e * z
  <2>1. e \in Nat /\ lb = a + 1 + e
    BY <1>1
  <2> HIDE DEF e, z, y
  <2>2. (a + 1 + e) * z = t + z + w /\ t \in Nat /\ w \in Nat
    BY <1>1, <1>2, <2>1, Times
  <2>3. q = t + y /\ lb * z = t + z + w
    BY <1>5, <2>1, <2>2
  <2> HIDE DEF t, w
  <2>4. q + 1 <= t + z + w
    BY <1>2, <1>5, <2>2, <2>3
  <2> QED BY <2>3, <2>4
<1>10. lb * n * rb = lb * z
  BY <1>1, TimesAssoc
<1> HIDE DEF x, y
<1>11. InBlock(ob, q + 1) = ob.start + b
  BY <1>3, <1>4, <1>8 DEF InBlock, rb, n
<1>12. InBlockVec(ob, q + 1) = ob.start + b
  <2>1. CASE rb = 1
    <3>1. q = x /\ q % n = b
      BY <1>1, <2>1, <1>2, <1>3
    <3>2. InBlockVec(ob, q + 1) = ob.start + (((q + 1) - 1) % n)
      BY <2>1, Zenon DEF InBlockVec, rb, n
    <3> QED BY <1>8, <3>1, <3>2
  <2>2. CASE rb # 1
    <3>1. q + 1 <= lb * n * rb
      BY <1>9, <1>10
    <3>2. InBlockVec(ob, q + 1) = ob.start + ((((q + 1) - 1) % (n * rb)) \div rb)
      BY <2>2, <3>1, Zenon DEF InBlockVec, lb, rb, n
    <3> QED BY <1>6, <1>7, <1>8, <3>2
  <2> QED BY <2>1, <2>2
<1> QED BY <1>11, <1>12

\* A block of l between the first m and the dimensions after k, of stride 0.
Between(l, ob, m, k) ==
  /\ m \in 0 .. Len(l.dims) /\ k \in m .. Len(l.dims)
  /\ \A d \in 1 .. m : l.stride[d] = 0
  /\ \A d \in k + 1 .. Len(l.dims) : l.stride[d] = 0
  /\ ob = BlockBetween(l, m, k, SubSeq(l.dims, m + 1, k))

\* The searches of offsets_b end.
LEMMA OffsetsAre ==
  ASSUME NEW l, Good(l)
  PROVE  \E m, k : Between(l, offsets_b(l), m, k)
<1> DEFINE n == Len(l.dims)
           AtFirst(j) == (\A i \in 1 .. j : l.stride[i] = 0) /\ (j = n \/ l.stride[j + 1] # 0)
           m == CHOOSE j \in 0 .. n : AtFirst(j)
           AtLast(j) == (\A i \in j + 1 .. n : l.stride[i] = 0) /\ (j = m \/ l.stride[j] # 0)
           k == CHOOSE j \in m .. n : AtLast(j)
<1>1. n \in Nat
  BY GoodParts
<1>2. \E j \in 0 .. n : AtFirst(j)
  <2> DEFINE T == {j \in 0 .. n : j = n \/ l.stride[j + 1] # 0}
  <2>1. T \in SUBSET Nat /\ T # {}
    BY <1>1
  <2>2. PICK j \in T : \A i \in T : j <= i
    <3> HIDE DEF T
    <3> QED BY <2>1, NatMin
  <2>3. j \in 0 .. n /\ (j = n \/ l.stride[j + 1] # 0)
    OBVIOUS
  <2>4. ASSUME NEW i \in 1 .. j PROVE l.stride[i] = 0
    <3>1. i - 1 \in 0 .. n /\ i - 1 # n /\ (i - 1) + 1 = i /\ ~(j <= i - 1)
      BY <1>1, <2>3
    <3>2. i - 1 \notin T
      <4> HIDE DEF T
      <4> QED BY <2>2, <3>1
    <3> QED BY <3>1, <3>2
  <2> QED BY <2>3, <2>4
<1>3. m \in 0 .. n /\ AtFirst(m)
  <2> HIDE DEF AtFirst
  <2> QED BY <1>2
<1> HIDE DEF m
<1>4. \E j \in m .. n : AtLast(j)
  <2> DEFINE T == {j \in m .. n : \A i \in j + 1 .. n : l.stride[i] = 0}
  <2>1. T \in SUBSET Nat /\ n \in T
    BY <1>1, <1>3
  <2>2. PICK j \in T : \A i \in T : j <= i
    <3> HIDE DEF T
    <3> QED BY <2>1, NatMin
  <2>3. j \in m .. n /\ \A i \in j + 1 .. n : l.stride[i] = 0
    OBVIOUS
  <2>4. ASSUME j # m PROVE l.stride[j] # 0
    <3> SUFFICES ASSUME l.stride[j] = 0 PROVE FALSE
      OBVIOUS
    <3>1. j - 1 \in m .. n /\ ~(j <= j - 1) /\ j \in Nat
      BY <1>1, <1>3, <2>3, <2>4
    <3>2. ASSUME NEW i \in (j - 1) + 1 .. n PROVE l.stride[i] = 0
      BY <3>1, <2>3
    <3>3. j - 1 \in T
      BY <3>1, <3>2
    <3> HIDE DEF T
    <3> QED BY <2>2, <3>1, <3>3
  <2> QED BY <2>3, <2>4
<1>5. k \in m .. n /\ AtLast(k)
  <2> HIDE DEF AtLast
  <2> QED BY <1>4
<1> HIDE DEF k
<1>6. offsets_b(l) = BlockBetween(l, m, k, SubSeq(l.dims, m + 1, k))
  <2>1. offsets_b(l) = BlockFrom(l, m)
    BY Zenon DEF offsets_b, m
  <2>2. BlockFrom(l, m) = BlockBetween(l, m, k, SubSeq(l.dims, m + 1, k))
    BY Zenon DEF BlockFrom, k
  <2> QED BY <2>1, <2>2
<1>7. Between(l, offsets_b(l), m, k)
  BY <1>3, <1>5, <1>6 DEF Between
<1> QED BY <1>7

\* Terms that are all 0 add up to 0.
LEMMA NoStride ==
  ASSUME NEW n \in Nat, NEW i, \A d \in 1 .. n : i[d] \in Nat, NEW stride, \A d \in 1 .. n : stride[d] = 0
  PROVE  SumTo(Terms(i, stride, n), n) = 0
<1> DEFINE f == Terms(i, stride, n)
<1>1. \A d \in 1 .. n : f[d] = 0
  BY DEF Terms
<1> HIDE DEF f
<1>2. 0 \in 0 .. n /\ Ints(f, n) /\ \A d \in 1 .. n : d > 0 => f[d] = 0
  BY <1>1 DEF Ints
<1>3. SumTo(f, n) = SumTo(f, 0)
  BY <1>2, SumTrailing
<1> QED BY <1>3, SumRule DEF f

\* u is s up to k; m is a place in it.
FrontOf(u, s, k, m) == s \in Seq(Nat) /\ k \in 0 .. Len(s) /\ m \in 0 .. k /\ u = SubSeq(s, 1, k)

\* The dimensions from m on, without those after k.
InnerParts(u, s, k, m) ==
  /\ u \in Seq(Nat) /\ Len(u) = k /\ m \in 0 .. Len(u)
  /\ SubSeq(u, 1, m) = SubSeq(s, 1, m)
  /\ SubSeq(u, m + 1, k) = SubSeq(s, m + 1, k)
  /\ CountAfter(u, m) = elem_count(SubSeq(s, m + 1, k))

LEMMA InnerIs ==
  ASSUME NEW s, NEW k, NEW m, NEW u, FrontOf(u, s, k, m)
  PROVE  InnerParts(u, s, k, m)
<1>0. s \in Seq(Nat) /\ k \in 0 .. Len(s) /\ m \in 0 .. k /\ u = SubSeq(s, 1, k)
  BY DEF FrontOf
<1>1. u \in Seq(Nat) /\ Len(u) = k /\ m \in 0 .. Len(u) /\ \A j \in 1 .. k : u[j] = s[j]
  BY <1>0, PrefixIs
<1>2. m \in Nat /\ k \in Nat /\ m <= k /\ Len(s) \in Nat /\ m \in 0 .. Len(s)
  BY <1>0
<1>3. SubSeq(u, 1, m) = SubSeq(s, 1, m)
  <2> DEFINE x == SubSeq(u, 1, m)
             y == SubSeq(s, 1, m)
  <2>1. x \in Seq(Nat) /\ Len(x) = m /\ \A j \in 1 .. m : x[j] = u[j]
    BY <1>1, PrefixIs
  <2>2. y \in Seq(Nat) /\ Len(y) = m /\ \A j \in 1 .. m : y[j] = s[j]
    BY <1>0, <1>2, PrefixIs
  <2> HIDE DEF x, y
  <2>3. Len(x) = Len(y)
    BY <2>1, <2>2
  <2>4. ASSUME NEW j \in 1 .. Len(x) PROVE x[j] = y[j]
    BY <1>2, <2>1, <1>1, <2>2
  <2>5. x = y
    BY <2>1, <2>2, <2>3, <2>4, SeqEqual
  <2> QED BY <2>5 DEF x, y
<1>4. SubSeq(u, m + 1, k) = SubSeq(s, m + 1, k)
  <2> DEFINE x == SubSeq(u, m + 1, k)
             y == SubSeq(s, m + 1, k)
  <2>1. x \in Seq(Nat) /\ Len(x) = k - m /\ \A j \in 1 .. k - m : x[j] = u[m + j]
    BY <1>1, <1>2
  <2>2. y \in Seq(Nat) /\ Len(y) = k - m /\ \A j \in 1 .. k - m : y[j] = s[m + j]
    <3>1. k <= Len(s) /\ m + 1 \in 1 .. Len(s) + 1
      BY <1>0, <1>2
    <3>2. /\ y \in Seq(Nat) /\ Len(y) = IF m + 1 <= k THEN k - (m + 1) + 1 ELSE 0
          /\ \A j \in 1 .. k - (m + 1) + 1 : y[j] = s[(m + 1) + j - 1]
      BY <1>0, <1>2, <3>1
    <3> HIDE DEF y
    <3> QED BY <1>2, <3>2
  <2> HIDE DEF x, y
  <2>3. Len(x) = Len(y)
    BY <2>1, <2>2
  <2>4. ASSUME NEW j \in 1 .. Len(x) PROVE x[j] = y[j]
    <3>1. j \in 1 .. k - m /\ m + j \in 1 .. k
      BY <1>2, <2>1
    <3> QED BY <1>1, <2>1, <2>2, <3>1
  <2>5. x = y
    BY <2>1, <2>2, <2>3, <2>4, SeqEqual
  <2> QED BY <2>5 DEF x, y
<1>5. CountAfter(u, m) = elem_count(SubSeq(s, m + 1, k))
  BY <1>1, <1>4, Zenon DEF CountAfter
<1> QED BY <1>1, <1>3, <1>4, <1>5, Zenon DEF InnerParts

\* The repeated block of an operand is the operand in row-major order.
LEMMA RepeatsInOrder ==
  ASSUME NEW l, Good(l), offsets_b(l).some, NEW vec \in BOOLEAN
  PROVE  Repeats(offsets_b(l), elem_count(l.dims), vec) = RowMajor(l)
<1> DEFINE s == l.dims
           t == l.stride
           n == Len(s)
           N == elem_count(s)
           o == l.start_offset
           e == RowMajor(l)
           ob == offsets_b(l)
<1>1. s \in Seq(Nat) /\ t \in Seq(Nat) /\ o \in Nat /\ n \in Nat /\ Len(t) = n
  BY GoodParts
<1>2. PICK m, k : Between(l, ob, m, k)
  BY OffsetsAre
<1> DEFINE u == SubSeq(s, 1, k)
           v == SubSeq(t, 1, k)
           w == SubSeq(s, m + 1, k)
<1>3. /\ m \in 0 .. n /\ k \in m .. n /\ k \in 0 .. n /\ m \in 0 .. k
      /\ \A d \in 1 .. m : t[d] = 0
      /\ \A d \in k + 1 .. n : t[d] = 0
      /\ ob = BlockBetween(l, m, k, w)
  <2>1. m \in 0 .. n /\ k \in m .. n /\ ob = BlockBetween(l, m, k, w)
    BY <1>2 DEF Between
  <2>2. (\A d \in 1 .. m : t[d] = 0) /\ \A d \in k + 1 .. n : t[d] = 0
    BY <1>2 DEF Between
  <2> HIDE DEF ob, w
  <2>3. k \in 0 .. n /\ m \in 0 .. k
    BY <1>1, <2>1
  <2> QED BY <2>1, <2>2, <2>3
<1>4. /\ ob.start = o /\ ob.len = elem_count(w)
      /\ ob.left_broadcast = elem_count(SubSeq(s, 1, m)) /\ ob.right_broadcast = CountAfter(s, k)
      /\ \A d \in DOMAIN w : t[m + d] = CountAfter(w, d)
  <2> HIDE DEF w
  <2>1. BlockBetween(l, m, k, w) =
          [some |-> \A d \in DOMAIN w : t[m + d] = CountAfter(w, d),
           start |-> o, len |-> elem_count(w),
           left_broadcast |-> elem_count(SubSeq(s, 1, m)),
           right_broadcast |-> CountAfter(s, k)]
    BY Zenon DEF BlockBetween
  <2>2. ob.some
    OBVIOUS
  <2> HIDE DEF ob
  <2> QED BY <1>3, <2>1, <2>2
<1> HIDE DEF ob
<1>5. /\ u \in Seq(Nat) /\ Len(u) = k /\ m \in 0 .. Len(u)
      /\ SubSeq(u, 1, m) = SubSeq(s, 1, m) /\ SubSeq(u, m + 1, k) = w
      /\ CountAfter(u, m) = elem_count(w)
  <2>1. u = SubSeq(s, 1, k)
    OBVIOUS
  <2> HIDE DEF u
  <2>2. /\ u \in Seq(Nat) /\ Len(u) = k /\ m \in 0 .. Len(u)
        /\ SubSeq(u, 1, m) = SubSeq(s, 1, m) /\ SubSeq(u, m + 1, k) = SubSeq(s, m + 1, k)
        /\ CountAfter(u, m) = elem_count(SubSeq(s, m + 1, k))
    <3>1. FrontOf(u, s, k, m)
      BY <1>1, <1>3, <2>1 DEF FrontOf
    <3> HIDE DEF s, w
    <3>2. InnerParts(u, s, k, m)
      BY <3>1, InnerIs, Zenon
    <3> QED BY <3>2, Zenon DEF InnerParts
  <2> QED BY <2>2
<1>6. v \in Seq(Nat) /\ Len(v) = k /\ \A d \in 1 .. k : v[d] = t[d]
  BY <1>1, <1>3, PrefixIs
<1>7. w \in Seq(Nat) /\ Len(w) = k - m /\ DOMAIN w = 1 .. k - m
      /\ \A d \in 0 .. k - m : CountAfter(w, d) = CountAfter(u, m + d)
  <2>1. IsRest(w, u, m)
    BY <1>5 DEF IsRest
  <2> HIDE DEF w, u
  <2>2. RestParts(w, u, m)
    BY <2>1, RestIs
  <2> QED BY <1>5, <2>2 DEF RestParts
<1> HIDE DEF u, v, w
<1>8. ASSUME NEW d \in 1 .. Len(u), d > m PROVE v[d] = CountAfter(u, d)
  <2>1. d \in 1 .. k /\ d - m \in 1 .. k - m /\ d - m \in 0 .. k - m /\ m + (d - m) = d
    BY <1>1, <1>3, <1>5, <1>8
  <2>2. t[m + (d - m)] = CountAfter(w, d - m)
    BY <1>4, <1>7, <2>1
  <2>3. CountAfter(w, d - m) = CountAfter(u, m + (d - m))
    BY <1>7, <2>1
  <2> QED BY <1>6, <2>1, <2>2, <2>3
<1>9. ASSUME NEW i \in IdxOf(s)
      PROVE  \E a, b, c : /\ Inside(ob, PosOf(i, s), a, b, c)
                          /\ o + SumTo(Terms(i, t, n), n) = ob.start + b
  <2> DEFINE i1 == Piece(i, 0, k)
             i2 == Piece(i, k, n - k)
             i3 == Piece(i1, 0, m)
             i4 == Piece(i1, m, k - m)
             X == PosOf(i1, u)
             a == PosOf(i3, SubSeq(u, 1, m))
             b == PosOf(i4, w)
             c == PosOf(i2, SubSeq(s, k + 1, n))
  <2>1. i1 \in IdxOf(u) /\ \A d \in 1 .. n - k : i2[d] \in Nat
    <3>1. i1 \in IdxOf(u)
      BY <1>1, <1>3, PiecesAre DEF u
    <3>2. ASSUME NEW d \in 1 .. n - k PROVE i2[d] \in Nat
      BY <1>1, <1>3, IdxParts DEF Piece
    <3> QED BY <3>1, <3>2
  <2>2. /\ PosOf(i, s) = X * CountAfter(s, k) + c
        /\ X \in Nat /\ c \in Nat /\ c < CountAfter(s, k) /\ CountAfter(s, k) \in Nat
    BY <1>1, <1>3, PosSplit DEF u
  <2> HIDE DEF i1
  <2>3. /\ X = a * CountAfter(u, m) + b
        /\ a \in Nat /\ b \in Nat /\ b < CountAfter(u, m) /\ CountAfter(u, m) \in Nat
        /\ a < elem_count(SubSeq(u, 1, m))
    BY <1>5, <2>1, PosSplit
  <2>4. SumTo(Terms(i, t, n), n) = b
    <3> DEFINE f1 == SumTo(Terms(i1, v, k), k)
               t2 == SubSeq(t, k + 1, n)
               f2 == SumTo(Terms(i2, t2, n - k), n - k)
               f3 == SumTo(Terms(i3, SubSeq(v, 1, m), m), m)
    <3>1. SumTo(Terms(i, t, n), n) = f1 + f2
      BY <1>1, <1>3, StrideSplit DEF i1, v
    <3>2. f2 = 0
      <4>1. n - k \in Nat /\ k \in 0 .. Len(t)
        BY <1>1, <1>3
      <4>2. ASSUME NEW d \in 1 .. n - k PROVE t2[d] = 0
        <5>1. IsRest(t2, t, k) /\ d \in 1 .. Len(t) - k /\ k + d \in k + 1 .. n
          BY <1>1, <1>3, <4>1 DEF IsRest
        <5>2. t[k + d] = 0
          BY <1>3, <5>1
        <5> HIDE DEF t2
        <5>3. RestParts(t2, t, k)
          BY <5>1, RestIs
        <5>4. t2[d] = t[k + d]
          BY <5>1, <5>3 DEF RestParts
        <5> QED BY <5>2, <5>4
      <4> HIDE DEF i2, t2
      <4> QED BY <2>1, <4>1, <4>2, NoStride
    <3>3. f1 = f3 + b
      BY <1>5, <1>6, <1>8, <2>1, TailSum
    <3>4. f3 = 0
      <4>1. ASSUME NEW d \in 1 .. m PROVE i3[d] \in Nat /\ SubSeq(v, 1, m)[d] = 0
        <5>1. d \in 1 .. k /\ m \in 0 .. Len(v)
          BY <1>3, <1>6
        <5>2. SubSeq(v, 1, m)[d] = v[d] /\ v[d] = t[d] /\ t[d] = 0
          BY <1>3, <1>6, <5>1, PrefixIs
        <5>3. i3[d] = i1[0 + d] /\ 0 + d = d
          BY DEF Piece
        <5>4. i1[d] \in Nat
          BY <1>5, <2>1, <5>1, IdxParts
        <5> QED BY <5>2, <5>3, <5>4
      <4>2. m \in Nat
        BY <1>3
      <4> DEFINE v1 == SubSeq(v, 1, m)
      <4>3. \A d \in 1 .. m : i3[d] \in Nat /\ v1[d] = 0
        BY <4>1
      <4> HIDE DEF i3, v1
      <4>4. SumTo(Terms(i3, v1, m), m) = 0
        BY <4>2, <4>3, NoStride
      <4> QED BY <4>4 DEF v1
    <3> HIDE DEF f1, f2, f3, b
    <3> QED BY <2>3, <3>1, <3>2, <3>3, <3>4
  <2> HIDE DEF X, a, b, c
  <2>5. Inside(ob, PosOf(i, s), a, b, c)
    <3>1. ob.len = CountAfter(u, m) /\ ob.left_broadcast = elem_count(SubSeq(u, 1, m))
          /\ ob.right_broadcast = CountAfter(s, k) /\ ob.start \in Nat
      BY <1>1, <1>4, <1>5
    <3>2. elem_count(SubSeq(u, 1, m)) \in Nat
      BY <1>5, PrefixIs, AfterRule
    <3>3. PosOf(i, s) = (a * ob.len + b) * ob.right_broadcast + c
      BY <2>2, <2>3, <3>1
    <3> QED BY <2>2, <2>3, <3>1, <3>2, <3>3 DEF Inside
  <2>6. o + SumTo(Terms(i, t, n), n) = ob.start + b
    BY <1>4, <2>4
  <2> QED BY <2>5, <2>6
<1>10. /\ N \in Nat /\ e = [j \in 1 .. N |-> e[j]]
       /\ \A j \in 1 .. N :
            /\ AtPosition(j - 1, s) \in IdxOf(s) /\ PosOf(AtPosition(j - 1, s), s) = j - 1
            /\ e[j] = o + SumTo(Terms(AtPosition(j - 1, s), t, n), n)
  BY RowMajorIs
<1> HIDE DEF e, N
<1>11. ASSUME NEW j \in 1 .. N
       PROVE  InBlock(ob, j) = e[j] /\ InBlockVec(ob, j) = e[j]
  <2> DEFINE i == AtPosition(j - 1, s)
  <2>1. i \in IdxOf(s) /\ PosOf(i, s) = j - 1 /\ e[j] = o + SumTo(Terms(i, t, n), n)
    BY <1>10
  <2> HIDE DEF i
  <2>2. PICK a, b, c : Inside(ob, j - 1, a, b, c) /\ o + SumTo(Terms(i, t, n), n) = ob.start + b
    BY <1>9, <2>1
  <2>3. InBlock(ob, (j - 1) + 1) = ob.start + b /\ InBlockVec(ob, (j - 1) + 1) = ob.start + b
    BY <2>2, BlockRead
  <2>4. (j - 1) + 1 = j
    BY <1>10
  <2> QED BY <2>1, <2>2, <2>3, <2>4
<1>12. Repeats(ob, N, vec) = [j \in 1 .. N |-> e[j]]
  BY <1>11 DEF Repeats
<1> QED BY <1>10, <1>12 DEF e, N, ob

OfLength(x, n) == n \in Nat /\ x = [k \in 1 .. n |-> x[k]]

\* The elements of two sequences of n, side by side.
LEMMA ZipIs ==
  ASSUME NEW n, NEW x, NEW y, OfLength(x, n), OfLength(y, n)
  PROVE  zip(x, y) = [k \in 1 .. n |-> <<x[k], y[k]>>]
<1>1. Len(x) = n /\ Len(y) = n
  <2>1. ASSUME NEW z, OfLength(z, n) PROVE Len(z) = n
    <3> DEFINE f == [k \in 1 .. n |-> z[k]]
    <3>1. z = f /\ n \in Nat
      BY <2>1, Zenon DEF OfLength
    <3>2. Len(f) = n
      BY <3>1
    <3> HIDE DEF f
    <3> QED BY <3>1, <3>2
  <2> QED BY <2>1
<1>2. (IF Len(x) < Len(y) THEN Len(x) ELSE Len(y)) = n
  BY <1>1
<1> QED BY <1>2, Zenon DEF zip

\* Whichever case applies, the operands are gone through in row-major order.
LEMMA BinaryInStep ==
  ASSUME NEW l, Good(l), NEW r, Good(r), l.dims = r.dims, NEW vec \in BOOLEAN
  PROVE  BinaryReads(l, r, vec) = zip(RowMajor(l), RowMajor(r))
<1> DEFINE cl == contiguous_offsets(l)
           cr == contiguous_offsets(r)
           bl == offsets_b(l)
           br == offsets_b(r)
           N == elem_count(l.dims)
           x == RowMajor(l)
           y == RowMajor(r)
<1>1. cl.from # None => cl.to - cl.from = N /\ Run(cl) = x
  BY SliceInOrder DEF contiguous_offsets
<1>2. cr.from # None => cr.to - cr.from = N /\ Run(cr) = y
  BY SliceInOrder DEF contiguous_offsets
<1>3. bl.some => Repeats(bl, N, vec) = x
  BY RepeatsInOrder
<1>4. br.some => Repeats(br, N, vec) = y
  BY RepeatsInOrder
<1>5. strided_index(l) = x /\ strided_index(r) = y
  BY IteratorInOrder
<1>6. BinaryReads(l, r, vec) = BinaryCase(l, r, cl, cr, bl, br, vec)
  BY Zenon DEF BinaryReads
<1> HIDE DEF cl, cr, bl, br, x, y, N
<1> DEFINE p1 == cl.from # None /\ cr.from # None
           p2 == cl.from # None /\ cr.from = None /\ br.some
           p3 == cl.from = None /\ cr.from # None /\ bl.some
           v1 == zip(Run(cl), Run(cr))
           v2 == zip(Run(cl), Repeats(br, cl.to - cl.from, vec))
           v3 == zip(Repeats(bl, cr.to - cr.from, vec), Run(cr))
           v4 == zip(strided_index(l), strided_index(r))
           z == zip(x, y)
<1>7. BinaryCase(l, r, cl, cr, bl, br, vec) = CASE p1 -> v1 [] p2 -> v2 [] p3 -> v3 [] OTHER -> v4
  BY Zenon DEF BinaryCase
<1>8. (p1 => v1 = z) /\ (p2 => v2 = z) /\ (p3 => v3 = z) /\ v4 = z
  <2>1. p1 => v1 = z
    BY <1>1, <1>2, Zenon
  <2>2. p2 => v2 = z
    BY <1>1, <1>4, Zenon
  <2>3. p3 => v3 = z
    BY <1>2, <1>3, Zenon
  <2>4. v4 = z
    BY <1>5, Zenon
  <2> QED BY <2>1, <2>2, <2>3, <2>4
<1>9. ~(p1 /\ p2) /\ ~(p1 /\ p3) /\ ~(p2 /\ p3)
  OBVIOUS
<1> HIDE DEF p1, p2, p3, v1, v2, v3, v4, z
<1>10. (CASE p1 -> v1 [] p2 -> v2 [] p3 -> v3 [] OTHER -> v4) = z
  BY <1>8, <1>9
<1> QED BY <1>6, <1>7, <1>10 DEF z, x, y

\* The pairs of addresses of elements of equal indexes.
PairsOf(l, r, s) ==
  [k \in 1 .. Size(s) |->
     LET i == AtPosition(k - 1, s) IN <<Address(l, i), Address(r, i)>>]

LEMMA PairsInOrder ==
  ASSUME NEW s, NEW l, Good(l), NEW r, Good(r), l.dims = s, r.dims = s
  PROVE  binary_map(l, r) = PairsOf(l, r, s) /\ binary_map_vec(l, r) = PairsOf(l, r, s)
<1> DEFINE N == elem_count(s)
           x == RowMajor(l)
           y == RowMajor(r)
<1>1. N \in Nat /\ Size(s) = N
  BY GoodParts, AfterRule
<1>2. x = [k \in 1 .. N |-> x[k]] /\ \A k \in 1 .. N : x[k] = Address(l, AtPosition(k - 1, s))
  BY RowMajorIs
<1>3. y = [k \in 1 .. N |-> y[k]] /\ \A k \in 1 .. N : y[k] = Address(r, AtPosition(k - 1, s))
  BY RowMajorIs
<1>4. \A vec \in BOOLEAN : BinaryReads(l, r, vec) = zip(x, y)
  BY BinaryInStep
<1> HIDE DEF x, y, N
<1>5. zip(x, y) = [k \in 1 .. N |-> <<x[k], y[k]>>]
  <2>1. OfLength(x, N) /\ OfLength(y, N)
    BY <1>1, <1>2, <1>3, Zenon DEF OfLength
  <2>2. zip(x, y) = [k \in 1 .. N |-> <<x[k], y[k]>>]
    BY <2>1, ZipIs
  <2> QED BY <2>2
<1>6. PairsOf(l, r, s) = [k \in 1 .. N |-> <<x[k], y[k]>>]
  <2>1. PairsOf(l, r, s) = [k \in 1 .. N |-> <<Address(l, AtPosition(k - 1, s)), Address(r, AtPosition(k - 1, s))>>]
    BY <1>1, Zenon DEF PairsOf
  <2> QED BY <1>2, <1>3, <2>1
<1>7. binary_map(l, r) = zip(x, y) /\ binary_map_vec(l, r) = zip(x, y)
  BY <1>4 DEF binary_map, binary_map_vec
<1> QED BY <1>5, <1>6, <1>7

\* Every operand that is broadcast to a shape is a layout of that shape.
LEMMA BroadcastsGood ==
  ASSUME NEW shape \in Seq(Nat), NEW b \in Broadcasts(shape)
  PROVE  Good(b) /\ b.dims = shape
<1>1. PICK s \in {t \in UNION {[1 .. n -> ToSet(shape) \cup {1}] : n \in 0 .. Len(shape)} :
                    can_broadcast(Layout(t, t, 0), shape)} :
        b = broadcast_as(contiguous_with_offset(s, 0), shape)
  BY Zenon DEF Broadcasts
<1>2. s \in UNION {[1 .. n -> ToSet(shape) \cup {1}] : n \in 0 .. Len(shape)}
      /\ can_broadcast(Layout(s, s, 0), shape)
  OBVIOUS
<1>3. PICK n \in 0 .. Len(shape) : s \in [1 .. n -> ToSet(shape) \cup {1}]
  BY <1>2
<1>4. ToSet(shape) \cup {1} \subseteq Nat
  BY DEF ToSet
<1>5. n \in Nat /\ s \in [1 .. n -> Nat]
  BY <1>3, <1>4
<1>6. s \in Seq(Nat)
  BY <1>5, FunIsSeq
<1> DEFINE c == contiguous_with_offset(s, 0)
<1>7. c.dims = s /\ Layout(s, s, 0).dims = s
  BY <1>6, ContigParts DEF Layout
<1>8. Fits(c, elem_count(s))
  BY <1>6, AfterRule, ContigFits
<1> HIDE DEF c
<1>9. can_broadcast(c, shape)
  <2> DEFINE t == Layout(s, s, 0)
  <2>1. t.dims = c.dims
    BY <1>7
  <2>2. can_broadcast(t, shape)
    BY <1>2
  <2> HIDE DEF t
  <2> QED BY <2>1, <2>2, Zenon DEF can_broadcast
<1>10. Good(broadcast_as(c, shape))
  BY <1>8, <1>9, BroadcastFits DEF Fits
<1>11. broadcast_as(c, shape).dims = shape
  BY DEF broadcast_as, Layout
<1> QED BY <1>1, <1>10, <1>11 DEF c

LEMMA VInvInOrder == VInv => ReadsInOrder
<1> SUFFICES ASSUME VInv PROVE ReadsInOrder
  OBVIOUS
<1>1. Good(layout) /\ dims \in Seq(Nat) /\ dims = layout.dims
  BY StateTyped DEF dims
<1>2. UnaryInOrder
  BY <1>1, IteratorInOrder, LoopInOrder DEF UnaryInOrder
<1>3. ASSUME NEW b \in Broadcasts(dims)
      PROVE  /\ binary_map(layout, b) = PairsOf(layout, b, dims)
             /\ binary_map(b, layout) = PairsOf(b, layout, dims)
             /\ binary_map_vec(layout, b) = PairsOf(layout, b, dims)
             /\ binary_map_vec(b, layout) = PairsOf(b, layout, dims)
  <2>1. Good(b) /\ b.dims = dims
    BY <1>1, BroadcastsGood
  <2> QED BY <1>1, <2>1, PairsInOrder
<1>4. BinaryInOrder
  BY <1>3, Zenon DEF BinaryInOrder, PairsOf
<1> QED BY <1>2, <1>4 DEF ReadsInOrder

\* The loops of the element-wise operations visit the elements in row-major
\* order, two operands in step, whatever view each of them is read through and
\* whichever of the blocks, slices and iterators the code chooses for it: the
\* results of cpu_backend/utils.rs do not depend on how a tensor is laid out.
THEOREM LoopsReadInOrder == Spec => []ReadsInOrder
<1>1. Init => VInv
  BY InitFits
<1>2. VInv /\ [Next]_vars => VInv'
  BY StepKeeps
<1>3. VInv => ReadsInOrder
  BY VInvInOrder
<1> QED BY <1>1, <1>2, <1>3, PTL DEF Spec

-----------------------------------------------------------------------------
(* What every operation returns: the operators of TensorValue, over the    *)
(* tensor that the storage and the layout stand for.                       *)

LEMMA AbsSame ==
  /\ \A s : Abs!Size(s) = Size(s)
  /\ \A s : Abs!Index(s) = Index(s)
  /\ \A i, s : Abs!Position(i, s) = Position(i, s)
  /\ \A k, s : Abs!AtPosition(k, s) = AtPosition(k, s)
<1>1. \A s : Abs!Size(s) = Size(s)
  BY DEF Abs!Size, Size, Abs!FoldLeft, FoldLeft, Abs!MapThenFoldSet, MapThenFoldSet, Abs!Max, Max
<1>2. \A s : Abs!Index(s) = Index(s)
  BY <1>1 DEF Abs!Index, Index
<1>3. ASSUME NEW i, NEW s PROVE Abs!Position(i, s) = Position(i, s)
  <2> DEFINE t == [d \in DOMAIN s |-> i[d] * Size(SubSeq(s, d + 1, Len(s)))]
  <2>1. Position(i, s) = FoldLeft(+, 0, t)
    BY Zenon DEF Position
  <2>2. Abs!Position(i, s) = Abs!FoldLeft(+, 0, t)
    BY <1>1, Zenon DEF Abs!Position
  <2> HIDE DEF t
  <2>3. Abs!FoldLeft(+, 0, t) = FoldLeft(+, 0, t)
    BY DEF Abs!FoldLeft, FoldLeft, Abs!MapThenFoldSet, MapThenFoldSet, Abs!Max, Max
  <2> QED BY <2>1, <2>2, <2>3
<1>4. \A k, s : Abs!AtPosition(k, s) = AtPosition(k, s)
  BY <1>1 DEF Abs!AtPosition, AtPosition
<1> QED BY <1>1, <1>2, <1>3, <1>4

\* No dimension of a shape with an index exceeds its number of elements.
LEMMA DimBound ==
  ASSUME NEW s \in Seq(Nat), NEW i \in IdxOf(s), NEW d \in 1 .. Len(s)
  PROVE  s[d] <= elem_count(s)
<1> DEFINE a == elem_count(SubSeq(s, 1, d - 1))
           b == s[d]
           c == CountAfter(s, d)
           n == elem_count(s)
<1>1. d - 1 \in 0 .. Len(s) /\ d \in 0 .. Len(s) /\ SubSeq(s, 1, d - 1) \in Seq(Nat)
  OBVIOUS
<1>2. n = a * CountAfter(s, d - 1) /\ CountAfter(s, d - 1) = b * c
  BY <1>1, CountSplit, AfterRule
<1>3. a \in Nat /\ b \in Nat /\ c \in Nat /\ n \in Nat
  BY <1>1, AfterRule, SeqParts
<1>4. n # 0
  BY <1>3, PosBound
<1> HIDE DEF a, b, c, n
<1>5. b * c \in Nat /\ b * c # 0 /\ a # 0
  BY <1>2, <1>3, <1>4
<1>6. c # 0
  BY <1>3, <1>5
<1> DEFINE e == b * c
<1>7. b <= e
  BY <1>3, <1>6
<1>8. e \in Nat /\ n = a * e
  BY <1>2, <1>3, <1>5
<1> HIDE DEF e
<1>9. e <= n
  BY <1>3, <1>5, <1>8
<1>10. b <= n
  BY <1>3, <1>7, <1>8, <1>9
<1> QED BY <1>10 DEF b, n

\* The indexes of Indexing are those that the proofs use.
LEMMA IndexIs ==
  ASSUME NEW s \in Seq(Nat)
  PROVE  Index(s) = IdxOf(s)
<1>1. DOMAIN s = 1 .. Len(s) /\ Size(s) = elem_count(s) /\ Size(s) \in Nat
  BY AfterRule
<1>2. ASSUME NEW i \in Index(s) PROVE i \in IdxOf(s)
  BY <1>1 DEF Index, IdxOf
<1>3. ASSUME NEW i \in IdxOf(s) PROVE i \in Index(s)
  <2>1. i \in [DOMAIN s -> Nat] /\ \A d \in DOMAIN s : i[d] < s[d]
    BY DEF IdxOf
  <2>2. ASSUME NEW d \in DOMAIN s PROVE i[d] \in 0 .. Size(s)
    BY <1>1, IdxParts, DimBound
  <2>3. i \in [DOMAIN s -> 0 .. Size(s)]
    BY <2>1, <2>2
  <2> QED BY <2>1, <2>3 DEF Index
<1> QED BY <1>2, <1>3

LEMMA PosOfIs ==
  ASSUME NEW s \in Seq(Nat), NEW i
  PROVE  Position(i, s) = PosOf(i, s)
<1> DEFINE n == Len(s)
           t == [d \in DOMAIN s |-> i[d] * Size(SubSeq(s, d + 1, Len(s)))]
<1>1. n \in Nat /\ DOMAIN s = 1 .. n
  OBVIOUS
<1>2. ASSUME NEW d \in 1 .. n PROVE Size(SubSeq(s, d + 1, Len(s))) = CountAfter(s, d)
  <2>1. SubSeq(s, d + 1, Len(s)) \in Seq(Nat)
    BY <1>1
  <2> QED BY <2>1, AfterRule DEF CountAfter
<1>3. t = Terms(i, Weights(s), n) /\ DOMAIN t = 1 .. n
  <2>1. t = [d \in 1 .. n |-> i[d] * CountAfter(s, d)]
    BY <1>1, <1>2
  <2>2. Terms(i, Weights(s), n) = [d \in 1 .. n |-> i[d] * CountAfter(s, d)]
    BY DEF Terms, Weights
  <2> HIDE DEF t
  <2> QED BY <2>1, <2>2
<1>4. Position(i, s) = FoldLeft(+, 0, t)
  BY Zenon DEF Position
<1> HIDE DEF t
<1>5. FoldLeft(+, 0, t) = SumTo(t, n)
  BY <1>1, <1>3, FoldIs
<1> QED BY <1>3, <1>4, <1>5 DEF PosOf

\* The tensor of the next state, when its element at i is the one that was at from[i].
LEMMA ElemsTaken ==
  ASSUME VInv, NEW v, layout' = v, v.dims \in Seq(Nat), NEW from,
         \A i \in IdxOf(v.dims) :
           from[i] \in IdxOf(dims) /\ data'[Address(v, i) + 1] = data[Address(layout, from[i]) + 1]
  PROVE  dims' = v.dims /\ elem' = [i \in Index(v.dims) |-> elem[from[i]]]
<1>1. dims' = v.dims
  BY DEF dims
<1>2. elem' = [i \in Index(v.dims) |-> data'[Address(v, i) + 1]]
  BY <1>1 DEF elem
<1>3. Index(v.dims) = IdxOf(v.dims) /\ Index(dims) = IdxOf(dims)
  BY IndexIs, StateTyped
<1>4. \A j \in IdxOf(dims) : elem[j] = data[Address(layout, j) + 1]
  BY <1>3 DEF elem
<1>5. \A i \in Index(v.dims) : data'[Address(v, i) + 1] = elem[from[i]]
  BY <1>3, <1>4
<1>6. elem' = [i \in Index(v.dims) |-> elem[from[i]]]
  BY <1>2, <1>5
<1> QED BY <1>1, <1>6

\* The tensor that a view of the storage stands for.
LEMMA ViewTakes ==
  ASSUME VInv, NEW v, View(v), Good(v), NEW from,
         \A i \in IdxOf(v.dims) : Takes(v, layout, i, from[i])
  PROVE  dims' = v.dims /\ elem' = [i \in Index(v.dims) |-> elem[from[i]]]
<1>1. layout' = v /\ data' = data
  BY DEF View
<1>2. v.dims \in Seq(Nat)
  BY GoodParts
<1>3. \A i \in IdxOf(v.dims) :
        from[i] \in IdxOf(dims) /\ data'[Address(v, i) + 1] = data[Address(layout, from[i]) + 1]
  BY <1>1 DEF Takes, dims
<1> QED BY <1>1, <1>2, <1>3, ElemsTaken

\* The same elements in the same row-major order.
LEMMA OrderKept ==
  ASSUME VInv, NEW v, layout' = v, v.dims \in Seq(Nat), elem_count(v.dims) = elem_count(dims),
         \A i \in IdxOf(v.dims), j \in IdxOf(dims) : PosOf(i, v.dims) = PosOf(j, dims) =>
           data'[Address(v, i) + 1] = data[Address(layout, j) + 1]
  PROVE  Abs!Rearranged(v.dims)
<1> DEFINE s == v.dims
           From(i) == AtPosition(PosOf(i, s), dims)
           from == [i \in IdxOf(s) |-> From(i)]
<1>1. dims \in Seq(Nat)
  BY StateTyped
<1>2. ASSUME NEW i \in IdxOf(s)
      PROVE  /\ from[i] \in IdxOf(dims)
             /\ data'[Address(v, i) + 1] = data[Address(layout, from[i]) + 1]
  <2>1. PosOf(i, s) \in Nat /\ PosOf(i, s) < elem_count(dims)
    BY PosBound
  <2>2. From(i) \in IdxOf(dims) /\ PosOf(From(i), dims) = PosOf(i, s)
    BY <1>1, <2>1, PositionIs
  <2>3. from[i] = From(i)
    OBVIOUS
  <2> HIDE DEF From, from
  <2> QED BY <2>2, <2>3
<1> HIDE DEF from
<1>3. dims' = s /\ elem' = [i \in Index(s) |-> elem[from[i]]]
  BY <1>2, ElemsTaken
<1>4. \A i \in Index(s) : from[i] = AtPosition(Position(i, s), dims)
  BY IndexIs, PosOfIs DEF from
<1> HIDE DEF s, From
<1>5. elem' = [i \in Index(s) |-> elem[AtPosition(Position(i, s), dims)]]
  BY <1>3, <1>4
<1>6. Abs!Size(s) = Abs!Size(dims)
  BY <1>1, AbsSame, AfterRule DEF s
<1>7. Abs!Rearranged(s)
  BY <1>3, <1>5, <1>6, AbsSame, Zenon DEF Abs!Rearranged, Abs!Becomes
<1> QED BY <1>7 DEF s

LEMMA SeqIsFun ==
  ASSUME NEW s \in Seq(Nat), NEW n, DOMAIN s = 1 .. n
  PROVE  s = [k \in 1 .. n |-> s[k]]
<1>1. s \in [1 .. Len(s) -> Nat] /\ DOMAIN s = 1 .. Len(s)
  OBVIOUS
<1>2. s \in [1 .. n -> Nat]
  BY <1>1
<1> QED BY <1>2

LEMMA IdxFun ==
  ASSUME NEW s \in Seq(Nat), NEW i \in IdxOf(s)
  PROVE  i \in [1 .. Len(s) -> Nat] /\ i \in Seq(Nat) /\ Len(i) = Len(s)
<1>1. DOMAIN s = 1 .. Len(s) /\ Len(s) \in Nat
  OBVIOUS
<1>2. i \in [1 .. Len(s) -> Nat]
  BY <1>1 DEF IdxOf
<1> QED BY <1>1, <1>2, FunIsSeq

\* Tensor::narrow, which returns the tensor itself when nothing is left out.
LEMMA NarrowedIs ==
  ASSUME NEW l, Good(l), NEW d \in 1 .. Len(l.dims),
         NEW start \in Nat, NEW len \in Nat, start + len <= l.dims[d]
  PROVE  NarrowViews(Narrowed(l, d, start, len), l, d, start, len)
<1> DEFINE n == Len(l.dims)
           u == [k \in 1 .. n |-> IF k = d THEN len ELSE l.dims[k]]
<1>1. CASE start = 0 /\ l.dims[d] = len
  <2>1. l.dims \in Seq(Nat) /\ n \in Nat /\ DOMAIN l.dims = 1 .. n
    BY GoodParts
  <2>2. u = l.dims
    <3>1. l.dims = [k \in 1 .. n |-> l.dims[k]]
      BY <2>1
    <3>2. \A k \in 1 .. n : u[k] = l.dims[k]
      BY <1>1
    <3> QED BY <3>1, <3>2
  <2>3. ASSUME NEW i \in IdxOf(l.dims) PROVE NarrowFrom(i, n, d, start) = i
    <3>1. i \in [1 .. n -> Nat]
      BY <2>1, IdxFun
    <3> HIDE DEF n
    <3>2. ASSUME NEW k \in 1 .. n PROVE (IF k = d THEN i[k] + start ELSE i[k]) = i[k]
      <4>1. i[k] \in Nat
        BY <3>1
      <4> QED BY <1>1, <4>1
    <3>3. i = [k \in 1 .. n |-> i[k]]
      BY <3>1
    <3> QED BY <3>2, <3>3 DEF NarrowFrom
  <2>4. \A i \in IdxOf(l.dims) : Takes(l, l, i, NarrowFrom(i, n, d, start))
    BY <2>3 DEF Takes
  <2>5. NarrowViews(l, l, d, start, len)
    BY <2>2, <2>4 DEF NarrowViews, Views
  <2> QED BY <1>1, <2>5 DEF Narrowed
<1>2. CASE ~(start = 0 /\ l.dims[d] = len)
  BY <1>2, NarrowIs DEF Narrowed
<1> QED BY <1>1, <1>2

LEMMA NarrowMeans ==
  ASSUME VInv, NEW dim \in Dims, NEW start \in Sizes, NEW len \in Sizes, Narrow(dim, start, len)
  PROVE  Abs!Slice(to_index(dim, rank), start, len)
<1> DEFINE d == to_index(dim, rank)
           v == Narrowed(layout, d, start, len)
           u == [dims EXCEPT ![d] = len]
<1>1. dim \in Int /\ start \in Nat /\ len \in Nat
  BY ViewsAssumption DEF ViewsAssumption
<1>2. d \in 1 .. rank /\ start + len <= dims[d] /\ View(v)
  BY <1>1, StateTyped, IndexTyped DEF Narrow
<1> HIDE DEF d
<1>3. NarrowViews(v, layout, d, start, len)
  BY <1>1, <1>2, StateTyped, NarrowedIs DEF dims, rank
<1>4. u = [k \in 1 .. rank |-> IF k = d THEN len ELSE dims[k]] /\ u \in Seq(Nat)
  <2>1. dims \in Seq(Nat) /\ rank = Len(dims) /\ DOMAIN dims = 1 .. rank
    BY StateTyped
  <2>2. u = [k \in 1 .. rank |-> IF k = d THEN len ELSE dims[k]]
    BY <2>1
  <2> QED BY <1>1, <1>2, <2>1, <2>2
<1> HIDE DEF v
<1>5. Good(v) /\ v.dims = u /\ \A i \in IdxOf(u) : Takes(v, layout, i, NarrowFrom(i, rank, d, start))
  BY <1>3, <1>4 DEF NarrowViews, Views, dims, rank
<1> HIDE DEF u
<1> DEFINE from == [i \in IdxOf(u) |-> NarrowFrom(i, rank, d, start)]
<1>6. \A i \in IdxOf(v.dims) : Takes(v, layout, i, from[i])
  BY <1>5
<1>7. \A i \in Index(u) : from[i] = [i EXCEPT ![d] = @ + start]
  <2> SUFFICES ASSUME NEW i \in IdxOf(u) PROVE from[i] = [i EXCEPT ![d] = @ + start]
    BY <1>4, IndexIs
  <2>1. i \in [1 .. rank -> Nat]
    BY <1>2, <1>4, IdxFun, StateTyped
  <2> QED BY <1>2, <2>1 DEF NarrowFrom
<1> HIDE DEF from
<1>8. dims' = u /\ elem' = [i \in Index(u) |-> elem[from[i]]]
  BY <1>2, <1>5, <1>6, ViewTakes
<1>9. elem' = [i \in Index(u) |-> elem[[i EXCEPT ![d] = @ + start]]]
  BY <1>7, <1>8
<1> QED BY <1>2, <1>8, <1>9, AbsSame, Zenon DEF Abs!Slice, Abs!Becomes, d, u

LEMMA UnfoldMeans ==
  ASSUME VInv, NEW dim \in Dims, NEW size \in Sizes, NEW step \in Sizes, Unfold(dim, size, step)
  PROVE  Abs!Windows(to_index(dim, rank), size, step)
<1> DEFINE d == to_index(dim, rank)
           v == unfold(layout, d, size, step)
           c == (dims[d] - size) \div step + 1
           u == Append([dims EXCEPT ![d] = (@ - size) \div step + 1], size)
           From(i) == [e \in DOMAIN dims |-> IF e = d THEN i[e] * step + i[Len(i)] ELSE i[e]]
<1>1. dim \in Int /\ size \in Nat /\ step \in Nat
  BY ViewsAssumption DEF ViewsAssumption
<1>2. d \in 1 .. rank /\ size <= dims[d] /\ step > 0 /\ View(v)
  BY <1>1, StateTyped, IndexTyped DEF Unfold
<1> HIDE DEF d
<1>3. UnfoldViews(v, layout, d, size, step)
  BY <1>1, <1>2, StateTyped, UnfoldIs DEF dims, rank
<1>4. dims \in Seq(Nat) /\ rank = Len(dims) /\ rank \in Nat /\ DOMAIN dims = 1 .. rank
  BY StateTyped
<1>5. u = Append(With(dims, d, c), size)
  BY <1>4 DEF With
<1> HIDE DEF v, u
<1>6. Good(v) /\ v.dims = u /\ \A i \in IdxOf(u) : Takes(v, layout, i, UnfoldFrom(i, rank, d, step))
  BY <1>3, <1>5 DEF UnfoldViews, Views, dims, rank
<1>7. u \in Seq(Nat) /\ Len(u) = rank + 1
  <2>1. u \in Seq(Nat)
    BY <1>6, GoodParts
  <2>2. Len(With(dims, d, c)) = rank
    BY <1>4 DEF With
  <2>3. With(dims, d, c) \in Seq(Int)
    BY <1>1, <1>2, <1>4 DEF With
  <2> DEFINE w == With(dims, d, c)
  <2>4. w \in Seq(Int) /\ Len(w) = rank /\ u = Append(w, size)
    BY <1>5, <2>2, <2>3
  <2> HIDE DEF w
  <2> QED BY <1>1, <2>1, <2>4
<1> DEFINE from == [i \in IdxOf(u) |-> UnfoldFrom(i, rank, d, step)]
<1>8. \A i \in IdxOf(v.dims) : Takes(v, layout, i, from[i])
  BY <1>6
<1>9. \A i \in Index(u) : from[i] = From(i)
  <2> SUFFICES ASSUME NEW i \in IdxOf(u) PROVE from[i] = From(i)
    BY <1>7, IndexIs
  <2>1. Len(i) = rank + 1
    BY <1>7, IdxFun
  <2> QED BY <1>4, <2>1 DEF UnfoldFrom
<1> HIDE DEF from, From
<1>10. dims' = u /\ elem' = [i \in Index(u) |-> elem[from[i]]]
  BY <1>2, <1>6, <1>8, ViewTakes
<1>11. elem' = [i \in Index(u) |-> elem[From(i)]]
  BY <1>9, <1>10
<1> QED BY <1>2, <1>10, <1>11, AbsSame, Zenon DEF Abs!Windows, Abs!Becomes, d, u, From

\* An order of the dimensions and its inverse: what permute and transpose leave.
LEMMA OrderMeans ==
  ASSUME VInv, NEW v, View(v), NEW p, NEW q, DOMAIN p = 1 .. rank, Inv2(p, q, rank),
         PermuteViews(v, layout, p, q)
  PROVE  Abs!Permuted(p)
<1> DEFINE u == [d \in DOMAIN p |-> dims[p[d]]]
           Back(d) == CHOOSE e \in DOMAIN p : p[e] = d
           From(i) == [d \in DOMAIN dims |-> i[Back(d)]]
           from == [i \in IdxOf(u) |-> PermuteFrom(i, rank, q)]
<1>1. dims \in Seq(Nat) /\ rank = Len(dims) /\ rank \in Nat /\ DOMAIN dims = 1 .. rank
  BY StateTyped
<1>2. Good(v) /\ v.dims = u /\ \A i \in IdxOf(u) : Takes(v, layout, i, PermuteFrom(i, rank, q))
  BY DEF PermuteViews, Views, dims, rank
<1>3. u \in Seq(Nat)
  BY <1>2, GoodParts
<1>4. ASSUME NEW d \in 1 .. rank PROVE Back(d) = q[d]
  BY DEF Inv2
<1> HIDE DEF Back, u
<1>5. \A i \in Index(u) : from[i] = From(i)
  <2> SUFFICES ASSUME NEW i \in IdxOf(u) PROVE from[i] = From(i)
    BY <1>3, IndexIs
  <2>1. from[i] = [k \in 1 .. rank |-> i[q[k]]]
    BY DEF PermuteFrom
  <2> QED BY <1>1, <1>4, <2>1
<1>6. \A i \in IdxOf(v.dims) : Takes(v, layout, i, from[i])
  BY <1>2
<1> HIDE DEF from, From
<1>7. dims' = u /\ elem' = [i \in Index(u) |-> elem[from[i]]]
  BY <1>2, <1>6, ViewTakes
<1>8. elem' = [i \in Index(u) |-> elem[From(i)]]
  BY <1>5, <1>7
<1> QED BY <1>7, <1>8, AbsSame, Zenon DEF Abs!Permuted, Abs!Becomes, u, From, Back

LEMMA PermuteMeans ==
  ASSUME VInv, NEW idxs \in TupleOf(1 .. rank, rank), Permute(idxs)
  PROVE  Abs!Permuted(idxs)
<1>1. idxs \in [1 .. rank -> 1 .. rank]
  BY DEF TupleOf
<1>2. DOMAIN idxs = 1 .. rank /\ \A k \in 1 .. rank : idxs[k] \in 1 .. rank
  BY <1>1
<1>3. Lists(idxs, rank)
  BY <1>2 DEF Permute, is_permutation, ToSet, Lists
<1>4. permute(layout, idxs) = [dims |-> [k \in 1 .. rank |-> dims[idxs[k]]],
                               stride |-> [k \in 1 .. rank |-> layout.stride[idxs[k]]],
                               start_offset |-> layout.start_offset]
  BY <1>2 DEF permute, Layout, dims
<1>5. PICK q : Inv2(idxs, q, rank)
  BY <1>2, <1>3, StateTyped, PermInverse
<1>6. PermuteViews(permute(layout, idxs), layout, idxs, q)
  BY <1>4, <1>5, StateTyped, PermuteIs DEF dims, rank
<1> QED BY <1>2, <1>5, <1>6, OrderMeans DEF Permute

LEMMA TransposeMeans ==
  ASSUME VInv, NEW dim1 \in Dims, NEW dim2 \in Dims, Transpose(dim1, dim2)
  PROVE  Abs!Permuted(Swap([d \in 1 .. rank |-> d], to_index(dim1, rank), to_index(dim2, rank)))
<1> DEFINE d1 == to_index(dim1, rank)
           d2 == to_index(dim2, rank)
           p == SwapOf(rank, d1, d2)
<1>1. dim1 \in Int /\ dim2 \in Int
  BY ViewsAssumption DEF ViewsAssumption
<1>2. /\ d1 \in 1 .. rank /\ d2 \in 1 .. rank
      /\ View(IF d1 = d2 THEN layout ELSE transpose(layout, d1, d2))
  BY <1>1, StateTyped, IndexTyped DEF Transpose
<1> HIDE DEF d1, d2
<1>3. p = Swap([d \in 1 .. rank |-> d], d1, d2)
  BY <1>2 DEF SwapOf, Swap, With
<1>4. Inv2(p, p, rank) /\ PermuteViews(transpose(layout, d1, d2), layout, p, p)
  BY <1>2, StateTyped, TransposeIs DEF rank
<1>5. DOMAIN p = 1 .. rank
  BY DEF SwapOf
<1>6. CASE d1 = d2
  <2>1. \A k \in 1 .. rank : p[k] = k
    BY <1>6 DEF SwapOf
  <2>2. layout = [dims |-> layout.dims, stride |-> layout.stride, start_offset |-> layout.start_offset]
        /\ DOMAIN layout.dims = 1 .. rank /\ DOMAIN layout.stride = 1 .. rank
        /\ layout.dims \in Seq(Nat) /\ layout.stride \in Seq(Nat)
    BY StateTyped, GoodParts DEF Good, rank
  <2>3. /\ layout.dims = [k \in 1 .. rank |-> layout.dims[p[k]]]
        /\ layout.stride = [k \in 1 .. rank |-> layout.stride[p[k]]]
    BY <2>2, SeqIsFun, <2>1
  <2> HIDE DEF p
  <2>4. PermuteViews(layout, layout, p, p)
    BY <1>4, <2>2, <2>3, StateTyped, PermuteIs DEF rank
  <2> QED BY <1>2, <1>3, <1>4, <1>5, <1>6, <2>4, OrderMeans DEF d1, d2
<1>7. CASE d1 # d2
  <2> HIDE DEF p
  <2> QED BY <1>2, <1>3, <1>4, <1>5, <1>7, OrderMeans DEF d1, d2
<1> QED BY <1>6, <1>7

LEMMA BroadcastMeans ==
  ASSUME VInv, NEW shape \in Seq(Nat), BroadcastAs(shape)
  PROVE  Abs!Repeated(shape)
<1> DEFINE v == broadcast_as(layout, shape)
           m == Len(shape) - Len(dims)
           From(i) == [d \in DOMAIN dims |-> IF dims[d] = 1 THEN 0 ELSE i[m + d]]
           from == [i \in IdxOf(shape) |-> BroadcastFrom(i, dims, shape, m)]
<1>1. dims \in Seq(Nat) /\ rank = Len(dims) /\ rank \in Nat /\ DOMAIN dims = 1 .. rank
      /\ Len(shape) \in Nat
  BY StateTyped
<1>2. can_broadcast(layout, shape) /\ View(v)
  BY DEF BroadcastAs
<1>3. m >= 0 /\ \A d \in 1 .. rank : dims[d] \in {1, shape[m + d]}
  BY <1>1, <1>2 DEF can_broadcast, dims
<1>4. BroadcastViews(v, layout, shape)
  BY <1>2, StateTyped, BroadcastIs
<1> HIDE DEF v
<1>5. Good(v) /\ v.dims = shape
      /\ \A i \in IdxOf(shape) : Takes(v, layout, i, BroadcastFrom(i, dims, shape, m))
  BY <1>4 DEF BroadcastViews, Views, dims
<1>6. \A i \in IdxOf(v.dims) : Takes(v, layout, i, from[i])
  BY <1>5
<1>7. \A i \in Index(shape) : from[i] = From(i)
  <2> SUFFICES ASSUME NEW i \in IdxOf(shape) PROVE from[i] = From(i)
    BY IndexIs
  <2>1. from[i] = [k \in 1 .. rank |-> IF dims[k] = shape[m + k] THEN i[m + k] ELSE 0]
    BY <1>1 DEF BroadcastFrom
  <2>2. ASSUME NEW k \in 1 .. rank
        PROVE  (IF dims[k] = shape[m + k] THEN i[m + k] ELSE 0) = (IF dims[k] = 1 THEN 0 ELSE i[m + k])
    <3>1. m + k \in 1 .. Len(shape)
      BY <1>1, <1>3
    <3>2. i[m + k] \in Nat /\ i[m + k] < shape[m + k]
      BY <3>1, IdxParts
    <3>3. CASE dims[k] = 1 /\ dims[k] = shape[m + k]
      BY <3>2, <3>3
    <3>4. CASE ~(dims[k] = 1 /\ dims[k] = shape[m + k])
      BY <1>3, <3>4
    <3> QED BY <3>3, <3>4
  <2>3. From(i) = [k \in 1 .. rank |-> IF dims[k] = 1 THEN 0 ELSE i[m + k]]
    BY <1>1
  <2> HIDE DEF from, From
  <2> QED BY <2>1, <2>2, <2>3
<1> HIDE DEF from, From
<1>8. dims' = shape /\ elem' = [i \in Index(shape) |-> elem[from[i]]]
  BY <1>2, <1>5, <1>6, ViewTakes
<1>9. elem' = [i \in Index(shape) |-> elem[From(i)]]
  BY <1>7, <1>8
<1>10. \A d \in DOMAIN dims : dims[d] = 1 \/ dims[d] = shape[m + d]
  BY <1>1, <1>3
<1> QED BY <1>3, <1>8, <1>9, <1>10, AbsSame, Zenon DEF Abs!Repeated, Abs!Becomes, From, m

LEMMA BroadcastLeftMeans ==
  ASSUME VInv, NEW shape \in Seq(Nat \cup {None}), BroadcastLeft(shape)
  PROVE  Abs!Repeated(shape \o dims)
<1>1. shape \in Seq(Nat)
  BY SeqFull DEF BroadcastLeft
<1>2. shape \o dims \in Seq(Nat)
  BY <1>1, StateTyped, ConcatIs
<1> QED BY <1>2, BroadcastMeans DEF BroadcastLeft

-----------------------------------------------------------------------------
(* Operations that keep the elements and their order.                      *)

\* copy_strided_src puts the elements of l one after the other, as they follow
\* each other in l.
LEMMA CopiedAt ==
  ASSUME NEW src \in Seq(Nat), NEW l, Fits(l, Len(src)), NEW n, n = elem_count(l.dims),
         NEW new, new = copy_strided_src(src, [i \in 1 .. n |-> None], 0, l),
         NEW j \in IdxOf(l.dims)
  PROVE  new[PosOf(j, l.dims) + 1] = src[Address(l, j) + 1]
<1> DEFINE q == PosOf(j, l.dims)
           at == unary_map(l)
           vals == ElemsAt(src, at)
<1>1. Good(l) /\ l.dims \in Seq(Nat) /\ n \in Nat
  BY GoodParts, AfterRule DEF Fits
<1>2. q \in Nat /\ q < n
  BY <1>1, PosBound
<1>3. AtPosition(q, l.dims) = j
  BY <1>1, PosInverse
<1>4. at = RowMajor(l)
  BY <1>1, LoopInOrder
<1> HIDE DEF at, q
<1>5. q + 1 \in 1 .. n /\ (q + 1) - 1 = q
  BY <1>1, <1>2
<1>6. DOMAIN at = 1 .. n /\ at[q + 1] = Address(l, j)
  BY <1>1, <1>3, <1>4, <1>5, RowMajorIs
<1>7. vals = [k \in 1 .. n |-> src[at[k] + 1]]
  BY <1>6 DEF ElemsAt
<1>8. vals[q + 1] = src[Address(l, j) + 1] /\ Len(vals) = n
  BY <1>1, <1>5, <1>6, <1>7
<1>9. new = Overwritten([i \in 1 .. n |-> None], 0, vals)
  BY Zenon DEF copy_strided_src, at
<1> HIDE DEF vals
<1>10. new[q + 1] = vals[q + 1]
  <2>1. (q + 1) > 0 /\ (q + 1) - 0 <= Len(vals) /\ (q + 1) - 0 = q + 1
    BY <1>2, <1>5, <1>8
  <2> QED BY <1>5, <1>9, <2>1 DEF Overwritten
<1> QED BY <1>8, <1>10 DEF q

\* Where a layout without gaps has the element at an index.
LEMMA ContigAddress ==
  ASSUME NEW l, Good(l), is_contiguous(l), NEW i \in IdxOf(l.dims)
  PROVE  Address(l, i) = l.start_offset + PosOf(i, l.dims)
<1>1. Len(l.dims) \in Nat /\ DOMAIN l.dims = 1 .. Len(l.dims)
  BY GoodParts
<1>2. Address(l, i) = l.start_offset + SumTo(Terms(i, l.stride, Len(l.dims)), Len(l.dims))
  BY <1>1, AddressIs
<1> QED BY <1>2, ContigOrder

LEMMA ContigIs ==
  ASSUME NEW s \in Seq(Nat), NEW o \in Nat, NEW i \in IdxOf(s)
  PROVE  Address(contiguous_with_offset(s, o), i) = o + PosOf(i, s)
<1> DEFINE v == contiguous_with_offset(s, o)
<1>1. Good(v) /\ v.dims = s /\ v.start_offset = o
      /\ \A k \in 1 .. Len(s) : v.stride[k] = CountAfter(s, k)
  BY ContigParts
<1> HIDE DEF v
<1>2. is_contiguous(v)
  BY <1>1 DEF is_contiguous
<1>3. Address(v, i) = o + PosOf(i, s)
  BY <1>1, <1>2, ContigAddress
<1> QED BY <1>3 DEF v

LEMMA CopyMeans ==
  ASSUME VInv, NEW shape \in Seq(Nat), elem_count(shape) = elem_count(dims), CopyOf(shape)
  PROVE  Abs!Rearranged(shape)
<1>1. elem_count(shape) = elem_count(dims)
  OBVIOUS
<1>2. dims \in Seq(Nat) /\ dims = layout.dims /\ 0 \in Nat
  BY StateTyped DEF dims
<1> DEFINE v == contiguous_with_offset(shape, 0)
<1>3. layout' = v
      /\ data' = copy_strided_src(data, [i \in 1 .. elem_count(shape) |-> None], 0, layout)
  BY DEF CopyOf
<1>4. v.dims = shape
  BY <1>2, ContigParts
<1>5. ASSUME NEW i \in IdxOf(shape), NEW j \in IdxOf(dims), PosOf(i, shape) = PosOf(j, dims)
      PROVE  data'[Address(v, i) + 1] = data[Address(layout, j) + 1]
  <2>1. Address(v, i) = 0 + PosOf(i, shape) /\ PosOf(i, shape) \in Nat
    BY <1>2, ContigIs, PosBound
  <2>2. data'[PosOf(j, dims) + 1] = data[Address(layout, j) + 1]
    <3> DEFINE n == elem_count(shape)
    <3>1. n = elem_count(layout.dims) /\ data' = copy_strided_src(data, [k \in 1 .. n |-> None], 0, layout)
      BY <1>1, <1>2, <1>3
    <3>2. Fits(layout, Len(data)) /\ data \in Seq(Nat) /\ j \in IdxOf(layout.dims)
      BY <1>2 DEF VInv
    <3> HIDE DEF n
    <3>3. data'[PosOf(j, layout.dims) + 1] = data[Address(layout, j) + 1]
      BY <3>1, <3>2, CopiedAt
    <3> QED BY <1>2, <3>3
  <2> QED BY <1>5, <2>1, <2>2
<1> HIDE DEF v
<1> QED BY <1>1, <1>3, <1>4, <1>5, OrderKept

LEMMA ReshapeMeans ==
  ASSUME VInv, NEW shape \in Seq(Nat), ReshapeTo(shape)
  PROVE  Abs!Rearranged(shape)
<1> DEFINE o == layout.start_offset
<1>1. elem_count(shape) = elem_count(dims)
  BY DEF ReshapeTo
<1>2. dims \in Seq(Nat) /\ dims = layout.dims /\ o \in Nat /\ 0 \in Nat /\ Good(layout)
  BY StateTyped, GoodParts DEF dims
<1>3. CASE is_contiguous(layout) /\ View(contiguous_with_offset(shape, o))
  <2> DEFINE v == contiguous_with_offset(shape, o)
  <2>1. layout' = v /\ data' = data
    BY <1>3 DEF View
  <2>2. v.dims = shape
    BY <1>2, ContigParts
  <2>3. ASSUME NEW i \in IdxOf(shape), NEW j \in IdxOf(dims), PosOf(i, shape) = PosOf(j, dims)
        PROVE  data'[Address(v, i) + 1] = data[Address(layout, j) + 1]
    BY <1>2, ContigIs, <1>3, ContigAddress, <2>1, <2>3
  <2> HIDE DEF v
  <2> QED BY <1>1, <2>1, <2>2, <2>3, OrderKept
<1>4. CASE CopyOf(shape)
  BY <1>1, <1>4, CopyMeans
<1> QED BY <1>3, <1>4 DEF ReshapeTo

LEMMA ForceContiguousMeans ==
  ASSUME VInv, ForceContiguous
  PROVE  Abs!Rearranged(dims)
BY StateTyped, CopyMeans DEF ForceContiguous

LEMMA ShapeMeans ==
  ASSUME VInv, NEW s \in Seq(Nat \cup {None}), Reshape(s)
  PROVE  Abs!Rearranged(into_shape(s, Size(dims)))
<1> DEFINE shape == into_shape(s, elem_count(dims))
<1>1. None \notin ToSet(shape) /\ ReshapeTo(shape)
  BY DEF Reshape
<1>2. shape \in Seq(Nat)
  BY <1>1, StateTyped, IntoTyped
<1>3. Size(dims) = elem_count(dims)
  BY StateTyped, AfterRule
<1> QED BY <1>1, <1>2, <1>3, ReshapeMeans

\* A dimension of 1 left out: the dimensions after it keep their counts, and so
\* do those before it.
LEMMA CountRemoved ==
  ASSUME NEW s \in Seq(Nat), NEW d \in 1 .. Len(s), s[d] = 1
  PROVE  \A k \in 0 .. Len(s) - 1 :
           CountAfter(RemoveAt(s, d), k) = IF k < d THEN CountAfter(s, k) ELSE CountAfter(s, k + 1)
<1> DEFINE n == Len(s)
           r == RemoveAt(s, d)
<1>1. /\ r \in Seq(Nat) /\ Len(r) = n - 1 /\ n \in Nat
      /\ \A k \in 1 .. n - 1 : r[k] = IF k < d THEN s[k] ELSE s[k + 1]
  BY RemovedIs
<1> HIDE DEF r, n
<1>0. n = Len(s)
  BY DEF n
<1>2. ASSUME NEW k \in d - 1 .. n - 1 PROVE CountAfter(r, k) = CountAfter(s, k + 1)
  <2> DEFINE a == SubSeq(r, k + 1, n - 1)
             b == SubSeq(s, (k + 1) + 1, n)
  <2>0. k \in Nat /\ k <= n - 1 /\ n - 1 \in Nat
    BY <1>0, <1>1
  <2>1. a \in Seq(Nat) /\ Len(a) = (n - 1) - k /\ \A x \in 1 .. (n - 1) - k : a[x] = r[k + x]
    BY <1>1, <2>0
  <2>2. b \in Seq(Nat) /\ Len(b) = (n - 1) - k /\ \A x \in 1 .. (n - 1) - k : b[x] = s[(k + 1) + x]
    <3> DEFINE m == k + 1
    <3>1. m \in 0 .. Len(s) /\ n - m = (n - 1) - k
      BY <1>0, <1>1, <2>0
    <3> HIDE DEF m
    <3>2. /\ SubSeq(s, m + 1, n) \in Seq(Nat) /\ Len(SubSeq(s, m + 1, n)) = n - m
          /\ \A x \in 1 .. n - m : SubSeq(s, m + 1, n)[x] = s[m + x]
      BY <1>0, <3>1, SuffixIs
    <3> QED BY <3>1, <3>2 DEF m
  <2>3. ASSUME NEW x \in 1 .. (n - 1) - k PROVE r[k + x] = s[(k + 1) + x]
    BY <2>0, <1>1
  <2> HIDE DEF a, b
  <2>4. a = b
    BY <2>1, <2>2, <2>3, SeqEqual
  <2> QED BY <1>0, <1>1, <2>4 DEF CountAfter, a, b
<1> DEFINE T == {x \in 0 .. d - 1 : CountAfter(r, (d - 1) - x) = CountAfter(s, (d - 1) - x)}
<1>3. 0 \in T
  <2>1. d - 1 \in d - 1 .. n - 1 /\ (d - 1) + 1 = d /\ (d - 1) - 0 = d - 1 /\ 0 \in 0 .. d - 1
    BY <1>0, <1>1
  <2>2. CountAfter(r, d - 1) = CountAfter(s, d)
    BY <1>2, <2>1
  <2>3. CountAfter(s, d - 1) = s[d] * CountAfter(s, d) /\ CountAfter(s, d) \in Nat
    <3>1. d \in 0 .. Len(s)
      OBVIOUS
    <3> QED BY <3>1, AfterRule
  <2>4. CountAfter(s, d - 1) = CountAfter(s, d)
    BY <2>3
  <2> QED BY <2>1, <2>2, <2>4
<1>4. ASSUME NEW x \in 1 .. d - 1, x - 1 \in T PROVE x \in T
  <2> DEFINE e == d - x
  <2>1. e \in 1 .. n - 1 /\ e \in 1 .. Len(s) /\ e < d /\ (d - 1) - (x - 1) = e /\ (d - 1) - x = e - 1
    BY <1>0, <1>1
  <2> HIDE DEF e
  <2>2. CountAfter(r, e) = CountAfter(s, e)
    BY <1>4, <2>1
  <2>3. CountAfter(r, e - 1) = r[e] * CountAfter(r, e)
    BY <1>1, <2>1, AfterRule
  <2>4. CountAfter(s, e - 1) = s[e] * CountAfter(s, e)
    BY <2>1, AfterRule
  <2>5. r[e] = s[e]
    BY <1>1, <2>1
  <2>6. CountAfter(r, e - 1) = CountAfter(s, e - 1)
    BY <2>2, <2>3, <2>4, <2>5
  <2> QED BY <2>1, <2>6
<1>5. 0 .. d - 1 \subseteq T
  <2>1. d - 1 \in Nat
    BY <1>0, <1>1
  <2> HIDE DEF T
  <2> QED BY <1>3, <1>4, <2>1, UpTo
<1>6. ASSUME NEW k \in 0 .. n - 1
      PROVE  CountAfter(r, k) = IF k < d THEN CountAfter(s, k) ELSE CountAfter(s, k + 1)
  <2>1. CASE k < d
    <3>1. (d - 1) - k \in 0 .. d - 1 /\ (d - 1) - ((d - 1) - k) = k
      BY <2>1
    <3>2. (d - 1) - k \in T
      BY <1>5, <3>1
    <3> QED BY <2>1, <3>1, <3>2
  <2>2. CASE ~(k < d)
    <3>1. k \in d - 1 .. n - 1
      BY <2>2
    <3> QED BY <1>2, <2>2, <3>1
  <2> QED BY <2>1, <2>2
<1> QED BY <1>6 DEF r, n

\* The index that has 0 there stands at the same position.
LEMMA SqueezePos ==
  ASSUME NEW s \in Seq(Nat), NEW d \in 1 .. Len(s), s[d] = 1
  PROVE  /\ RemoveAt(s, d) \in Seq(Nat) /\ elem_count(RemoveAt(s, d)) = elem_count(s)
         /\ \A i \in IdxOf(RemoveAt(s, d)) :
              /\ SqueezeFrom(i, Len(s), d) \in IdxOf(s)
              /\ PosOf(SqueezeFrom(i, Len(s), d), s) = PosOf(i, RemoveAt(s, d))
<1> DEFINE n == Len(s)
           r == RemoveAt(s, d)
           l == contiguous_with_offset(s, 0)
           v == squeeze(l, d)
<1>1. r \in Seq(Nat) /\ Len(r) = n - 1
  BY RemovedIs
<1>2. \A k \in 0 .. n - 1 : CountAfter(r, k) = IF k < d THEN CountAfter(s, k) ELSE CountAfter(s, k + 1)
  BY CountRemoved
<1>3. elem_count(r) = elem_count(s)
  <2>1. 0 \in 0 .. n - 1 /\ 0 < d
    OBVIOUS
  <2>2. CountAfter(r, 0) = CountAfter(s, 0)
    BY <1>2, <2>1
  <2> HIDE DEF r
  <2> QED BY <1>1, <2>2, AfterRule
<1>4. /\ Good(l) /\ l.dims = s /\ l.start_offset = 0
      /\ \A k \in 1 .. n : l.stride[k] = CountAfter(s, k)
  BY ContigParts
<1> HIDE DEF l
<1>5. SqueezeViews(v, l, d)
  BY <1>4, SqueezeIs
<1>6. v.stride = RemoveAt(l.stride, d) /\ v.start_offset = 0
  BY <1>4 DEF squeeze, Layout
<1> HIDE DEF v
<1>7. Good(v) /\ v.dims = r /\ \A i \in IdxOf(r) : Takes(v, l, i, SqueezeFrom(i, n, d))
  BY <1>4, <1>5 DEF SqueezeViews, Views
<1>8. ASSUME NEW k \in 1 .. n - 1 PROVE v.stride[k] = CountAfter(r, k)
  <2>1. l.stride \in Seq(Nat) /\ Len(l.stride) = n
    BY <1>4, GoodParts
  <2> DEFINE w == l.stride
  <2>2. v.stride[k] = IF k < d THEN w[k] ELSE w[k + 1]
    <3>1. w \in Seq(Nat) /\ Len(w) = n /\ v.stride = RemoveAt(w, d)
      BY <1>6, <2>1
    <3> HIDE DEF w
    <3>2. \A e \in 1 .. Len(w) - 1 : RemoveAt(w, d)[e] = IF e < d THEN w[e] ELSE w[e + 1]
      BY <3>1, RemovedIs
    <3> QED BY <3>1, <3>2
  <2>3. k \in 0 .. n - 1 /\ k \in 1 .. n /\ k + 1 \in 1 .. n
    OBVIOUS
  <2> HIDE DEF r
  <2> QED BY <1>2, <1>4, <2>2, <2>3
<1> HIDE DEF r
<1>9. is_contiguous(v)
  BY <1>1, <1>7, <1>8, SeqParts DEF is_contiguous
<1>10. ASSUME NEW i \in IdxOf(r)
       PROVE  /\ SqueezeFrom(i, n, d) \in IdxOf(s)
              /\ PosOf(SqueezeFrom(i, n, d), s) = PosOf(i, r)
  <2> DEFINE j == SqueezeFrom(i, n, d)
  <2>1. j \in IdxOf(s) /\ Address(v, i) = Address(l, j)
    BY <1>4, <1>7 DEF Takes
  <2> HIDE DEF j
  <2>2. Address(v, i) = PosOf(i, r)
    BY <1>6, <1>7, <1>9, ContigAddress, <1>1, PosBound
  <2>3. Address(l, j) = PosOf(j, s)
    BY <2>1, ContigIs, PosBound DEF l
  <2>5. PosOf(j, s) = PosOf(i, r)
    BY <2>1, <2>2, <2>3
  <2> QED BY <2>1, <2>5 DEF j
<1> QED BY <1>1, <1>3, <1>10 DEF r

\* The tensor itself.
LEMMA SameMeans ==
  ASSUME VInv, View(layout)
  PROVE  Abs!Rearranged(dims)
<1>1. dims \in Seq(Nat) /\ dims = layout.dims
  BY StateTyped DEF dims
<1>2. layout' = layout /\ data' = data
  BY DEF View
<1>3. ASSUME NEW i \in IdxOf(dims), NEW j \in IdxOf(dims), PosOf(i, dims) = PosOf(j, dims)
      PROVE  data'[Address(layout, i) + 1] = data[Address(layout, j) + 1]
  <2>1. i = j
    BY <1>1, <1>3, PosInverse
  <2> QED BY <1>2, <2>1
<1> QED BY <1>1, <1>2, <1>3, OrderKept

\* A view whose indexes stand at the positions of the indexes that they are taken from.
LEMMA PlacesKept ==
  ASSUME VInv, NEW v, View(v), Good(v), elem_count(v.dims) = elem_count(dims), NEW from,
         \A i \in IdxOf(v.dims) :
           Takes(v, layout, i, from[i]) /\ PosOf(from[i], dims) = PosOf(i, v.dims)
  PROVE  Abs!Rearranged(v.dims)
<1>1. dims \in Seq(Nat) /\ dims = layout.dims /\ v.dims \in Seq(Nat)
  BY StateTyped, GoodParts DEF dims
<1>2. layout' = v /\ data' = data
  BY DEF View
<1>3. ASSUME NEW i \in IdxOf(v.dims), NEW j \in IdxOf(dims), PosOf(i, v.dims) = PosOf(j, dims)
      PROVE  data'[Address(v, i) + 1] = data[Address(layout, j) + 1]
  BY <1>1, <1>3, PosInverse, <1>2 DEF Takes
<1> QED BY <1>1, <1>2, <1>3, OrderKept

LEMMA SqueezeMeans ==
  ASSUME VInv, NEW dim \in Dims, Squeeze(dim)
  PROVE  Abs!Rearranged(dims')
<1> DEFINE d == to_index(dim, rank)
           v == squeeze(layout, d)
<1>1. d \in 1 .. rank /\ View(IF dims[d] = 1 THEN squeeze(layout, d) ELSE layout)
  <2>1. dim \in Int
    BY ViewsAssumption DEF ViewsAssumption
  <2> QED BY <2>1, StateTyped, IndexTyped DEF Squeeze
<1> HIDE DEF d
<1>2. CASE dims[d] = 1
  <2>1. SqueezeViews(v, layout, d)
    BY <1>1, <1>2, StateTyped, SqueezeIs DEF dims, rank
  <2>2. View(v)
    BY <1>1, <1>2
  <2> HIDE DEF v
  <2>3. Good(v) /\ v.dims = RemoveAt(dims, d)
        /\ \A i \in IdxOf(v.dims) : Takes(v, layout, i, SqueezeFrom(i, rank, d))
    BY <2>1 DEF SqueezeViews, Views, dims, rank
  <2>4. /\ elem_count(v.dims) = elem_count(dims)
        /\ \A i \in IdxOf(v.dims) : PosOf(SqueezeFrom(i, rank, d), dims) = PosOf(i, v.dims)
    BY <1>1, <1>2, <2>3, StateTyped, SqueezePos
  <2> DEFINE from == [i \in IdxOf(v.dims) |-> SqueezeFrom(i, rank, d)]
  <2>5. \A i \in IdxOf(v.dims) :
          Takes(v, layout, i, from[i]) /\ PosOf(from[i], dims) = PosOf(i, v.dims)
    BY <2>3, <2>4
  <2> HIDE DEF from
  <2>6. Abs!Rearranged(v.dims)
    BY <2>2, <2>3, <2>4, <2>5, PlacesKept
  <2>7. dims' = v.dims
    BY <2>2 DEF View, dims
  <2> QED BY <2>6, <2>7
<1>3. CASE dims[d] # 1
  BY <1>1, <1>3, SameMeans DEF View, dims
<1> QED BY <1>2, <1>3

\* Inserting a dimension and removing it again.
LEMMA InsertedRemoved ==
  ASSUME NEW s \in Seq(Nat), NEW d \in 1 .. Len(s) + 1, NEW x \in Nat
  PROVE  RemoveAt(InsertAt(s, d, x), d) = s
<1> DEFINE n == Len(s)
           r == InsertAt(s, d, x)
           u == RemoveAt(r, d)
<1>1. Inserted(r, s, d, x) /\ n \in Nat
  BY InsertedIs
<1> HIDE DEF r
<1>2. /\ r \in Seq(Nat) /\ Len(r) = n + 1
      /\ \A k \in 1 .. n + 1 : r[k] = IF k < d THEN s[k] ELSE IF k = d THEN x ELSE s[k - 1]
  BY <1>1 DEF Inserted
<1>3. /\ u \in Seq(Nat) /\ Len(u) = Len(r) - 1
      /\ \A k \in 1 .. Len(r) - 1 : u[k] = IF k < d THEN r[k] ELSE r[k + 1]
  BY <1>2, RemovedIs
<1>4. Len(r) - 1 = n
  BY <1>1, <1>2
<1> HIDE DEF u
<1>5. ASSUME NEW k \in 1 .. n PROVE u[k] = s[k]
  <2>1. k \in 1 .. n + 1 /\ k + 1 \in 1 .. n + 1 /\ (k + 1) - 1 = k
    BY <1>1
  <2>2. CASE k < d
    BY <1>2, <1>3, <1>4, <2>1, <2>2
  <2>3. CASE ~(k < d)
    <3>1. ~(k + 1 < d) /\ k + 1 # d
      BY <2>3
    <3>2. u[k] = r[k + 1]
      BY <1>3, <1>4, <2>3
    <3>3. r[k + 1] = s[(k + 1) - 1]
      BY <1>2, <2>1, <3>1
    <3> QED BY <2>1, <3>2, <3>3
  <2> QED BY <2>2, <2>3
<1>6. u = s
  BY <1>3, <1>4, <1>5, SeqEqual
<1> QED BY <1>6 DEF u, r

LEMMA UnsqueezeMeans ==
  ASSUME VInv, NEW dim \in Dims, Unsqueeze(dim)
  PROVE  Abs!Rearranged(dims')
<1> DEFINE d == to_index_plus_one(dim, rank)
           v == unsqueeze(layout, d)
           n == rank + 1
           From(i) == UnsqueezeFrom(i, rank, d)
<1>1. d \in 1 .. rank + 1 /\ View(v)
  <2>1. dim \in Int
    BY ViewsAssumption DEF ViewsAssumption
  <2> QED BY <2>1, StateTyped, IndexTyped DEF Unsqueeze
<1> HIDE DEF d
<1>2. dims \in Seq(Nat) /\ rank = Len(dims) /\ rank \in Nat /\ n \in Nat
  BY StateTyped
<1>3. UnsqueezeViews(v, layout, d)
  BY <1>1, StateTyped, UnsqueezeIs DEF dims, rank
<1> HIDE DEF v
<1> DEFINE s == v.dims
<1>4. Good(v) /\ s = InsertAt(dims, d, 1) /\ \A i \in IdxOf(s) : Takes(v, layout, i, From(i))
  BY <1>3 DEF UnsqueezeViews, Views, dims, rank
<1>5. Inserted(s, dims, d, 1) /\ RemoveAt(s, d) = dims
  BY <1>1, <1>2, <1>4, InsertedIs, InsertedRemoved
<1> HIDE DEF s
<1>6. s \in Seq(Nat) /\ Len(s) = n /\ s[d] = 1 /\ d \in 1 .. Len(s)
  BY <1>1, <1>2, <1>5 DEF Inserted
<1>7. ASSUME NEW i \in IdxOf(s) PROVE SqueezeFrom(From(i), n, d) = i
  <2>1. i \in [1 .. n -> Nat] /\ \A k \in 1 .. n : i[k] \in Nat /\ i[k] < s[k]
    BY <1>6, IdxFun, IdxParts
  <2>2. i[d] = 0
    <3>1. i[d] \in Nat /\ i[d] < 1
      BY <1>6, <2>1
    <3> QED BY <3>1
  <2> DEFINE j == From(i)
             t == SqueezeFrom(j, n, d)
  <2>3. t = [k \in 1 .. n |-> IF k < d THEN j[k] ELSE IF k = d THEN 0 ELSE j[k - 1]]
    BY DEF SqueezeFrom
  <2>4. j = [k \in 1 .. rank |-> IF k < d THEN i[k] ELSE i[k + 1]]
    BY DEF UnsqueezeFrom
  <2> HIDE DEF t, j
  <2>5. ASSUME NEW k \in 1 .. n PROVE t[k] = i[k]
    <3>1. CASE k < d
      <4>1. k \in 1 .. rank
        BY <1>1, <1>2, <3>1
      <4> QED BY <2>3, <2>4, <3>1, <4>1
    <3>2. CASE k = d
      BY <2>2, <2>3, <3>2
    <3>3. CASE k > d
      BY <1>1, <1>2, <3>3, <2>3, <2>4
    <3> QED BY <1>1, <1>2, <3>1, <3>2, <3>3
  <2>6. t = [k \in 1 .. n |-> t[k]] /\ i = [k \in 1 .. n |-> i[k]]
    BY <2>1, <2>3
  <2>7. t = i
    BY <2>5, <2>6
  <2> QED BY <2>7 DEF t, j
<1>8. /\ elem_count(s) = elem_count(dims)
      /\ \A j \in IdxOf(dims) : PosOf(SqueezeFrom(j, n, d), s) = PosOf(j, dims)
  BY <1>5, <1>6, SqueezePos
<1> DEFINE from == [i \in IdxOf(s) |-> From(i)]
<1>9. ASSUME NEW i \in IdxOf(s)
      PROVE  Takes(v, layout, i, from[i]) /\ PosOf(from[i], dims) = PosOf(i, s)
  BY <1>4, <1>7, <1>8 DEF Takes, dims
<1> HIDE DEF from
<1>10. Abs!Rearranged(s)
  BY <1>1, <1>4, <1>8, <1>9, PlacesKept DEF s
<1>11. dims' = s
  BY <1>1 DEF View, dims, s
<1> QED BY <1>10, <1>11

\* flatten of one dimension.
LEMMA FlatOne ==
  ASSUME NEW s \in Seq(Nat), NEW d \in 1 .. Len(s)
  PROVE  SubSeq(s, 1, d - 1) \o <<elem_count(SubSeq(s, d, d))>> \o SubSeq(s, d + 1, Len(s)) = s
<1> DEFINE n == Len(s)
           a == SubSeq(s, 1, d - 1)
           u == SubSeq(s, d, d)
           x == elem_count(u)
           b == SubSeq(s, d + 1, n)
           c == a \o <<x>>
           r == c \o b
<1>0. n \in Nat /\ d - 1 \in Nat /\ n - d \in Nat /\ s[d] \in Nat
  OBVIOUS
<1>1. x = s[d]
  <2>1. u \in Seq(Nat) /\ Len(u) = 1 /\ u[1] = s[d]
    OBVIOUS
  <2> HIDE DEF u
  <2>2. CountAfter(u, 1) = 1 /\ CountAfter(u, 0) = elem_count(u)
    BY <2>1, AfterRule
  <2>3. CountAfter(u, 1 - 1) = u[1] * CountAfter(u, 1) /\ 1 - 1 = 0
    <3>1. 1 \in 1 .. Len(u) /\ 1 - 1 = 0
      BY <2>1
    <3>2. \A k \in 1 .. Len(u) : CountAfter(u, k - 1) = u[k] * CountAfter(u, k)
      BY <2>1, AfterRule
    <3> QED BY <3>1, <3>2
  <2> QED BY <1>0, <2>1, <2>2, <2>3
<1> HIDE DEF x
<1>2. a \in Seq(Nat) /\ Len(a) = d - 1 /\ \A k \in 1 .. d - 1 : a[k] = s[k]
  OBVIOUS
<1>3. b \in Seq(Nat) /\ Len(b) = n - d /\ \A k \in 1 .. n - d : b[k] = s[d + k]
  OBVIOUS
<1> HIDE DEF a, b
<1>4. c \in Seq(Nat) /\ Len(c) = d /\ c[d] = s[d] /\ \A k \in 1 .. d - 1 : c[k] = a[k]
  BY <1>0, <1>1, <1>2
<1> HIDE DEF c
<1>5. r \in Seq(Nat) /\ Len(r) = n
  <2>1. r \in Seq(Nat) /\ Len(r) = Len(c) + Len(b)
    BY <1>3, <1>4, ConcatIs
  <2>2. d + (n - d) = n
    BY <1>0
  <2> QED BY <1>3, <1>4, <2>1, <2>2
<1> DEFINE lb == Len(b)
           lc == Len(c)
<1>8. /\ \A k \in 1 .. lc : r[k] = c[k]
      /\ \A k \in 1 .. lb : r[lc + k] = b[k]
  BY <1>3, <1>4, ConcatIs
<1> HIDE DEF r, n
<1>6. ASSUME NEW k \in 1 .. n PROVE r[k] = s[k]
  <2>1. CASE k <= d
    <3>1. r[k] = c[k]
      BY <1>0, <1>4, <1>8, <2>1
    <3>2. CASE k = d
      BY <1>4, <3>1, <3>2
    <3>3. CASE k # d
      <4>1. k \in 1 .. d - 1
        BY <1>0, <2>1, <3>3
      <4> QED BY <1>2, <1>4, <3>1, <4>1
    <3> QED BY <3>2, <3>3
  <2>2. CASE k > d
    <3> DEFINE e == k - d
    <3>1. e \in 1 .. n - d /\ d + e = k
      BY <1>0, <2>2
    <3> HIDE DEF e
    <3>2. r[d + e] = b[e]
      BY <1>3, <1>4, <1>8, <3>1
    <3> QED BY <1>3, <3>1, <3>2
  <2> QED BY <2>1, <2>2
<1>9. r = s
  BY <1>5, <1>6, SeqEqual DEF n
<1> QED BY <1>9 DEF r, c, a, b, x, u, n

LEMMA FlattenMeans ==
  ASSUME VInv, NEW dim1 \in Dims, NEW dim2 \in Dims, Flatten(dim1, dim2)
  PROVE  LET d1 == to_index(dim1, rank)
             d2 == to_index(dim2, rank)
         IN  Abs!Rearranged(
               CASE rank = 0 -> <<1>>
                 [] rank > 0 /\ d1 > d2 -> dims
                 [] rank > 0 /\ d1 <= d2 ->
                      SubSeq(dims, 1, d1 - 1) \o <<Size(SubSeq(dims, d1, d2))>>
                        \o SubSeq(dims, d2 + 1, rank))
<1> DEFINE d1 == to_index(dim1, rank)
           d2 == to_index(dim2, rank)
           flat == SubSeq(dims, 1, d1 - 1) \o <<elem_count(SubSeq(dims, d1, d2))>>
                     \o SubSeq(dims, d2 + 1, rank)
           sized == SubSeq(dims, 1, d1 - 1) \o <<Size(SubSeq(dims, d1, d2))>>
                     \o SubSeq(dims, d2 + 1, rank)
           shape == CASE rank = 0 -> <<1>>
                      [] rank > 0 /\ d1 > d2 -> dims
                      [] rank > 0 /\ d1 <= d2 -> sized
<1>1. dim1 \in Int /\ dim2 \in Int
  BY ViewsAssumption DEF ViewsAssumption
<1>2. dims \in Seq(Nat) /\ rank = Len(dims) /\ rank \in Nat
  BY StateTyped
<1>3. CASE rank = 0
  <2>1. ReshapeTo(<<1>>)
    BY <1>3 DEF Flatten
  <2>2. <<1>> \in Seq(Nat)
    OBVIOUS
  <2>3. Abs!Rearranged(<<1>>)
    BY <2>1, <2>2, ReshapeMeans
  <2> HIDE DEF d1, d2, sized
  <2>4. shape = <<1>>
    BY <1>3
  <2> HIDE DEF shape
  <2>5. Abs!Rearranged(shape)
    BY <2>3, <2>4
  <2> QED BY <2>5 DEF shape, sized, d1, d2
<1>4. CASE rank # 0
  <2>1. /\ d1 # None /\ d2 # None
        /\ \/ d1 >= d2 /\ View(layout)
           \/ d1 < d2 /\ ReshapeTo(flat)
    BY <1>4 DEF Flatten
  <2>2. d1 \in 1 .. rank /\ d2 \in 1 .. rank /\ rank > 0
    BY <1>1, <1>2, <1>4, <2>1, IndexTyped
  <2> HIDE DEF d1, d2
  <2>3. flat \in Seq(Nat)
    BY <1>2, <2>2, FlatTyped
  <2>4. sized = flat
    <3>1. SubSeq(dims, d1, d2) \in Seq(Nat)
      BY <1>2, <2>2
    <3>2. Size(SubSeq(dims, d1, d2)) = elem_count(SubSeq(dims, d1, d2))
      BY <3>1, AfterRule
    <3> QED BY <3>2
  <2>5. d1 = d2 => flat = dims
    BY <1>2, <2>2, FlatOne
  <2> HIDE DEF flat, sized
  <2>6. CASE View(layout) /\ d1 >= d2
    <3>1. shape = dims
      <4>1. CASE d1 > d2
        BY <1>4, <2>2, <4>1
      <4>2. CASE ~(d1 > d2)
        <5>1. d1 = d2
          BY <2>2, <2>6, <4>2
        <5> QED BY <1>4, <2>2, <2>4, <2>5, <5>1
      <4> QED BY <4>1, <4>2
    <3> HIDE DEF shape
    <3>2. Abs!Rearranged(shape)
      BY <2>6, <3>1, SameMeans
    <3> QED BY <3>2 DEF shape, sized, d1, d2
  <2>7. CASE ReshapeTo(flat) /\ d1 < d2
    <3>1. shape = flat
      BY <1>4, <2>2, <2>4, <2>7
    <3> HIDE DEF shape
    <3>2. Abs!Rearranged(shape)
      BY <2>3, <2>7, <3>1, ReshapeMeans
    <3> QED BY <3>2 DEF shape, sized, d1, d2
  <2> QED BY <2>1, <2>6, <2>7
<1> QED BY <1>3, <1>4

\* One index of a dimension, which is then left out.
RowFrom(x, n, d, at) == NarrowFrom(SqueezeFrom(x, n, d), n, d, at)

LEMMA RowIndex ==
  ASSUME NEW n \in Nat, NEW d \in 1 .. n, NEW at \in Nat,
         NEW x \in Seq(Nat), Len(x) = n - 1
  PROVE  RowFrom(x, n, d, at) = InsertAt(x, d, at)
<1> DEFINE r == InsertAt(x, d, at)
           j == SqueezeFrom(x, n, d)
           t == RowFrom(x, n, d, at)
<1>1. Inserted(r, x, d, at)
  <2>1. d \in 1 .. Len(x) + 1
    OBVIOUS
  <2> QED BY <2>1, InsertedIs
<1>2. /\ r \in Seq(Nat) /\ Len(r) = n
      /\ \A k \in 1 .. n : r[k] = IF k < d THEN x[k] ELSE IF k = d THEN at ELSE x[k - 1]
  <2>1. Len(x) + 1 = n
    OBVIOUS
  <2> HIDE DEF r
  <2> QED BY <1>1, <2>1 DEF Inserted
<1>3. j = [k \in 1 .. n |-> IF k < d THEN x[k] ELSE IF k = d THEN 0 ELSE x[k - 1]]
  BY DEF SqueezeFrom
<1>4. t = [k \in 1 .. n |-> IF k = d THEN j[k] + at ELSE j[k]]
  BY DEF RowFrom, NarrowFrom
<1> HIDE DEF r, j, t
<1>5. ASSUME NEW k \in 1 .. n PROVE t[k] = r[k]
  BY <1>2, <1>3, <1>4
<1>6. r = [k \in 1 .. n |-> r[k]] /\ t = [k \in 1 .. n |-> t[k]]
  <2>1. DOMAIN r = 1 .. n
    BY <1>2
  <2> QED BY <1>2, <1>4, <2>1, SeqIsFun
<1>7. t = r
  BY <1>5, <1>6
<1> QED BY <1>7 DEF t, r

\* The row of a tensor: what Tensor::narrow to one index gives, and its
\* dimensions without the one that is 1.
LEMMA RowViews ==
  ASSUME VInv, NEW d \in 1 .. rank, NEW at \in Nat, at < dims[d],
         NEW row, row = Narrowed(layout, d, at, 1)
  PROVE  /\ Fits(row, Len(data)) /\ Len(row.dims) = rank /\ row.dims[d] = 1
         /\ RemoveAt(row.dims, d) = RemoveAt(dims, d) /\ RemoveAt(dims, d) \in Seq(Nat)
         /\ \A x \in IdxOf(RemoveAt(dims, d)) : SqueezeFrom(x, rank, d) \in IdxOf(row.dims)
         /\ \A j \in IdxOf(row.dims) : Takes(row, layout, j, NarrowFrom(j, rank, d, at))
<1>1. dims \in Seq(Nat) /\ rank = Len(dims) /\ rank \in Nat /\ DOMAIN dims = 1 .. rank
  BY StateTyped
<1>2. /\ Fits(row, Len(data)) /\ Len(row.dims) = rank
      /\ \A k \in 1 .. rank : row.dims[k] = IF k = d THEN 1 ELSE dims[k]
  BY RowIs
<1>3. NarrowViews(row, layout, d, at, 1)
  <2>1. at + 1 <= dims[d] /\ 1 \in Nat
    BY <1>1
  <2> QED BY <2>1, StateTyped, NarrowedIs DEF dims, rank
<1>4. \A j \in IdxOf(row.dims) : Takes(row, layout, j, NarrowFrom(j, rank, d, at))
  BY <1>3 DEF NarrowViews, Views, rank
<1>5. row.dims \in Seq(Nat)
  BY <1>2, GoodParts DEF Fits
<1> DEFINE a == RemoveAt(row.dims, d)
           b == RemoveAt(dims, d)
           w == row.dims
<1>6. /\ a \in Seq(Nat) /\ Len(a) = rank - 1
      /\ \A k \in 1 .. rank - 1 : a[k] = IF k < d THEN w[k] ELSE w[k + 1]
  BY <1>2, <1>5, RemovedIs
<1>7. /\ b \in Seq(Nat) /\ Len(b) = rank - 1
      /\ \A k \in 1 .. rank - 1 : b[k] = IF k < d THEN dims[k] ELSE dims[k + 1]
  BY <1>1, RemovedIs
<1>8. a = b
  <2> HIDE DEF a, b, w
  <2>1. ASSUME NEW k \in 1 .. rank - 1 PROVE a[k] = b[k]
    <3>1. k \in 1 .. rank /\ k + 1 \in 1 .. rank /\ (k < d => k # d) /\ (~(k < d) => k + 1 # d)
      BY <1>1
    <3> QED BY <1>2, <1>6, <1>7, <3>1 DEF w
  <2> QED BY <1>6, <1>7, <2>1, SeqEqual
<1>9. \A x \in IdxOf(a) : SqueezeFrom(x, rank, d) \in IdxOf(w)
  BY <1>2, <1>5, SqueezePos
<1> QED BY <1>2, <1>4, <1>7, <1>8, <1>9

LEMMA FixedBecomes ==
  ASSUME NEW d, NEW at, at < dims[d], dims' = RemoveAt(dims, d),
         elem' = [x \in Index(RemoveAt(dims, d)) |-> elem[InsertAt(x, d, at)]]
  PROVE  Abs!Fixed(d, at)
BY AbsSame, Zenon DEF Abs!Fixed, Abs!Becomes, Abs!RemoveAt, RemoveAt, Abs!InsertAt, InsertAt

LEMMA TailRemoves ==
  ASSUME NEW s \in Seq(Nat), 1 \in 1 .. Len(s)
  PROVE  Tail(s) = RemoveAt(s, 1)
<1> DEFINE a == Tail(s)
           b == RemoveAt(s, 1)
           m == Len(s) - 1
<1>1. a \in Seq(Nat) /\ Len(a) = m /\ \A k \in 1 .. m : a[k] = s[k + 1]
  OBVIOUS
<1>2. b \in Seq(Nat) /\ Len(b) = m /\ \A k \in 1 .. m : b[k] = IF k < 1 THEN s[k] ELSE s[k + 1]
  BY RemovedIs
<1>3. \A k \in 1 .. m : ~(k < 1)
  OBVIOUS
<1> HIDE DEF a, b, m
<1>4. a = b
  BY <1>1, <1>2, <1>3, SeqEqual
<1> QED BY <1>4 DEF a, b

LEMMA GetOnDimMeans ==
  ASSUME VInv, NEW dim \in Dims, NEW at \in Sizes, GetOnDim(dim, at)
  PROVE  Abs!Fixed(to_index(dim, rank), at)
<1> DEFINE d == to_index(dim, rank)
           row == Narrowed(layout, d, at, 1)
           v == squeeze(row, d)
           u == RemoveAt(dims, d)
           from == [x \in IdxOf(u) |-> RowFrom(x, rank, d, at)]
<1>1. dim \in Int /\ at \in Nat
  BY ViewsAssumption DEF ViewsAssumption
<1>2. d \in 1 .. rank /\ at < dims[d] /\ View(v)
  BY <1>1, StateTyped, IndexTyped DEF GetOnDim
<1> HIDE DEF d
<1>3. /\ Fits(row, Len(data)) /\ Len(row.dims) = rank /\ row.dims[d] = 1
      /\ RemoveAt(row.dims, d) = u /\ u \in Seq(Nat)
      /\ \A j \in IdxOf(row.dims) : Takes(row, layout, j, NarrowFrom(j, rank, d, at))
  BY <1>1, <1>2, RowViews
<1> HIDE DEF row, u
<1>4. SqueezeViews(v, row, d)
  BY <1>2, <1>3, SqueezeIs DEF Fits
<1> HIDE DEF v
<1>5. Good(v) /\ v.dims = u /\ \A x \in IdxOf(u) : Takes(v, row, x, SqueezeFrom(x, rank, d))
  BY <1>3, <1>4 DEF SqueezeViews, Views
<1>6. ASSUME NEW x \in IdxOf(v.dims) PROVE Takes(v, layout, x, from[x])
  <2> DEFINE j == SqueezeFrom(x, rank, d)
             i == NarrowFrom(j, rank, d, at)
  <2>1. j \in IdxOf(row.dims) /\ Address(v, x) = Address(row, j)
    BY <1>5 DEF Takes
  <2>2. i \in IdxOf(layout.dims) /\ Address(row, j) = Address(layout, i)
    BY <1>3, <2>1 DEF Takes
  <2>3. from[x] = i
    BY <1>5 DEF RowFrom
  <2> HIDE DEF from, i, j
  <2> QED BY <2>1, <2>2, <2>3 DEF Takes
<1>7. \A x \in Index(u) : from[x] = InsertAt(x, d, at)
  <2> SUFFICES ASSUME NEW x \in IdxOf(u) PROVE from[x] = InsertAt(x, d, at)
    BY <1>3, IndexIs
  <2>1. Len(u) = rank - 1
    BY <1>2, StateTyped, RemovedIs DEF u
  <2>2. x \in Seq(Nat) /\ Len(x) = rank - 1
    BY <1>3, <2>1, IdxFun
  <2> QED BY <1>1, <1>2, <2>2, StateTyped, RowIndex
<1> HIDE DEF from
<1>8. dims' = u /\ elem' = [x \in Index(u) |-> elem[from[x]]]
  BY <1>2, <1>5, <1>6, ViewTakes
<1>9. elem' = [x \in Index(u) |-> elem[InsertAt(x, d, at)]]
  BY <1>7, <1>8
<1> QED BY <1>2, <1>8, <1>9, FixedBecomes DEF d, u

LEMMA GetMeans ==
  ASSUME VInv, NEW at \in Sizes, Get(at)
  PROVE  Abs!Fixed(1, at)
<1> DEFINE row == Narrowed(layout, 1, at, 1)
           u == RemoveAt(dims, 1)
           from == [x \in IdxOf(u) |-> RowFrom(x, rank, 1, at)]
           o == IF is_contiguous(row) THEN row.start_offset ELSE 0
           v == contiguous_with_offset(u, o)
<1>1. at \in Nat
  BY ViewsAssumption DEF ViewsAssumption
<1>2. 1 \in 1 .. rank /\ at < dims[1] /\ dims \in Seq(Nat) /\ rank = Len(dims) /\ rank \in Nat
  BY StateTyped DEF Get
<1>3. /\ Fits(row, Len(data)) /\ Len(row.dims) = rank /\ row.dims[1] = 1
      /\ RemoveAt(row.dims, 1) = u /\ u \in Seq(Nat)
      /\ \A j \in IdxOf(row.dims) : Takes(row, layout, j, NarrowFrom(j, rank, 1, at))
  BY <1>1, <1>2, RowViews
<1>4. Tail(dims) = u
  BY <1>2, TailRemoves
<1>5. /\ layout' = v
      /\ is_contiguous(row) => data' = data
      /\ ~ is_contiguous(row) => data' = copy_strided_src(data, [k \in 1 .. elem_count(u) |-> None], 0, row)
  <2> HIDE DEF row, u
  <2>1. /\ is_contiguous(row) => View(contiguous_with_offset(u, row.start_offset))
        /\ ~ is_contiguous(row) =>
             /\ layout' = contiguous_with_offset(u, 0)
             /\ data' = copy_strided_src(data, [k \in 1 .. elem_count(u) |-> None], 0, row)
    BY <1>4 DEF Get, row
  <2> QED BY <2>1 DEF View
<1> HIDE DEF row, u
<1>6. Good(row) /\ row.dims \in Seq(Nat) /\ row.start_offset \in Nat /\ o \in Nat
  BY <1>3, GoodParts DEF Fits
<1> HIDE DEF o
<1>7. v.dims = u
  BY <1>3, <1>6, ContigParts
<1>8. /\ elem_count(u) = elem_count(row.dims)
      /\ \A x \in IdxOf(u) :
           /\ SqueezeFrom(x, rank, 1) \in IdxOf(row.dims)
           /\ PosOf(SqueezeFrom(x, rank, 1), row.dims) = PosOf(x, u)
  BY <1>2, <1>3, <1>6, SqueezePos
<1>9. ASSUME NEW x \in IdxOf(v.dims)
      PROVE  /\ from[x] \in IdxOf(dims)
             /\ data'[Address(v, x) + 1] = data[Address(layout, from[x]) + 1]
  <2> DEFINE j == SqueezeFrom(x, rank, 1)
             i == NarrowFrom(j, rank, 1, at)
  <2>1. j \in IdxOf(row.dims) /\ PosOf(j, row.dims) = PosOf(x, u) /\ PosOf(x, u) \in Nat
    BY <1>3, <1>7, <1>8, PosBound
  <2>2. i \in IdxOf(dims) /\ Address(row, j) = Address(layout, i)
    BY <1>3, <2>1 DEF Takes, dims
  <2>3. from[x] = i
    BY <1>7 DEF RowFrom
  <2>4. Address(v, x) = o + PosOf(x, u)
    BY <1>3, <1>6, <1>7, ContigIs
  <2> HIDE DEF from, i, j, v
  <2>5. data'[Address(v, x) + 1] = data[Address(row, j) + 1]
    <3>1. CASE is_contiguous(row)
      BY <1>6, <2>1, <3>1, ContigAddress, <1>5, <2>4 DEF o
    <3>2. CASE ~ is_contiguous(row)
      <4> DEFINE n == elem_count(u)
      <4>1. n = elem_count(row.dims) /\ data' = copy_strided_src(data, [k \in 1 .. n |-> None], 0, row)
        BY <1>5, <1>8, <3>2
      <4>2. data \in Seq(Nat) /\ Fits(row, Len(data)) /\ j \in IdxOf(row.dims)
        BY <1>3, <2>1 DEF VInv
      <4> HIDE DEF n
      <4>3. data'[PosOf(j, row.dims) + 1] = data[Address(row, j) + 1]
        BY <4>1, <4>2, CopiedAt
      <4>4. Address(v, x) = PosOf(x, u)
        BY <2>1, <2>4, <3>2 DEF o
      <4> QED BY <2>1, <4>3, <4>4
    <3> QED BY <3>1, <3>2
  <2> QED BY <2>2, <2>3, <2>5
<1>10. \A x \in Index(u) : from[x] = InsertAt(x, 1, at)
  <2> SUFFICES ASSUME NEW x \in IdxOf(u) PROVE from[x] = InsertAt(x, 1, at)
    BY <1>3, IndexIs
  <2>1. Len(u) = rank - 1
    BY <1>2, RemovedIs DEF u
  <2>2. x \in Seq(Nat) /\ Len(x) = rank - 1
    BY <1>3, <2>1, IdxFun
  <2> QED BY <1>1, <1>2, <2>2, RowIndex
<1> HIDE DEF from, v
<1>11. dims' = u /\ elem' = [x \in Index(u) |-> elem[from[x]]]
  BY <1>3, <1>5, <1>7, <1>9, ElemsTaken
<1>12. elem' = [x \in Index(u) |-> elem[InsertAt(x, 1, at)]]
  BY <1>10, <1>11
<1> QED BY <1>2, <1>11, <1>12, FixedBecomes DEF u

\* Each operation returns the tensor that it documents.
StepMeans ==
  /\ \A dim \in Dims, start, len \in Sizes :
       LET d == to_index(dim, rank)
       IN  /\ Narrow(dim, start, len) => Abs!Slice(d, start, len)
           /\ Unfold(dim, start, len) => Abs!Windows(d, start, len)
  /\ \A dim \in Dims, n \in Sizes : GetOnDim(dim, n) => Abs!Fixed(to_index(dim, rank), n)
  /\ \A n \in Sizes : Get(n) => Abs!Fixed(1, n)
  /\ \A dim1, dim2 \in Dims :
       LET d1 == to_index(dim1, rank)
           d2 == to_index(dim2, rank)
       IN  /\ Transpose(dim1, dim2) => Abs!Permuted(Swap([d \in 1 .. rank |-> d], d1, d2))
           /\ Flatten(dim1, dim2) =>
                Abs!Rearranged(
                  CASE rank = 0 -> <<1>>
                    [] rank > 0 /\ d1 > d2 -> dims
                    [] rank > 0 /\ d1 <= d2 ->
                         SubSeq(dims, 1, d1 - 1) \o <<Size(SubSeq(dims, d1, d2))>>
                           \o SubSeq(dims, d2 + 1, rank))
  /\ \A idxs \in TupleOf(1 .. rank, rank) : Permute(idxs) => Abs!Permuted(idxs)
  /\ \A shape \in Shapes :
       /\ BroadcastAs(shape) => Abs!Repeated(shape)
       /\ BroadcastLeft(shape) => Abs!Repeated(shape \o dims)
       /\ Reshape(shape) => Abs!Rearranged(into_shape(shape, Size(dims)))
  /\ \A dim \in Dims :
       /\ Squeeze(dim) => Abs!Rearranged(dims')
       /\ Unsqueeze(dim) => Abs!Rearranged(dims')
  /\ ForceContiguous => Abs!Rearranged(dims)

LEMMA VInvMeans == VInv => StepMeans
<1> SUFFICES ASSUME VInv PROVE StepMeans
  OBVIOUS
<1>1. \A dim \in Dims, start, len \in Sizes :
        LET d == to_index(dim, rank)
        IN  /\ Narrow(dim, start, len) => Abs!Slice(d, start, len)
            /\ Unfold(dim, start, len) => Abs!Windows(d, start, len)
  BY NarrowMeans, UnfoldMeans, Zenon
<1>2. \A dim \in Dims, n \in Sizes : GetOnDim(dim, n) => Abs!Fixed(to_index(dim, rank), n)
  BY GetOnDimMeans, Zenon
<1>3. \A n \in Sizes : Get(n) => Abs!Fixed(1, n)
  BY GetMeans, Zenon
<1>4. \A dim1, dim2 \in Dims :
        LET d1 == to_index(dim1, rank)
            d2 == to_index(dim2, rank)
        IN  /\ Transpose(dim1, dim2) => Abs!Permuted(Swap([d \in 1 .. rank |-> d], d1, d2))
            /\ Flatten(dim1, dim2) =>
                 Abs!Rearranged(
                   CASE rank = 0 -> <<1>>
                     [] rank > 0 /\ d1 > d2 -> dims
                     [] rank > 0 /\ d1 <= d2 ->
                          SubSeq(dims, 1, d1 - 1) \o <<Size(SubSeq(dims, d1, d2))>>
                            \o SubSeq(dims, d2 + 1, rank))
  BY TransposeMeans, FlattenMeans, Zenon
<1>5. \A idxs \in TupleOf(1 .. rank, rank) : Permute(idxs) => Abs!Permuted(idxs)
  BY PermuteMeans, Zenon
<1>6. ASSUME NEW shape \in Shapes
      PROVE  /\ BroadcastAs(shape) => Abs!Repeated(shape)
             /\ BroadcastLeft(shape) => Abs!Repeated(shape \o dims)
             /\ Reshape(shape) => Abs!Rearranged(into_shape(shape, Size(dims)))
  <2>1. shape \in Seq(Nat \cup {None})
    BY ViewsAssumption DEF ViewsAssumption
  <2>2. BroadcastAs(shape) => shape \in Seq(Nat)
    BY <2>1, SeqFull DEF BroadcastAs
  <2>3. BroadcastAs(shape) => Abs!Repeated(shape)
    BY <2>2, BroadcastMeans, Zenon
  <2>4. BroadcastLeft(shape) => Abs!Repeated(shape \o dims)
    BY <2>1, BroadcastLeftMeans, Zenon
  <2>5. Reshape(shape) => Abs!Rearranged(into_shape(shape, Size(dims)))
    BY <2>1, ShapeMeans, Zenon
  <2> QED BY <2>3, <2>4, <2>5
<1>7. \A dim \in Dims :
        /\ Squeeze(dim) => Abs!Rearranged(dims')
        /\ Unsqueeze(dim) => Abs!Rearranged(dims')
  BY SqueezeMeans, UnsqueezeMeans, Zenon
<1>8. ForceContiguous => Abs!Rearranged(dims)
  BY ForceContiguousMeans, Zenon
<1> QED BY <1>1, <1>2, <1>3, <1>4, <1>5, <1>6, <1>7, <1>8, Zenon DEF StepMeans

\* Whatever views, reshapes and copies were taken before it, every operation
\* returns the tensor that its documentation describes: TensorViews implements
\* TensorValue, with the elements that the layout addresses as the tensor.
THEOREM ViewsAreMeant == Spec => ViewsMean
<1>1. Init => VInv
  BY InitFits
<1>2. VInv /\ [Next]_vars => VInv'
  BY StepKeeps
<1>3. VInv => [StepMeans]_vars
  BY VInvMeans
<1> QED BY <1>1, <1>2, <1>3, PTL DEF Spec, ViewsMean, StepMeans

-----------------------------------------------------------------------------
(* Products of matrices.                                                   *)

\* The element (i, j) of the t-th matrix of m times n is at x.
Placed(x, m, n, t, i, j) ==
  /\ t \in Nat /\ i \in Nat /\ j \in Nat /\ i < m /\ j < n
  /\ x = t * (m * n) + i * n + j

LEMMA DivParts ==
  ASSUME NEW x \in Nat, NEW c \in Nat \ {0}
  PROVE  x \div c \in Nat /\ x % c \in Nat /\ x % c < c /\ x = (x \div c) * c + (x % c)
<1> DEFINE q == x \div c
           r == x % c
<1>1. q \in Int /\ r \in Nat /\ r < c /\ x = c * q + r
  OBVIOUS
<1> HIDE DEF q, r
<1>2. ~(q < 0)
  <2> SUFFICES ASSUME q < 0 PROVE FALSE
    OBVIOUS
  <2> DEFINE e == -1 - q
  <2>1. e \in Nat /\ q = -1 - e
    BY <1>1
  <2> HIDE DEF e
  <2>2. c * (-1 - e) = -c - c * e
    BY <2>1
  <2> DEFINE z == c * e
  <2>3. z \in Nat
    BY <2>1, Times
  <2>4. x = -c - z + r
    BY <1>1, <2>1, <2>2
  <2> HIDE DEF z
  <2> QED BY <1>1, <2>3, <2>4
<1>3. c * q = q * c
  BY <1>1
<1> QED BY <1>1, <1>2, <1>3 DEF q, r

LEMMA PlaceBound ==
  ASSUME NEW a \in Nat, NEW b \in Nat, NEW m \in Nat, NEW n \in Nat, a < m, b < n
  PROVE  a * n + b \in Nat /\ a * n + b < m * n /\ m * n \in Nat \ {0}
<1> DEFINE e == m - a - 1
           x == a * n
           z == e * n
<1>1. e \in Nat /\ m = a + 1 + e
  OBVIOUS
<1> HIDE DEF e
<1>2. m * n = a * n + n + e * n
  BY <1>1
<1>3. x \in Nat /\ z \in Nat
  BY <1>1, Times
<1>4. m * n = x + n + z
  BY <1>2
<1> HIDE DEF x, z
<1>5. x + b \in Nat /\ x + b < m * n /\ m * n \in Nat \ {0}
  BY <1>3, <1>4
<1> QED BY <1>5 DEF x

LEMMA PlaceIs ==
  ASSUME NEW m \in Nat, NEW n \in Nat, NEW x, NEW t, NEW i, NEW j, Placed(x, m, n, t, i, j)
  PROVE  /\ x \div (m * n) = t /\ (x \div n) % m = i /\ x % n = j
         /\ x \div n = t * m + i
<1>1. /\ t \in Nat /\ i \in Nat /\ j \in Nat /\ i < m /\ j < n
      /\ x = t * (m * n) + i * n + j
  BY DEF Placed
<1>2. /\ i * n + j \in Nat /\ i * n + j < m * n /\ m * n \in Nat \ {0}
      /\ m \in Nat \ {0} /\ n \in Nat \ {0}
  BY <1>1, PlaceBound
<1>3. Splits(x, t, m * n, i * n + j)
  <2> DEFINE c == m * n
             z == i * n
             y == t * c
  <2>1. z \in Nat /\ y \in Nat /\ x = y + z + j
    BY <1>1, <1>2, Times
  <2>2. z + j \in Nat /\ z + j < c /\ c \in Nat \ {0}
    BY <1>2
  <2> HIDE DEF y, z
  <2>3. x = y + (z + j)
    BY <1>1, <2>1
  <2> HIDE DEF c
  <2>4. x = t * c + (z + j)
    BY <2>3 DEF y
  <2> QED BY <1>1, <2>2, <2>4 DEF Splits, c, z
<1>4. t * m + i \in Nat /\ Splits(t * m + i, t, m, i)
  <2> DEFINE y == t * m
  <2>1. y \in Nat
    BY <1>1, Times
  <2>2. y + i \in Nat
    BY <1>1, <2>1
  <2> QED BY <1>1, <1>2, <2>2 DEF Splits
<1>5. Splits(x, t * m + i, n, j)
  <2>1. (t * m + i) * n = t * (m * n) + i * n
    <3> DEFINE y == t * m
    <3>1. y \in Nat /\ y * n = t * (m * n)
      BY <1>1, Times, TimesAssoc
    <3> HIDE DEF y
    <3>2. (y + i) * n = y * n + i * n
      BY <1>1, <3>1
    <3> QED BY <3>1, <3>2 DEF y
  <2>2. x = (t * m + i) * n + j
    BY <1>1, <2>1
  <2> QED BY <1>1, <1>2, <1>4, <2>2 DEF Splits
<1>6. x \div (m * n) = t
  BY <1>3, DivRule
<1>7. x \div n = t * m + i /\ x % n = j
  BY <1>5, DivRule
<1>8. (t * m + i) % m = i
  BY <1>4, DivRule
<1> QED BY <1>6, <1>7, <1>8

LEMMA PlaceExists ==
  ASSUME NEW x \in Nat, NEW b \in Nat, NEW m \in Nat, NEW n \in Nat, x < b * m * n
  PROVE  \E t, i, j : t < b /\ Placed(x, m, n, t, i, j)
<1> DEFINE c == b * m
<1>1. c \in Nat /\ x < c * n /\ (m = 0 => c = 0)
  BY Times
<1> HIDE DEF c
<1>2. n \in Nat \ {0} /\ m \in Nat \ {0}
  <2>1. c # 0 /\ n # 0
    BY <1>1, Times
  <2> QED BY <1>1, <2>1
<1> DEFINE y == x \div n
           j == x % n
           t == y \div m
           i == y % m
<1>3. y \in Nat /\ j \in Nat /\ j < n /\ x = y * n + j
  BY <1>2, DivParts
<1> HIDE DEF y, j
<1>4. t \in Nat /\ i \in Nat /\ i < m /\ y = t * m + i
  BY <1>2, <1>3, DivParts
<1> HIDE DEF t, i
<1>5. x = t * (m * n) + i * n + j
  <2> DEFINE z == t * m
  <2>1. z \in Nat /\ z * n = t * (m * n)
    BY <1>4, Times, TimesAssoc
  <2>2. y = z + i
    BY <1>4
  <2> HIDE DEF z
  <2>3. (z + i) * n = z * n + i * n
    BY <1>4, <2>1
  <2> QED BY <1>3, <2>1, <2>2, <2>3
<1>6. t < b
  <2> SUFFICES ASSUME ~(t < b) PROVE FALSE
    OBVIOUS
  <2> DEFINE e == t - b
             k == m * n
             u == b * k
             v == e * k
             w == i * n + j
  <2>1. e \in Nat /\ t = b + e
    BY <1>4
  <2> HIDE DEF e
  <2>2. k \in Nat /\ w \in Nat
    BY <1>3, <1>4, PlaceBound
  <2>3. c * n = u
    BY TimesAssoc DEF c
  <2>4. x = t * k + w
    <3> DEFINE r == i * n
               s == t * k
    <3>1. r \in Nat /\ s \in Nat /\ x = s + r + j
      BY <1>4, <1>5, <2>2, Times
    <3> HIDE DEF r, s
    <3>2. x = s + (r + j)
      BY <1>3, <3>1
    <3> QED BY <3>2 DEF r, s
  <2> HIDE DEF w, k
  <2>5. t * k = u + v /\ u \in Nat /\ v \in Nat
    BY <2>1, <2>2, Times
  <2>6. x = (u + v) + w /\ x < u
    BY <1>1, <2>3, <2>4, <2>5
  <2> HIDE DEF u, v
  <2> QED BY <2>2, <2>5, <2>6
<1> QED BY <1>3, <1>4, <1>5, <1>6 DEF Placed

\* One way each to write it as a matrix, a row and a column, as a row of all the
\* matrices and a column, and in one matrix.
LEMMA WrittenOnce ==
  ASSUME NEW m \in Nat, NEW n \in Nat, NEW x, NEW t, NEW i, NEW j, Placed(x, m, n, t, i, j),
         NEW w1 \in Nat, NEW w2 \in Nat, NEW w3 \in Nat, w3 < n,
         w1 * (m * n) + w2 * n + w3 = x
  PROVE  /\ w1 = 0 => w2 = t * m + i /\ w3 = j
         /\ w2 < m => w1 = t /\ w2 = i /\ w3 = j
<1>1. ASSUME w1 = 0 PROVE w2 = t * m + i /\ w3 = j
  <2> DEFINE z == w2 * n
             k == m * n
  <2>1. k \in Nat /\ z \in Nat
    BY Times
  <2>2. w1 * k = 0
    BY <1>1, <2>1
  <2>3. 0 + z + w3 = x
    BY <2>2
  <2> HIDE DEF z
  <2>4. x = z + w3
    BY <2>1, <2>3
  <2>5. Splits(x, w2, n, w3)
    BY <2>4 DEF Splits, z
  <2>6. x \div n = w2 /\ x % n = w3
    BY <2>5, DivRule
  <2> QED BY <2>6, PlaceIs
<1>2. ASSUME w2 < m PROVE w1 = t /\ w2 = i /\ w3 = j
  BY <1>2, PlaceIs DEF Placed
<1> QED BY <1>1, <1>2

LEMMA RowMajorAt ==
  ASSUME NEW l, Good(l), NEW x \in IdxOf(l.dims)
  PROVE  RowMajor(l)[PosOf(x, l.dims) + 1] = Address(l, x)
<1> DEFINE p == PosOf(x, l.dims)
           n == elem_count(l.dims)
           k == p + 1
<1>1. l.dims \in Seq(Nat)
  BY GoodParts
<1>2. p \in Nat /\ p < n /\ AtPosition(p, l.dims) = x
  BY <1>1, PosBound, PosInverse
<1>3. n \in Nat
  BY <1>1, AfterRule
<1> HIDE DEF p, n
<1>4. k \in 1 .. n /\ k - 1 = p
  BY <1>2, <1>3
<1> HIDE DEF k
<1>5. RowMajor(l)[k] = Address(l, AtPosition(k - 1, l.dims))
  BY <1>4, RowMajorIs DEF n
<1>6. RowMajor(l)[k] = Address(l, x)
  BY <1>2, <1>4, <1>5
<1> QED BY <1>6 DEF k, p

LEMMA SmallSums ==
  ASSUME NEW f
  PROVE  /\ Ints(f, 2) => SumTo(f, 2) = f[1] + f[2]
         /\ Ints(f, 3) => SumTo(f, 3) = f[1] + f[2] + f[3]
         /\ Ints(f, 4) => SumTo(f, 4) = f[1] + f[2] + f[3] + f[4]
<1>1. SumTo(f, 0) = 0 /\ SumTo(f, 1) = SumTo(f, 0) + f[1] /\ SumTo(f, 2) = SumTo(f, 1) + f[2]
      /\ SumTo(f, 3) = SumTo(f, 2) + f[3] /\ SumTo(f, 4) = SumTo(f, 3) + f[4]
  BY SumRule
<1>2. ASSUME f[1] \in Int, f[2] \in Int PROVE SumTo(f, 2) = f[1] + f[2]
  BY <1>1, <1>2
<1>3. ASSUME f[1] \in Int, f[2] \in Int, f[3] \in Int PROVE SumTo(f, 3) = f[1] + f[2] + f[3]
  BY <1>1, <1>2, <1>3
<1>4. ASSUME f[1] \in Int, f[2] \in Int, f[3] \in Int, f[4] \in Int
      PROVE  SumTo(f, 4) = f[1] + f[2] + f[3] + f[4]
  BY <1>1, <1>3, <1>4
<1> QED BY <1>2, <1>3, <1>4 DEF Ints

\* The sizes of the last matrix of a shape.
LEMMA MatrixCounts ==
  ASSUME NEW s \in Seq(Nat), NEW n, n = Len(s), n \in {2, 3, 4}
  PROVE  /\ CountAfter(s, n) = 1 /\ CountAfter(s, n - 1) = s[n]
         /\ CountAfter(s, n - 2) = s[n - 1] * s[n]
         /\ n = 2 => CountBefore(s, 1) = 1
         /\ n = 3 => CountBefore(s, 2) = s[1]
         /\ n = 4 => CountAfter(s, 1) = s[2] * (s[3] * s[4]) /\ CountBefore(s, 3) = s[1] * s[2]
         /\ elem_count(s) = CountBefore(s, n - 1) * (s[n - 1] * s[n])
<1>1. \A k \in 1 .. n : s[k] \in Nat
  BY SeqParts
<1>2. CountAfter(s, n) = 1 /\ \A k \in 1 .. n : CountAfter(s, k - 1) = s[k] * CountAfter(s, k)
  BY AfterRule
<1>3. CountAfter(s, n - 1) = s[n]
  BY <1>2, <1>1
<1>4. CountAfter(s, n - 2) = s[n - 1] * s[n]
  BY <1>2, <1>3
<1>5. n = 4 => CountAfter(s, 1) = s[2] * (s[3] * s[4])
  <2> SUFFICES ASSUME n = 4 PROVE CountAfter(s, 1) = s[2] * (s[3] * s[4])
    OBVIOUS
  <2>1. CountAfter(s, 2 - 1) = s[2] * CountAfter(s, 2) /\ n - 2 = 2 /\ n - 1 = 3
    BY <1>2
  <2> QED BY <1>4, <2>1
<1> DEFINE u == SubSeq(s, 1, n - 2)
<1>6. n - 2 \in 0 .. Len(s) /\ (n - 1) - 1 = n - 2
  OBVIOUS
<1>7. u \in Seq(Nat) /\ Len(u) = n - 2 /\ \A k \in 1 .. n - 2 : u[k] = s[k]
  BY <1>6, PrefixIs
<1>8. CountBefore(s, n - 1) = elem_count(u)
  BY <1>6, Zenon DEF CountBefore
<1>9. elem_count(s) = elem_count(u) * CountAfter(s, n - 2)
  BY <1>6, CountSplit
<1> HIDE DEF u
<1>10. /\ CountAfter(u, n - 2) = 1 /\ CountAfter(u, 0) = elem_count(u)
       /\ \A k \in 1 .. n - 2 : CountAfter(u, k - 1) = s[k] * CountAfter(u, k)
  BY <1>7, AfterRule
<1>11. (n = 2 => elem_count(u) = 1) /\ (n = 3 => elem_count(u) = s[1]) /\ (n = 4 => elem_count(u) = s[1] * s[2])
  <2>1. CASE n = 2
    BY <1>10, <2>1
  <2>2. CASE n = 3
    BY <1>1, <1>10, <2>2
  <2>3. CASE n = 4
    BY <1>1, <1>10, <2>3
  <2> QED BY <2>1, <2>2, <2>3
<1>12. elem_count(s) = CountBefore(s, n - 1) * (s[n - 1] * s[n])
  BY <1>4, <1>8, <1>9
<1>13. (n = 2 => CountBefore(s, 1) = 1) /\ (n = 3 => CountBefore(s, 2) = s[1])
       /\ (n = 4 => CountBefore(s, 3) = s[1] * s[2])
  <2>1. (n = 2 => n - 1 = 1) /\ (n = 3 => n - 1 = 2) /\ (n = 4 => n - 1 = 3)
    OBVIOUS
  <2> QED BY <1>8, <1>11, <2>1
<1> QED BY <1>2, <1>3, <1>4, <1>5, <1>12, <1>13

\* The shapes of the operands of a product, by their rank.
ShapeOfTwo(s) ==
  CountAfter(s, 2) = 1 /\ CountAfter(s, 1) = s[2] /\ CountBefore(s, 1) = 1

ShapeOfThree(s) ==
  /\ CountAfter(s, 3) = 1 /\ CountAfter(s, 2) = s[3] /\ CountBefore(s, 2) = s[1]
  /\ CountAfter(s, 1) = s[2] * s[3]

ShapeOfFour(s) ==
  /\ CountAfter(s, 4) = 1 /\ CountAfter(s, 3) = s[4] /\ CountBefore(s, 3) = s[1] * s[2]
  /\ CountAfter(s, 2) = s[3] * s[4] /\ CountAfter(s, 1) = s[2] * (s[3] * s[4])

LEMMA ShapeCounts ==
  ASSUME NEW s \in Seq(Nat)
  PROVE  /\ Len(s) = 2 => ShapeOfTwo(s)
         /\ Len(s) = 3 => ShapeOfThree(s)
         /\ Len(s) = 4 => ShapeOfFour(s)
<1> DEFINE n == Len(s)
<1>1. ASSUME n = 2 PROVE ShapeOfTwo(s)
  <2>1. n \in {2, 3, 4}
    BY <1>1
  <2>2. CountAfter(s, n) = 1 /\ CountAfter(s, n - 1) = s[n] /\ CountBefore(s, 1) = 1
    BY <1>1, <2>1, MatrixCounts
  <2> QED BY <1>1, <2>2 DEF ShapeOfTwo
<1>2. ASSUME n = 3 PROVE ShapeOfThree(s)
  <2>1. n \in {2, 3, 4}
    BY <1>2
  <2>2. CountAfter(s, n) = 1 /\ CountAfter(s, n - 1) = s[n] /\ CountBefore(s, 2) = s[1]
        /\ CountAfter(s, n - 2) = s[n - 1] * s[n]
    BY <1>2, <2>1, MatrixCounts
  <2> QED BY <1>2, <2>2 DEF ShapeOfThree
<1>3. ASSUME n = 4 PROVE ShapeOfFour(s)
  <2>1. n \in {2, 3, 4}
    BY <1>3
  <2>2. CountAfter(s, n) = 1 /\ CountAfter(s, n - 1) = s[n] /\ CountBefore(s, 3) = s[1] * s[2]
        /\ CountAfter(s, n - 2) = s[n - 1] * s[n] /\ CountAfter(s, 1) = s[2] * (s[3] * s[4])
    BY <1>3, <2>1, MatrixCounts
  <2> QED BY <1>3, <2>2 DEF ShapeOfFour
<1> QED BY <1>1, <1>2, <1>3
\* Where gemm looks for the element (i, q) of the t-th matrix of l.
CellAt(l, skip, t, i, q) ==
  l.start_offset + t * skip + i * l.stride[Len(l.dims) - 1] + q * l.stride[Len(l.dims)]

\* It is an element of one of the matrices of l, which is of rank n.
IsCell(l, n, t, i, q) ==
  /\ Good(l) /\ Len(l.dims) = n /\ t \in Nat /\ i \in Nat /\ q \in Nat
  /\ t < CountBefore(l.dims, n - 1) /\ i < l.dims[n - 1] /\ q < l.dims[n]

\* The place of an element in row-major order.
CellPlace(l, t, i, q) ==
  t * (l.dims[Len(l.dims) - 1] * l.dims[Len(l.dims)]) + i * l.dims[Len(l.dims)] + q

LEMMA CellParts ==
  ASSUME NEW l, NEW n \in {2, 3, 4}, NEW t, NEW i, NEW q, IsCell(l, n, t, i, q)
  PROVE  /\ l.dims \in Seq(Nat) /\ n = Len(l.dims) /\ DOMAIN l.dims = 1 .. n
         /\ l.start_offset \in Nat
         /\ \A k \in 1 .. n : l.dims[k] \in Nat /\ l.stride[k] \in Nat
BY GoodParts DEF IsCell

LEMMA CellOfTwo ==
  ASSUME NEW l, NEW t, NEW i, NEW q, IsCell(l, 2, t, i, q)
  PROVE  t = 0 /\ RowMajor(l)[CellPlace(l, t, i, q) + 1] = CellAt(l, 0, t, i, q)
<1> DEFINE s == l.dims
           w == l.stride
           x == [k \in 1 .. 2 |-> IF k = 1 THEN i ELSE q]
           f == Terms(x, Weights(s), 2)
           g == Terms(x, w, 2)
<1>1. /\ s \in Seq(Nat) /\ Len(s) = 2 /\ DOMAIN s = 1 .. 2 /\ l.start_offset \in Nat /\ Good(l)
      /\ s[1] \in Nat /\ s[2] \in Nat /\ w[1] \in Nat /\ w[2] \in Nat
      /\ t \in Nat /\ i \in Nat /\ q \in Nat /\ i < s[1] /\ q < s[2] /\ t < CountBefore(s, 1)
  <2>1. 2 \in {2, 3, 4} /\ 2 - 1 = 1 /\ 1 \in 1 .. 2 /\ 2 \in 1 .. 2
    OBVIOUS
  <2> QED BY <2>1, CellParts DEF IsCell
<1>2. CountAfter(s, 2) = 1 /\ CountAfter(s, 1) = s[2] /\ CountBefore(s, 1) = 1
  BY <1>1, ShapeCounts DEF ShapeOfTwo
<1>3. t = 0
  BY <1>1, <1>2
<1>4. x \in IdxOf(s) /\ x[1] = i /\ x[2] = q
  BY <1>1 DEF IdxOf
<1>5. f[1] = i * s[2] /\ f[2] = q
  BY <1>1, <1>2, <1>4 DEF Terms, Weights
<1>6. g[1] = i * w[1] /\ g[2] = q * w[2]
  BY <1>4 DEF Terms
<1>7. PosOf(x, s) = SumTo(f, 2) /\ Address(l, x) = l.start_offset + SumTo(g, 2)
  BY <1>1, AddressIs DEF PosOf
<1>8. RowMajor(l)[PosOf(x, s) + 1] = Address(l, x)
  BY <1>1, <1>4, RowMajorAt
<1>9. CellPlace(l, t, i, q) = t * (s[1] * s[2]) + i * s[2] + q
      /\ CellAt(l, 0, t, i, q) = l.start_offset + t * 0 + i * w[1] + q * w[2]
  BY <1>1 DEF CellPlace, CellAt
<1> HIDE DEF x, f, g, s, w
<1>10. SumTo(f, 2) = f[1] + f[2] /\ SumTo(g, 2) = g[1] + g[2]
  <2>1. f[1] \in Int /\ f[2] \in Int /\ g[1] \in Int /\ g[2] \in Int
    <3>1. /\ i \in Nat /\ q \in Nat /\ s[2] \in Nat /\ w[1] \in Nat /\ w[2] \in Nat
          /\ f[1] = i * s[2] /\ f[2] = q
      BY <1>1, <1>5
    <3> QED BY <1>6, <3>1, Times
  <2>2. Ints(f, 2) /\ Ints(g, 2)
    BY <2>1 DEF Ints
  <2> QED BY <2>2, SmallSums
<1> DEFINE a == i * s[2]
           c == i * w[1]
           e == q * w[2]
<1>11. /\ PosOf(x, s) = a + q /\ Address(l, x) = l.start_offset + (c + e)
       /\ CellPlace(l, t, i, q) = t * (s[1] * s[2]) + a + q
       /\ CellAt(l, 0, t, i, q) = l.start_offset + t * 0 + c + e
       /\ a \in Nat /\ c \in Nat /\ e \in Nat /\ s[1] * s[2] \in Nat
  BY <1>1, <1>5, <1>6, <1>7, <1>9, <1>10, Times
<1> HIDE DEF a, c, e
<1>12. CellPlace(l, t, i, q) = a + q /\ CellAt(l, 0, t, i, q) = l.start_offset + (c + e)
  <2> DEFINE h == s[1] * s[2]
  <2>1. h \in Nat /\ t = 0 /\ t * h = 0 /\ t * 0 = 0 /\ q \in Nat /\ l.start_offset \in Nat
    BY <1>1, <1>3, <1>11
  <2> HIDE DEF h
  <2>2. CellPlace(l, t, i, q) = t * h + a + q
    BY <1>11 DEF h
  <2> QED BY <1>11, <2>1, <2>2
<1>13. PosOf(x, s) = CellPlace(l, t, i, q)
  BY <1>11, <1>12
<1>14. Address(l, x) = CellAt(l, 0, t, i, q)
  BY <1>11, <1>12
<1> QED BY <1>3, <1>8, <1>13, <1>14

LEMMA CellOfThree ==
  ASSUME NEW l, NEW t, NEW i, NEW q, IsCell(l, 3, t, i, q)
  PROVE  RowMajor(l)[CellPlace(l, t, i, q) + 1] = CellAt(l, l.stride[1], t, i, q)
<1> DEFINE s == l.dims
           w == l.stride
           x == [k \in 1 .. 3 |-> IF k = 1 THEN t ELSE IF k = 2 THEN i ELSE q]
           f == Terms(x, Weights(s), 3)
           g == Terms(x, w, 3)
<1>1. /\ s \in Seq(Nat) /\ Len(s) = 3 /\ DOMAIN s = 1 .. 3 /\ l.start_offset \in Nat /\ Good(l)
      /\ s[1] \in Nat /\ s[2] \in Nat /\ s[3] \in Nat
      /\ w[1] \in Nat /\ w[2] \in Nat /\ w[3] \in Nat
      /\ t \in Nat /\ i \in Nat /\ q \in Nat /\ i < s[2] /\ q < s[3] /\ t < CountBefore(s, 2)
  BY CellParts DEF IsCell
<1>2. /\ CountAfter(s, 3) = 1 /\ CountAfter(s, 2) = s[3] /\ CountBefore(s, 2) = s[1]
      /\ CountAfter(s, 1) = s[2] * s[3]
  BY <1>1, ShapeCounts DEF ShapeOfThree
<1>3. t < s[1]
  BY <1>1, <1>2
<1>4. x \in IdxOf(s) /\ x[1] = t /\ x[2] = i /\ x[3] = q
  BY <1>1, <1>3 DEF IdxOf
<1>5. f[1] = t * (s[2] * s[3]) /\ f[2] = i * s[3] /\ f[3] = q
  <2>1. f[1] = x[1] * Weights(s)[1] /\ f[2] = x[2] * Weights(s)[2] /\ f[3] = x[3] * Weights(s)[3]
    BY DEF Terms
  <2>2. /\ Weights(s)[1] = CountAfter(s, 1) /\ Weights(s)[2] = CountAfter(s, 2)
        /\ Weights(s)[3] = CountAfter(s, 3)
    BY <1>1 DEF Weights
  <2>3. q * 1 = q
    BY <1>1
  <2> HIDE DEF x, f, s
  <2> QED BY <1>2, <1>4, <2>1, <2>2, <2>3
<1>6. g[1] = t * w[1] /\ g[2] = i * w[2] /\ g[3] = q * w[3]
  BY <1>4 DEF Terms
<1>7. PosOf(x, s) = SumTo(f, 3) /\ Address(l, x) = l.start_offset + SumTo(g, 3)
  BY <1>1, AddressIs DEF PosOf
<1>8. RowMajor(l)[PosOf(x, s) + 1] = Address(l, x)
  BY <1>1, <1>4, RowMajorAt
<1>9. CellPlace(l, t, i, q) = t * (s[2] * s[3]) + i * s[3] + q
      /\ CellAt(l, w[1], t, i, q) = l.start_offset + t * w[1] + i * w[2] + q * w[3]
  BY <1>1 DEF CellPlace, CellAt
<1> HIDE DEF x, f, g, s, w
<1> DEFINE h == s[2] * s[3]
           a == t * h
           b == i * s[3]
           c == t * w[1]
           d == i * w[2]
           e == q * w[3]
<1>10. h \in Nat /\ a \in Nat /\ b \in Nat /\ c \in Nat /\ d \in Nat /\ e \in Nat
  BY <1>1, Times
<1>11. /\ f[1] = a /\ f[2] = b /\ f[3] = q /\ g[1] = c /\ g[2] = d /\ g[3] = e
       /\ CellPlace(l, t, i, q) = a + b + q
       /\ CellAt(l, w[1], t, i, q) = l.start_offset + c + d + e
  BY <1>5, <1>6, <1>9
<1> HIDE DEF a, b, c, d, e
<1>12. SumTo(f, 3) = f[1] + f[2] + f[3] /\ SumTo(g, 3) = g[1] + g[2] + g[3]
  <2>1. f[1] \in Int /\ f[2] \in Int /\ f[3] \in Int /\ g[1] \in Int /\ g[2] \in Int /\ g[3] \in Int
    BY <1>1, <1>10, <1>11
  <2>2. 1 .. 3 = {1, 2, 3}
    OBVIOUS
  <2>3. Ints(f, 3) /\ Ints(g, 3)
    BY <2>1, <2>2, Zenon DEF Ints
  <2> QED BY <2>3, SmallSums
<1>13. PosOf(x, s) = CellPlace(l, t, i, q) /\ Address(l, x) = CellAt(l, w[1], t, i, q)
  <2>1. q \in Nat /\ l.start_offset \in Nat
    BY <1>1
  <2>2. SumTo(f, 3) = a + b + q /\ SumTo(g, 3) = c + d + e
    BY <1>11, <1>12
  <2> QED BY <1>7, <1>10, <1>11, <2>1, <2>2
<1> QED BY <1>8, <1>13 DEF w

\* t counts the matrices of two dimensions of the batch: t1 times d2 plus t2.
LEMMA BatchOfTwo ==
  ASSUME NEW t \in Nat, NEW d1 \in Nat, NEW d2 \in Nat, t < d1 * d2
  PROVE  \E t1, t2 \in Nat : t1 < d1 /\ t2 < d2 /\ t = t1 * d2 + t2
<1>1. d2 \in Nat \ {0}
  BY Times
<1> DEFINE t1 == t \div d2
           t2 == t % d2
<1>2. t1 \in Nat /\ t2 \in Nat /\ t2 < d2 /\ t = t1 * d2 + t2
  BY <1>1, DivParts
<1> HIDE DEF t1, t2
<1>3. t1 < d1
  <2> SUFFICES ASSUME ~(t1 < d1) PROVE FALSE
    OBVIOUS
  <2> DEFINE e == t1 - d1
             u == d1 * d2
             v == e * d2
  <2>1. e \in Nat /\ t1 = d1 + e
    BY <1>2
  <2> HIDE DEF e
  <2>2. u \in Nat /\ v \in Nat /\ t1 * d2 = u + v
    BY <2>1, Times
  <2>3. t = (u + v) + t2 /\ t < u
    BY <1>2, <2>2
  <2> HIDE DEF u, v
  <2> QED BY <1>2, <2>2, <2>3
<1> QED BY <1>2, <1>3

LEMMA CellOfFour ==
  ASSUME NEW l, NEW t, NEW i, NEW q, IsCell(l, 4, t, i, q), NEW skip,
         \/ (l.stride[1] = l.stride[2] * l.dims[2] \/ l.dims[1] = 1) /\ skip = l.stride[2]
         \/ l.dims[2] = 1 /\ skip = l.stride[1]
  PROVE  RowMajor(l)[CellPlace(l, t, i, q) + 1] = CellAt(l, skip, t, i, q)
<1> DEFINE s == l.dims
           w == l.stride
<1>1. /\ s \in Seq(Nat) /\ Len(s) = 4 /\ DOMAIN s = 1 .. 4 /\ l.start_offset \in Nat /\ Good(l)
      /\ s[1] \in Nat /\ s[2] \in Nat /\ s[3] \in Nat /\ s[4] \in Nat
      /\ w[1] \in Nat /\ w[2] \in Nat /\ w[3] \in Nat /\ w[4] \in Nat
      /\ t \in Nat /\ i \in Nat /\ q \in Nat /\ i < s[3] /\ q < s[4] /\ t < CountBefore(s, 3)
  <2>1. 4 \in {2, 3, 4} /\ 4 - 1 = 3 /\ 1 \in 1 .. 4 /\ 2 \in 1 .. 4 /\ 3 \in 1 .. 4 /\ 4 \in 1 .. 4
    OBVIOUS
  <2> QED BY <2>1, CellParts DEF IsCell
<1>2. /\ CountAfter(s, 4) = 1 /\ CountAfter(s, 3) = s[4] /\ CountBefore(s, 3) = s[1] * s[2]
      /\ CountAfter(s, 2) = s[3] * s[4] /\ CountAfter(s, 1) = s[2] * (s[3] * s[4])
  BY <1>1, ShapeCounts DEF ShapeOfFour
<1>3. PICK t1 \in Nat, t2 \in Nat : t1 < s[1] /\ t2 < s[2] /\ t = t1 * s[2] + t2
  <2> DEFINE d1 == s[1]
             d2 == s[2]
  <2>1. t < d1 * d2 /\ d1 \in Nat /\ d2 \in Nat /\ t \in Nat
    BY <1>1, <1>2
  <2> HIDE DEF d1, d2
  <2>2. \E t1, t2 \in Nat : t1 < d1 /\ t2 < d2 /\ t = t1 * d2 + t2
    BY <2>1, BatchOfTwo
  <2> QED BY <2>2 DEF d1, d2
<1> DEFINE x == [k \in 1 .. 4 |-> IF k = 1 THEN t1 ELSE IF k = 2 THEN t2 ELSE IF k = 3 THEN i ELSE q]
           f == Terms(x, Weights(s), 4)
           g == Terms(x, w, 4)
<1>4. x \in IdxOf(s) /\ x[1] = t1 /\ x[2] = t2 /\ x[3] = i /\ x[4] = q
  BY <1>1, <1>3 DEF IdxOf
<1>5. f[1] = t1 * (s[2] * (s[3] * s[4])) /\ f[2] = t2 * (s[3] * s[4]) /\ f[3] = i * s[4] /\ f[4] = q
  <2>1. /\ f[1] = x[1] * Weights(s)[1] /\ f[2] = x[2] * Weights(s)[2]
        /\ f[3] = x[3] * Weights(s)[3] /\ f[4] = x[4] * Weights(s)[4]
    BY DEF Terms
  <2>2. /\ Weights(s)[1] = CountAfter(s, 1) /\ Weights(s)[2] = CountAfter(s, 2)
        /\ Weights(s)[3] = CountAfter(s, 3) /\ Weights(s)[4] = CountAfter(s, 4)
    BY <1>1 DEF Weights
  <2>3. q * 1 = q
    BY <1>1
  <2> HIDE DEF x, f, s
  <2> QED BY <1>2, <1>4, <2>1, <2>2, <2>3
<1>6. g[1] = t1 * w[1] /\ g[2] = t2 * w[2] /\ g[3] = i * w[3] /\ g[4] = q * w[4]
  BY <1>4 DEF Terms
<1>7. PosOf(x, s) = SumTo(f, 4) /\ Address(l, x) = l.start_offset + SumTo(g, 4)
  <2>1. PosOf(x, s) = SumTo(f, 4)
    BY <1>1 DEF PosOf
  <2>2. Address(l, x) = l.start_offset + SumTo(g, 4)
    <3>1. DOMAIN l.dims = 1 .. 4 /\ 4 \in Nat
      BY <1>1
    <3> HIDE DEF x
    <3> QED BY <3>1, AddressIs
  <2> QED BY <2>1, <2>2
<1>8. RowMajor(l)[PosOf(x, s) + 1] = Address(l, x)
  BY <1>1, <1>4, RowMajorAt
<1>9. CellPlace(l, t, i, q) = t * (s[3] * s[4]) + i * s[4] + q
      /\ CellAt(l, skip, t, i, q) = l.start_offset + t * skip + i * w[3] + q * w[4]
  BY <1>1 DEF CellPlace, CellAt
<1>20. \/ (w[1] = w[2] * s[2] \/ s[1] = 1) /\ skip = w[2]
       \/ s[2] = 1 /\ skip = w[1]
  OBVIOUS
<1> HIDE DEF x, f, g, s, w
<1>21. /\ s[1] \in Nat /\ s[2] \in Nat /\ s[3] \in Nat /\ s[4] \in Nat /\ w[1] \in Nat /\ w[2] \in Nat
       /\ t1 \in Nat /\ t2 \in Nat /\ t = t1 * s[2] + t2
  BY <1>1, <1>3
<1>10. t * (s[3] * s[4]) = t1 * (s[2] * (s[3] * s[4])) + t2 * (s[3] * s[4])
  <2> DEFINE h == s[3] * s[4]
             y == t1 * s[2]
  <2>0. h \in Nat /\ y \in Nat /\ t = y + t2
    BY <1>1, <1>3, Times
  <2>1. y * h = t1 * (s[2] * h)
    <3> HIDE DEF h
    <3> QED BY <1>21, <2>0, TimesAssoc
  <2> HIDE DEF h, y
  <2>2. (y + t2) * h = y * h + t2 * h
    BY <1>21, <2>0, PlusTimes
  <2> QED BY <2>0, <2>1, <2>2 DEF h
<1>11. t * skip = t1 * w[1] + t2 * w[2]
  <2>1. CASE w[1] = w[2] * s[2] /\ skip = w[2]
    <3> DEFINE y == t1 * s[2]
    <3>1. y \in Nat /\ t = y + t2
      BY <1>1, <1>3, Times
    <3>2. y * w[2] = t1 * (s[2] * w[2])
      BY <1>21, TimesAssoc
    <3>3. w[2] * s[2] = s[2] * w[2]
      BY <1>21
    <3> HIDE DEF y
    <3>4. (y + t2) * w[2] = y * w[2] + t2 * w[2]
      BY <1>21, <3>1, PlusTimes
    <3> QED BY <2>1, <3>1, <3>2, <3>3, <3>4
  <2>2. CASE s[1] = 1 /\ skip = w[2]
    <3>1. t1 = 0 /\ t = t2
      BY <1>3, <2>2, <1>21
    <3>2. t1 * w[1] = 0 /\ t2 * w[2] \in Nat
      BY <1>1, <3>1, Times
    <3> QED BY <2>2, <3>1, <3>2
  <2>3. CASE s[2] = 1 /\ skip = w[1]
    BY <1>1, <1>3, <2>3, Times
  <2> QED BY <1>20, <2>1, <2>2, <2>3
<1> DEFINE h == s[3] * s[4]
           h2 == s[2] * h
           a1 == t1 * h2
           a2 == t2 * h
           b == i * s[4]
           c1 == t1 * w[1]
           c2 == t2 * w[2]
           d == i * w[3]
           e == q * w[4]
<1>12. h \in Nat /\ h2 \in Nat
  BY <1>1, Times
<1>13. a1 \in Nat /\ a2 \in Nat /\ b \in Nat /\ c1 \in Nat /\ c2 \in Nat /\ d \in Nat /\ e \in Nat
  <2> HIDE DEF h, h2
  <2> QED BY <1>1, <1>3, <1>12, Times
<1>14. /\ f[1] = a1 /\ f[2] = a2 /\ f[3] = b /\ f[4] = q
       /\ g[1] = c1 /\ g[2] = c2 /\ g[3] = d /\ g[4] = e
       /\ CellPlace(l, t, i, q) = (a1 + a2) + b + q
       /\ CellAt(l, skip, t, i, q) = l.start_offset + (c1 + c2) + d + e
  BY <1>5, <1>6, <1>9, <1>10, <1>11
<1> HIDE DEF a1, a2, b, c1, c2, d, e
<1>15. SumTo(f, 4) = f[1] + f[2] + f[3] + f[4] /\ SumTo(g, 4) = g[1] + g[2] + g[3] + g[4]
  <2>1. f[1] \in Int /\ f[2] \in Int /\ f[3] \in Int /\ f[4] \in Int
    BY <1>1, <1>13, <1>14
  <2>2. g[1] \in Int /\ g[2] \in Int /\ g[3] \in Int /\ g[4] \in Int
    BY <1>1, <1>13, <1>14
  <2>3. 1 .. 4 = {1, 2, 3, 4}
    OBVIOUS
  <2>4. Ints(f, 4) /\ Ints(g, 4)
    BY <2>1, <2>2, <2>3, Zenon DEF Ints
  <2> QED BY <2>4, SmallSums
<1>16. PosOf(x, s) = CellPlace(l, t, i, q) /\ Address(l, x) = CellAt(l, skip, t, i, q)
  <2>1. q \in Nat /\ l.start_offset \in Nat
    BY <1>1
  <2>2. SumTo(f, 4) = a1 + a2 + b + q /\ SumTo(g, 4) = c1 + c2 + d + e
    BY <1>14, <1>15
  <2> QED BY <1>7, <1>13, <1>14, <2>1, <2>2
<1> QED BY <1>8, <1>16

\* Whatever the rank and the strides of the batch, if the code accepts them.
LEMMA CellIs ==
  ASSUME NEW l, NEW whole \in Nat, NEW t, NEW i, NEW q, NEW n \in {2, 3, 4}, IsCell(l, n, t, i, q),
         BatchSkip(l, whole) # None
  PROVE  /\ BatchSkip(l, whole) \in Nat
         /\ RowMajor(l)[CellPlace(l, t, i, q) + 1] = CellAt(l, BatchSkip(l, whole), t, i, q)
<1>1. n = Len(l.dims) /\ \A k \in 1 .. n : l.stride[k] \in Nat /\ l.dims[k] \in Nat
  BY CellParts
<1>2. CASE n = 2
  <2>1. BatchSkip(l, whole) = whole
    BY <1>1, <1>2 DEF BatchSkip
  <2>2. t = 0 /\ RowMajor(l)[CellPlace(l, t, i, q) + 1] = CellAt(l, 0, t, i, q)
    BY <1>2, CellOfTwo
  <2>3. t * 0 = t * whole
    BY <2>2
  <2>4. CellAt(l, 0, t, i, q) = CellAt(l, whole, t, i, q)
    BY <2>3, Zenon DEF CellAt
  <2> QED BY <2>1, <2>2, <2>4
<1>3. CASE n = 3
  BY <1>1, <1>3, CellOfThree DEF BatchSkip
<1>4. CASE n = 4
  <2> DEFINE skip == BatchSkip(l, whole)
  <2>1. l.stride[1] \in Nat /\ l.stride[2] \in Nat
    BY <1>1, <1>4
  <2>2. \/ (l.stride[1] = l.stride[2] * l.dims[2] \/ l.dims[1] = 1) /\ skip = l.stride[2]
        \/ l.dims[2] = 1 /\ skip = l.stride[1]
    BY <1>1, <1>4 DEF BatchSkip
  <2> HIDE DEF skip
  <2>3. RowMajor(l)[CellPlace(l, t, i, q) + 1] = CellAt(l, skip, t, i, q)
    BY <1>4, <2>2, CellOfFour
  <2> QED BY <2>1, <2>2, <2>3 DEF skip
<1> QED BY <1>2, <1>3, <1>4
\* What gemm is told to sum up for the element (i, j) of the t-th product.
GemmTerm(l, r, d, t, i, j, q) ==
  <<l.start_offset + t * d.a_skip + i * l.stride[Len(l.dims) - 1] + q * l.stride[Len(l.dims)],
    r.start_offset + t * d.b_skip + q * r.stride[Len(l.dims) - 1] + j * r.stride[Len(l.dims)]>>

GemmSum(l, r, d, w) == [q \in 1 .. d.k |-> GemmTerm(l, r, d, w[1], w[2], w[3], q - 1)]

GemmWrites(d, g, x) ==
  {w \in (0 .. g.b - 1) \X (0 .. g.m - 1) \X (0 .. g.n - 1) :
     w[1] * (d.m * d.n) + w[2] * d.n + w[3] = x}

\* The sums that are written at x.
GemmSums(l, r, d, g, x) == {GemmSum(l, r, d, w) : w \in GemmWrites(d, g, x)}

LEMMA GemmsAre ==
  ASSUME NEW l, NEW r, NEW d, NEW g
  PROVE  Gemms(l, r, d, g) =
           [p \in 1 .. d.b * d.m * d.n |-> GemmSums(l, r, d, g, p - 1)]
BY Zenon DEF Gemms, GemmSums, GemmSum, GemmTerm, GemmWrites

\* A product that the code accepts, for which the shortcut is right.
Multiplied(l, r, n) ==
  /\ Good(l) /\ Good(r) /\ n = Len(l.dims) /\ n \in {2, 3, 4}
  /\ Accepted(<<l, r>>) /\ MergeFits(l, r)

\* Its sizes, and the steps between the matrices of the operands.
SizesOf(l, r, n, d) ==
  /\ d.b = CountBefore(l.dims, n - 1) /\ d.m = l.dims[n - 1] /\ d.k = l.dims[n] /\ d.n = r.dims[n]
  /\ d.a_skip = BatchSkip(l, d.m * d.k) /\ d.b_skip = BatchSkip(r, d.n * d.k)
  /\ d.a_skip \in Nat /\ d.b_skip \in Nat
  /\ d.b \in Nat \ {0} /\ d.m \in Nat \ {0} /\ d.n \in Nat \ {0} /\ d.k \in Nat \ {0}
  /\ Len(r.dims) = n /\ r.dims[n - 1] = d.k /\ CountBefore(r.dims, n - 1) = d.b
  /\ Size(l.dims) = d.b * (d.m * d.k)

LEMMA SkipTyped ==
  ASSUME NEW l, Good(l), NEW whole \in Nat, BatchSkip(l, 0) # None
  PROVE  /\ Len(l.dims) \in {2, 3, 4} /\ BatchSkip(l, whole) \in Nat /\ BatchSkip(l, whole) # None
<1> DEFINE n == Len(l.dims)
<1>1. n \in Nat /\ \A k \in 1 .. n : l.stride[k] \in Nat
  BY GoodParts
<1>2. n \in {2, 3, 4}
  BY <1>1 DEF BatchSkip
<1>3. BatchSkip(l, whole) \in Nat
  <2>1. CASE n = 2
    BY <2>1 DEF BatchSkip
  <2>2. CASE n = 3
    <3>1. l.stride[1] \in Nat
      BY <1>1, <2>2
    <3> QED BY <2>2, <3>1 DEF BatchSkip
  <2>3. CASE n = 4
    BY <1>1, <2>3 DEF BatchSkip
  <2> QED BY <1>2, <2>1, <2>2, <2>3
<1> QED BY <1>2, <1>3 DEF None

LEMMA SizesAre ==
  ASSUME NEW l, NEW r, NEW n, Multiplied(l, r, n)
  PROVE  SizesOf(l, r, n, bmnk(l, r))
<1> DEFINE d == bmnk(l, r)
<1>1. /\ Good(l) /\ Good(r) /\ n = Len(l.dims) /\ n \in {2, 3, 4}
      /\ matmul_checks(l.dims, r.dims) /\ BatchSkip(l, 0) # None /\ BatchSkip(r, 0) # None
  <2> DEFINE f == <<l, r>>
  <2>1. f[1] = l /\ f[2] = r
    OBVIOUS
  <2>2. Accepted(f) /\ Good(l) /\ Good(r) /\ n = Len(l.dims) /\ n \in {2, 3, 4}
    BY Zenon DEF Multiplied
  <2> HIDE DEF f
  <2> QED BY <2>1, <2>2, Zenon DEF Accepted
<1>0. n \in Nat /\ n - 1 \in Nat /\ n \in 1 .. n /\ n - 1 \in 1 .. n /\ n - 2 \in 0 .. n /\ (n - 1) - 1 = n - 2
  <2>1. n \in {2, 3, 4}
    BY <1>1
  <2> QED BY <2>1
<1>2. /\ l.dims \in Seq(Nat) /\ r.dims \in Seq(Nat) /\ Len(r.dims) = n
      /\ l.dims[n] = r.dims[n - 1] /\ CountBefore(l.dims, n - 1) = CountBefore(r.dims, n - 1)
      /\ elem_count(l.dims) > 0 /\ elem_count(r.dims) > 0
  BY <1>1, GoodParts DEF matmul_checks
<1>3. /\ d.b = CountBefore(l.dims, n - 1) /\ d.m = l.dims[n - 1] /\ d.k = l.dims[n] /\ d.n = r.dims[n]
      /\ d.a_skip = BatchSkip(l, d.m * d.k) /\ d.b_skip = BatchSkip(r, d.n * d.k)
  BY <1>1 DEF bmnk
<1> HIDE DEF d
<1>4. l.dims[n - 1] \in Nat /\ l.dims[n] \in Nat /\ r.dims[n] \in Nat
  BY <1>0, <1>1, <1>2, SeqParts
<1>5. elem_count(l.dims) = d.b * (d.m * d.k) /\ elem_count(r.dims) = d.b * (d.k * d.n)
  <2>1. elem_count(l.dims) = CountBefore(l.dims, n - 1) * (l.dims[n - 1] * l.dims[n])
    BY <1>1, <1>2, MatrixCounts
  <2>2. elem_count(r.dims) = CountBefore(r.dims, n - 1) * (r.dims[n - 1] * r.dims[n])
    BY <1>1, <1>2, MatrixCounts
  <2> QED BY <1>2, <1>3, <2>1, <2>2
<1>6. d.b \in Nat
  <2>1. n - 2 \in 0 .. Len(l.dims) /\ (n - 1) - 1 = n - 2
    BY <1>0, <1>1
  <2>2. SubSeq(l.dims, 1, n - 2) \in Seq(Nat)
    BY <1>2, <2>1, PrefixIs
  <2>3. CountBefore(l.dims, n - 1) = elem_count(SubSeq(l.dims, 1, n - 2))
    BY <2>1, Zenon DEF CountBefore
  <2> QED BY <1>3, <2>2, <2>3, AfterRule
<1>7. d.m \in Nat /\ d.k \in Nat /\ d.n \in Nat
  BY <1>3, <1>4
<1>8. d.b \in Nat \ {0} /\ d.m \in Nat \ {0} /\ d.n \in Nat \ {0} /\ d.k \in Nat \ {0}
  <2> DEFINE u == d.m * d.k
             v == d.k * d.n
  <2>1. u \in Nat /\ v \in Nat /\ (d.m = 0 \/ d.k = 0 => u = 0) /\ (d.n = 0 => v = 0)
    BY <1>7, Times
  <2>2. d.b * u > 0 /\ d.b * v > 0
    BY <1>2, <1>5
  <2> HIDE DEF u, v
  <2>3. d.b # 0 /\ u # 0 /\ v # 0
    BY <1>6, <2>1, <2>2, Times
  <2> QED BY <1>6, <1>7, <2>1, <2>3
<1>9. d.a_skip \in Nat /\ d.b_skip \in Nat
  <2>1. d.m * d.k \in Nat /\ d.n * d.k \in Nat
    BY <1>7, Times
  <2> QED BY <1>1, <1>3, <2>1, SkipTyped
<1>10. Size(l.dims) = d.b * (d.m * d.k)
  BY <1>2, <1>5, AfterRule
<1> QED BY <1>2, <1>3, <1>8, <1>9, <1>10 DEF SizesOf, d
\* The gemms g: one for all the rows, one for all the columns, or one per matrix.
ByRows(d, g) == g = [b |-> 1, m |-> d.b * d.m, n |-> d.n]
ByColumns(d, g) == g = [b |-> 1, m |-> d.m, n |-> d.b * d.n]
ByMatrix(d, g) == g = [b |-> d.b, m |-> d.m, n |-> d.n]

\* The x-th row, or column, of the t-th matrix of m is the y-th of all of them.
Counted(t, m, x, y) == y = t * m + x

\* The one place of a gemm that writes the element at x.
InRows(d, g, x, t, i, j, y) ==
  /\ d.b \in Nat /\ d.m \in Nat /\ d.n \in Nat /\ Placed(x, d.m, d.n, t, i, j) /\ t < d.b
  /\ ByRows(d, g) /\ Counted(t, d.m, i, y)

InColumns(d, g, x, t, i, j, y) ==
  /\ d.b \in Nat /\ d.m = 1 /\ d.n \in Nat /\ Placed(x, d.m, d.n, t, i, j) /\ t < d.b
  /\ ByColumns(d, g) /\ Counted(t, d.n, j, y)

LEMMA MergedWrites ==
  ASSUME NEW d, NEW g, NEW x, NEW t, NEW i, NEW j, NEW y, InRows(d, g, x, t, i, j, y)
  PROVE  GemmWrites(d, g, x) = {<<0, y, j>>}
<1> DEFINE m == d.m
           n == d.n
           b == d.b
           w == <<0, y, j>>
<1>1. /\ b \in Nat /\ m \in Nat /\ n \in Nat /\ t \in Nat /\ i \in Nat /\ j \in Nat /\ i < m /\ j < n /\ t < b
      /\ Placed(x, m, n, t, i, j) /\ x = t * (m * n) + i * n + j
  BY DEF InRows, Placed
<1>2. g.b - 1 = 0 /\ g.m = b * m /\ g.n = n
  BY DEF InRows, ByRows
<1>0. y = t * m + i
  BY DEF InRows, Counted
<1> HIDE DEF m, n, b
<1>3. t * m + i \in Nat /\ t * m + i < b * m /\ b * m \in Nat
  BY <1>1, PlaceBound
<1>4. w \in (0 .. g.b - 1) \X (0 .. g.m - 1) \X (0 .. g.n - 1)
  <2> DEFINE c == b * m
  <2>1. y \in 0 .. c - 1
    <3> HIDE DEF c
    <3>1. y \in Nat /\ c \in Nat /\ y < c
      BY <1>0, <1>3 DEF c
    <3> QED BY <3>1
  <2>2. 0 \in 0 .. g.b - 1 /\ j \in 0 .. g.n - 1 /\ y \in 0 .. g.m - 1
    BY <1>1, <1>2, <2>1
  <2> QED BY <2>2
<1>5. 0 * (m * n) + y * n + j = x
  <2> DEFINE y0 == t * m
             z == i * n
             u == t * (m * n)
  <2>1. y0 \in Nat /\ y0 * n = u /\ z \in Nat
    BY <1>1, Times, TimesAssoc
  <2>2. u \in Nat /\ m * n \in Nat
    <3>1. m * n \in Nat
      BY <1>1, Times
    <3> QED BY <1>1, <3>1, Times
  <2>3. 0 * (m * n) = 0 /\ x = u + z + j
    BY <1>1, <2>2
  <2> HIDE DEF y0, u
  <2>4. (y0 + i) * n = y0 * n + i * n
    BY <1>1, <2>1
  <2>5. (y0 + i) * n = u + z
    BY <2>1, <2>4
  <2> HIDE DEF z
  <2>6. 0 * (m * n) + (y0 + i) * n + j = x
    BY <1>1, <2>1, <2>2, <2>3, <2>5
  <2> QED BY <1>0, <2>6 DEF y0
<1>6. ASSUME NEW v \in (0 .. g.b - 1) \X (0 .. g.m - 1) \X (0 .. g.n - 1),
             v[1] * (m * n) + v[2] * n + v[3] = x
      PROVE  v = w
  <2>1. v[1] = 0 /\ v[1] \in Nat /\ v[2] \in Nat /\ v[3] \in Nat /\ v[3] < n /\ v = <<v[1], v[2], v[3]>>
    BY <1>2, <1>1
  <2>2. v[2] = y /\ v[3] = j
    BY <1>0, <1>1, <1>6, <2>1, WrittenOnce
  <2> QED BY <2>1, <2>2
<1>7. GemmWrites(d, g, x) =
        {v \in (0 .. g.b - 1) \X (0 .. g.m - 1) \X (0 .. g.n - 1) : v[1] * (m * n) + v[2] * n + v[3] = x}
  BY Zenon DEF GemmWrites, m, n
<1>8. w[1] * (m * n) + w[2] * n + w[3] = x
  BY <1>5
<1> HIDE DEF w
<1>9. GemmWrites(d, g, x) = {w}
  BY <1>4, <1>6, <1>7, <1>8, Zenon
<1> QED BY <1>9 DEF w

LEMMA EachWrites ==
  ASSUME NEW d, d.b \in Nat, d.m \in Nat, d.n \in Nat, NEW x, NEW t, NEW i, NEW j,
         Placed(x, d.m, d.n, t, i, j), t < d.b,
         NEW g, ByMatrix(d, g)
  PROVE  GemmWrites(d, g, x) = {<<t, i, j>>}
<1> DEFINE m == d.m
           n == d.n
           b == d.b
           w == <<t, i, j>>
<1>1. /\ b \in Nat /\ m \in Nat /\ n \in Nat /\ t \in Nat /\ i \in Nat /\ j \in Nat /\ i < m /\ j < n /\ t < b
      /\ Placed(x, m, n, t, i, j) /\ x = t * (m * n) + i * n + j
  BY DEF Placed
<1>2. g.b = b /\ g.m = m /\ g.n = n
  BY DEF ByMatrix
<1> HIDE DEF m, n, b
<1>4. w \in (0 .. g.b - 1) \X (0 .. g.m - 1) \X (0 .. g.n - 1)
  BY <1>1, <1>2
<1>6. ASSUME NEW v \in (0 .. g.b - 1) \X (0 .. g.m - 1) \X (0 .. g.n - 1),
             v[1] * (m * n) + v[2] * n + v[3] = x
      PROVE  v = w
  <2>1. v[1] \in Nat /\ v[2] \in Nat /\ v[2] < m /\ v[3] \in Nat /\ v[3] < n /\ v = <<v[1], v[2], v[3]>>
    BY <1>2, <1>1
  <2>2. v[1] = t /\ v[2] = i /\ v[3] = j
    BY <1>1, <1>6, <2>1, WrittenOnce
  <2> QED BY <2>1, <2>2
<1>7. GemmWrites(d, g, x) =
        {v \in (0 .. g.b - 1) \X (0 .. g.m - 1) \X (0 .. g.n - 1) : v[1] * (m * n) + v[2] * n + v[3] = x}
  BY Zenon DEF GemmWrites, m, n
<1>8. w[1] * (m * n) + w[2] * n + w[3] = x
  BY <1>1
<1> HIDE DEF w
<1>9. GemmWrites(d, g, x) = {w}
  BY <1>4, <1>6, <1>7, <1>8, Zenon
<1> QED BY <1>9 DEF w

LEMMA WideWrites ==
  ASSUME NEW d, NEW g, NEW x, NEW t, NEW i, NEW j, NEW y, InColumns(d, g, x, t, i, j, y)
  PROVE  GemmWrites(d, g, x) = {<<0, 0, y>>}
<1> DEFINE n == d.n
           b == d.b
           w == <<0, 0, y>>
<1>1. /\ b \in Nat /\ n \in Nat /\ t \in Nat /\ i = 0 /\ j \in Nat /\ j < n /\ t < b
      /\ x = t * n + j
  <2>1. /\ b \in Nat /\ n \in Nat /\ t < b
        /\ t \in Nat /\ i \in Nat /\ j \in Nat /\ i < 1 /\ j < n
        /\ x = t * (1 * n) + i * n + j
    BY DEF InColumns, Placed
  <2> DEFINE y0 == t * n
             z == i * n
  <2>2. 1 * n = n /\ i = 0 /\ y0 \in Nat
    BY <2>1, Times
  <2>3. z = 0 /\ x = y0 + z + j
    BY <2>1, <2>2
  <2> HIDE DEF y0, z
  <2>4. x = y0 + j
    BY <2>1, <2>2, <2>3
  <2> QED BY <2>1, <2>2, <2>4 DEF y0
<1>2. g.b - 1 = 0 /\ g.m - 1 = 0 /\ g.n = b * n /\ d.m * n = n
  BY <1>1 DEF InColumns, ByColumns
<1>0. y = t * n + j
  BY DEF InColumns, Counted
<1> HIDE DEF n, b
<1>3. t * n + j \in Nat /\ t * n + j < b * n /\ b * n \in Nat
  BY <1>1, PlaceBound
<1>4. w \in (0 .. g.b - 1) \X (0 .. g.m - 1) \X (0 .. g.n - 1)
  <2> DEFINE c == b * n
  <2>1. y \in 0 .. c - 1
    <3> HIDE DEF c
    <3>1. y \in Nat /\ c \in Nat /\ y < c
      BY <1>0, <1>3 DEF c
    <3> QED BY <3>1
  <2>2. 0 \in 0 .. g.b - 1 /\ 0 \in 0 .. g.m - 1 /\ y \in 0 .. g.n - 1
    BY <1>1, <1>2, <2>1
  <2> QED BY <2>2
<1>5. w[1] * n + w[2] * n + w[3] = x
  <2>1. 0 * n = 0 /\ w[1] = 0 /\ w[2] = 0 /\ w[3] = y /\ x = y /\ y \in Nat
    BY <1>0, <1>1, <1>3, Times
  <2> HIDE DEF w
  <2> QED BY <1>1, <2>1
<1>6. ASSUME NEW v \in (0 .. g.b - 1) \X (0 .. g.m - 1) \X (0 .. g.n - 1),
             v[1] * n + v[2] * n + v[3] = x
      PROVE  v = w
  <2>1. v[1] = 0 /\ v[2] = 0 /\ v[3] \in Nat /\ v = <<v[1], v[2], v[3]>>
    BY <1>2, <1>1
  <2>2. v[3] = x /\ x = y
    BY <1>1, <2>1, <1>6, <1>0
  <2> QED BY <1>1, <2>1, <2>2
<1>7. GemmWrites(d, g, x) =
        {v \in (0 .. g.b - 1) \X (0 .. g.m - 1) \X (0 .. g.n - 1) : v[1] * n + v[2] * n + v[3] = x}
  <2>1. GemmWrites(d, g, x) =
        {v \in (0 .. g.b - 1) \X (0 .. g.m - 1) \X (0 .. g.n - 1) : v[1] * (d.m * n) + v[2] * n + v[3] = x}
    BY Zenon DEF GemmWrites, n
  <2> QED BY <1>2, <2>1
<1> HIDE DEF w
<1>9. GemmWrites(d, g, x) = {w}
  BY <1>4, <1>5, <1>6, <1>7, Zenon
<1> QED BY <1>9 DEF w

\* So it is in the storage, step apart, if the matrices are m steps apart.
Spread(skip, step, t, m, x, y) ==
  /\ t \in Nat /\ m \in Nat /\ x \in Nat /\ skip \in Nat /\ step \in Nat
  /\ Counted(t, m, x, y) /\ (t = 0 \/ skip = m * step)

LEMMA SpreadIs ==
  ASSUME NEW skip, NEW step, NEW t, NEW m, NEW x, NEW y, Spread(skip, step, t, m, x, y)
  PROVE  y * step = t * skip + x * step /\ y \in Nat
<1> DEFINE z == t * m
<1>1. /\ t \in Nat /\ m \in Nat /\ x \in Nat /\ skip \in Nat /\ step \in Nat /\ z \in Nat
      /\ y = z + x /\ (t = 0 \/ skip = m * step)
  BY Times DEF Spread, Counted
<1>2. z * step = t * skip
  <2>1. CASE t = 0
    BY <1>1, <2>1
  <2>2. CASE skip = m * step
    BY <1>1, <2>2, TimesAssoc
  <2> QED BY <1>1, <2>1, <2>2
<1> HIDE DEF z
<1>3. (z + x) * step = z * step + x * step
  BY <1>1
<1> QED BY <1>1, <1>2, <1>3

\* The steps of a matrix, which are natural numbers.
RowStep(l) == l.stride[Len(l.dims) - 1]
ColumnStep(l) == l.stride[Len(l.dims)]
Stepped(l) == l.start_offset \in Nat /\ RowStep(l) \in Nat /\ ColumnStep(l) \in Nat

\* gemm finds the same element from one matrix of all the rows, or of all the
\* columns, or anywhere if the matrix is repeated.
LEMMA CellStays ==
  ASSUME NEW l, NEW t \in Nat, NEW i \in Nat, NEW q \in Nat, Stepped(l)
  PROVE  CellAt(l, 0, 0, i, q) = CellAt(l, 0, t, i, q)
BY DEF CellAt, RowStep, ColumnStep, Stepped

LEMMA CellOfRows ==
  ASSUME NEW l, NEW skip, NEW t, NEW i, NEW q \in Nat, NEW y, Stepped(l), NEW m,
         Spread(skip, RowStep(l), t, m, i, y)
  PROVE  CellAt(l, skip, 0, y, q) = CellAt(l, skip, t, i, q)
<1> DEFINE u == RowStep(l)
           a == t * skip
           b == i * u
           c == q * ColumnStep(l)
           e == y * u
<1>1. t \in Nat /\ i \in Nat /\ skip \in Nat /\ u \in Nat
  BY DEF Spread
<1>2. a \in Nat /\ b \in Nat /\ c \in Nat /\ l.start_offset \in Nat
  BY <1>1, Times DEF Stepped
<1>3. e = a + b
  BY SpreadIs
<1>4. CellAt(l, skip, 0, y, q) = l.start_offset + 0 * skip + e + c
      /\ CellAt(l, skip, t, i, q) = l.start_offset + a + b + c
  BY DEF CellAt, RowStep, ColumnStep
<1>5. 0 * skip = 0
  BY <1>1
<1> HIDE DEF a, b, c, e
<1> QED BY <1>2, <1>3, <1>4, <1>5

LEMMA CellOfColumns ==
  ASSUME NEW l, NEW skip, NEW t, NEW i \in Nat, NEW q, NEW y, Stepped(l), NEW m,
         Spread(skip, ColumnStep(l), t, m, q, y)
  PROVE  CellAt(l, skip, 0, i, y) = CellAt(l, skip, t, i, q)
<1> DEFINE u == ColumnStep(l)
           a == t * skip
           b == i * RowStep(l)
           c == q * u
           e == y * u
<1>1. t \in Nat /\ q \in Nat /\ skip \in Nat /\ u \in Nat
  BY DEF Spread
<1>2. a \in Nat /\ b \in Nat /\ c \in Nat /\ l.start_offset \in Nat
  BY <1>1, Times DEF Stepped
<1>3. e = a + c
  BY SpreadIs
<1>4. CellAt(l, skip, 0, i, y) = l.start_offset + 0 * skip + b + e
      /\ CellAt(l, skip, t, i, q) = l.start_offset + a + b + c
  BY DEF CellAt, RowStep, ColumnStep
<1>5. 0 * skip = 0
  BY <1>1
<1> HIDE DEF a, b, c, e
<1> QED BY <1>2, <1>3, <1>4, <1>5

\* What gemm has to sum up for the element (i, j) of the t-th product.
CellSum(l, r, d, t, i, j) ==
  [q \in 1 .. d.k |-> <<CellAt(l, d.a_skip, t, i, q - 1), CellAt(r, d.b_skip, t, q - 1, j)>>]

LEMMA SumAsCells ==
  ASSUME NEW l, NEW r, NEW d, NEW t, NEW i, NEW j, Len(l.dims) = Len(r.dims)
  PROVE  GemmSum(l, r, d, <<t, i, j>>) = CellSum(l, r, d, t, i, j)
<1> DEFINE w == <<t, i, j>>
<1>1. w[1] = t /\ w[2] = i /\ w[3] = j
  OBVIOUS
<1> HIDE DEF w
<1>2. GemmSum(l, r, d, w) = [q \in 1 .. d.k |-> GemmTerm(l, r, d, t, i, j, q - 1)]
  BY <1>1, Zenon DEF GemmSum
<1>3. \A q : GemmTerm(l, r, d, t, i, j, q) = <<CellAt(l, d.a_skip, t, i, q), CellAt(r, d.b_skip, t, q, j)>>
  BY Zenon DEF GemmTerm, CellAt
<1>4. GemmSum(l, r, d, w) = CellSum(l, r, d, t, i, j)
  BY <1>2, <1>3 DEF CellSum
<1> QED BY <1>4 DEF w

\* The steps of a good layout.
LEMMA CellStrides ==
  ASSUME NEW l, Good(l), Len(l.dims) \in {2, 3, 4}
  PROVE  Stepped(l)
<1> DEFINE n == Len(l.dims)
<1>1. l.start_offset \in Nat /\ \A k \in 1 .. n : l.stride[k] \in Nat
  BY GoodParts
<1>2. n \in {2, 3, 4}
  OBVIOUS
<1> HIDE DEF n
<1>3. n \in 1 .. n /\ n - 1 \in 1 .. n
  BY <1>2
<1>4. l.stride[n] \in Nat /\ l.stride[n - 1] \in Nat
  BY <1>1, <1>3
<1> QED BY <1>1, <1>4 DEF n, Stepped, RowStep, ColumnStep

\* Which shortcut is taken, and why it may be.
MergeCase(l, r, n, d, g) ==
  \/ /\ ByRows(d, g)
     /\ d.b_skip = 0 /\ (d.b = 1 \/ d.a_skip = d.m * l.stride[n - 1])
  \/ /\ ByColumns(d, g)
     /\ d.a_skip = 0 /\ d.m = 1 /\ d.b_skip = d.n * r.stride[n]
  \/ ByMatrix(d, g)

LEMMA MergeCases ==
  ASSUME NEW l, NEW r, NEW n, NEW d, SizesOf(l, r, n, d), n = Len(l.dims), MergeFits(l, r)
  PROVE  MergeCase(l, r, n, d, merged_bmnk(d.b, d.m, d.n, d.k, d.a_skip, d.b_skip))
<1> DEFINE b == d.b
           m == d.m
           k == d.k
           c == d.n
           sa == d.a_skip
           sb == d.b_skip
           g == merged_bmnk(b, m, c, k, sa, sb)
<1>1. \/ b = 1
      \/ sb = 0 /\ sa = m * k /\ sa = m * l.stride[n - 1]
      \/ ~(sb = 0 /\ sa = m * k) /\ sa = 0 /\ sb = c * k /\ m = 1 /\ sb = c * r.stride[n]
      \/ ~(sb = 0 /\ sa = m * k) /\ ~(sa = 0 /\ sb = c * k)
  BY Zenon DEF MergeFits, Batches, SizesOf
<1>2. c \in Nat
  BY DEF SizesOf
<1>3. /\ sb = 0 /\ sa = m * k => g = [b |-> 1, m |-> b * m, n |-> c]
      /\ ~(sb = 0 /\ sa = m * k) /\ sa = 0 /\ sb = c * k => g = [b |-> 1, m |-> m, n |-> b * c]
      /\ ~(sb = 0 /\ sa = m * k) /\ ~(sa = 0 /\ sb = c * k) => g = [b |-> b, m |-> m, n |-> c]
  <2> HIDE DEF b, m, k, c, sa, sb
  <2> DEFINE mk == m * k
             ck == c * k
             bm == b * m
             bc == b * c
  <2>1. g = CASE sb = 0 /\ sa = mk -> [b |-> 1, m |-> bm, n |-> c]
              [] sa = 0 /\ sb = ck /\ ~(sb = 0 /\ sa = mk) -> [b |-> 1, m |-> m, n |-> bc]
              [] OTHER -> [b |-> b, m |-> m, n |-> c]
    BY Zenon DEF merged_bmnk
  <2> HIDE DEF g, mk, ck, bm, bc
  <2>2. /\ sb = 0 /\ sa = mk => g = [b |-> 1, m |-> bm, n |-> c]
        /\ ~(sb = 0 /\ sa = mk) /\ sa = 0 /\ sb = ck => g = [b |-> 1, m |-> m, n |-> bc]
        /\ ~(sb = 0 /\ sa = mk) /\ ~(sa = 0 /\ sb = ck) => g = [b |-> b, m |-> m, n |-> c]
    BY <2>1
  <2> QED BY <2>2 DEF mk, ck, bm, bc
<1>4. CASE sb = 0 /\ sa = m * k
  <2>1. b = 1 \/ sa = m * l.stride[n - 1]
    BY <1>1, <1>4
  <2> QED BY <1>3, <1>4, <2>1, Zenon DEF MergeCase, ByRows, ByColumns, ByMatrix
<1>5. CASE ~(sb = 0 /\ sa = m * k) /\ sa = 0 /\ sb = c * k
  <2>1. g = [b |-> 1, m |-> m, n |-> b * c]
    BY <1>3, <1>5
  <2>2. CASE b = 1
    <3>1. g = [b |-> b, m |-> m, n |-> c]
      <4>1. b * c = c
        BY <1>2, <2>2
      <4> HIDE DEF g, b
      <4> QED BY <2>1, <2>2, <4>1
    <3> QED BY <3>1, Zenon DEF MergeCase, ByRows, ByColumns, ByMatrix
  <2>3. CASE m = 1 /\ sb = c * r.stride[n]
    BY <1>5, <2>1, <2>3, Zenon DEF MergeCase, ByRows, ByColumns, ByMatrix
  <2> QED BY <1>1, <1>5, <2>2, <2>3
<1>6. CASE ~(sb = 0 /\ sa = m * k) /\ ~(sa = 0 /\ sb = c * k)
  BY <1>3, <1>6, Zenon DEF MergeCase, ByRows, ByColumns, ByMatrix
<1> QED BY <1>4, <1>5, <1>6

\* Each element of the result is written once, with the sum it has to be.
LEMMA GemmOnce ==
  ASSUME NEW l, NEW r, NEW d, NEW g, NEW x, NEW t, NEW i, NEW j, Placed(x, d.m, d.n, t, i, j), t < d.b,
         NEW n, SizesOf(l, r, n, d), Multiplied(l, r, n), MergeCase(l, r, n, d, g)
  PROVE  GemmSums(l, r, d, g, x) = {CellSum(l, r, d, t, i, j)}
<1> DEFINE sa == d.a_skip
           sb == d.b_skip
           rows == d.m
           cols == d.n
<1>1. /\ d.b \in Nat /\ rows \in Nat /\ cols \in Nat /\ sa \in Nat /\ sb \in Nat /\ d.k \in Nat
      /\ n = Len(l.dims) /\ n = Len(r.dims) /\ n \in {2, 3, 4} /\ Good(l) /\ Good(r)
  BY DEF SizesOf, Multiplied
<1>2. t \in Nat /\ i \in Nat /\ j \in Nat /\ i < rows
  BY DEF Placed
<1>3. Stepped(l) /\ Stepped(r)
  BY <1>1, CellStrides
<1>4. ASSUME NEW y1, NEW y2, NEW y3,
             GemmWrites(d, g, x) = {<<y1, y2, y3>>},
             \A q \in Nat : /\ CellAt(l, sa, y1, y2, q) = CellAt(l, sa, t, i, q)
                            /\ CellAt(r, sb, y1, q, y3) = CellAt(r, sb, t, q, j)
      PROVE  GemmSums(l, r, d, g, x) = {CellSum(l, r, d, t, i, j)}
  <2>1. GemmSum(l, r, d, <<y1, y2, y3>>) = CellSum(l, r, d, y1, y2, y3)
    BY <1>1, SumAsCells
  <2>2. CellSum(l, r, d, y1, y2, y3) = CellSum(l, r, d, t, i, j)
    <3>1. \A q \in 1 .. d.k : q - 1 \in Nat
      BY <1>1
    <3>2. ASSUME NEW q \in 1 .. d.k
          PROVE  <<CellAt(l, sa, y1, y2, q - 1), CellAt(r, sb, y1, q - 1, y3)>>
                   = <<CellAt(l, sa, t, i, q - 1), CellAt(r, sb, t, q - 1, j)>>
      BY <1>4, <3>1, Zenon
    <3>3. CellSum(l, r, d, y1, y2, y3)
            = [q \in 1 .. d.k |-> <<CellAt(l, sa, y1, y2, q - 1), CellAt(r, sb, y1, q - 1, y3)>>]
          /\ CellSum(l, r, d, t, i, j)
            = [q \in 1 .. d.k |-> <<CellAt(l, sa, t, i, q - 1), CellAt(r, sb, t, q - 1, j)>>]
      BY Zenon DEF CellSum
    <3> QED BY <3>2, <3>3
  <2> DEFINE w0 == <<y1, y2, y3>>
  <2>3. GemmWrites(d, g, x) = {w0} /\ GemmSum(l, r, d, w0) = CellSum(l, r, d, t, i, j)
    BY <1>4, <2>1, <2>2
  <2> DEFINE F(w) == GemmSum(l, r, d, w)
             all == GemmWrites(d, g, x)
             sum == CellSum(l, r, d, t, i, j)
  <2>4. all = {w0} /\ F(w0) = sum
    BY <2>3
  <2> HIDE DEF w0, F, all, sum
  <2>5. {F(w) : w \in all} = {sum}
    BY <2>4
  <2> QED BY <2>5 DEF GemmSums, F, all, sum
<1>5. CASE ByRows(d, g) /\ sb = 0 /\ (d.b = 1 \/ sa = rows * l.stride[n - 1])
  <2> DEFINE at == t * rows + i
  <2>0. at = t * d.m + i
    OBVIOUS
  <2>1. t = 0 \/ sa = rows * RowStep(l)
    <3>1. d.b = 1 => t = 0
      BY <1>2
    <3> QED BY <1>1, <1>5, <3>1 DEF RowStep
  <2>2. Spread(sa, RowStep(l), t, rows, i, at)
    BY <1>1, <1>2, <1>3, <2>1 DEF Spread, Stepped, Counted, RowStep, ColumnStep
  <2> HIDE DEF at
  <2>3. GemmWrites(d, g, x) = {<<0, at, j>>}
    <3>1. d.b \in Nat /\ d.m \in Nat /\ d.n \in Nat /\ Placed(x, d.m, d.n, t, i, j) /\ t < d.b
          /\ ByRows(d, g) /\ Counted(t, d.m, i, at)
      BY <1>1, <1>5, <2>0 DEF Counted
    <3> HIDE DEF sa, sb, rows, cols
    <3>2. InRows(d, g, x, t, i, j, at)
      BY <3>1, Zenon DEF InRows
    <3> QED BY <3>2, MergedWrites
  <2> HIDE DEF sa, sb, rows, cols
  <2>4. ASSUME NEW q \in Nat
        PROVE  CellAt(l, sa, 0, at, q) = CellAt(l, sa, t, i, q) /\ CellAt(r, sb, 0, q, j) = CellAt(r, sb, t, q, j)
    BY <1>3, <2>2, CellOfRows, <1>2, CellStays, <1>5
  <2> QED BY <1>4, <2>3, <2>4
<1>6. CASE ByColumns(d, g) /\ sa = 0 /\ rows = 1 /\ sb = cols * r.stride[n]
  <2> DEFINE at == t * cols + j
  <2>0. at = t * d.n + j /\ i = 0
    BY <1>2, <1>6
  <2>2. Spread(sb, ColumnStep(r), t, cols, j, at)
    BY <1>1, <1>2, <1>3, <1>6 DEF Spread, Stepped, Counted, RowStep, ColumnStep
  <2> HIDE DEF at
  <2>3. GemmWrites(d, g, x) = {<<0, i, at>>}
    <3>1. d.b \in Nat /\ d.m = 1 /\ d.n \in Nat /\ Placed(x, d.m, d.n, t, i, j) /\ t < d.b
          /\ ByColumns(d, g) /\ Counted(t, d.n, j, at)
      BY <1>1, <1>6, <2>0 DEF Counted
    <3> HIDE DEF sa, sb, rows, cols
    <3>2. InColumns(d, g, x, t, i, j, at)
      BY <3>1, Zenon DEF InColumns
    <3>3. GemmWrites(d, g, x) = {<<0, 0, at>>}
      BY <3>2, WideWrites
    <3> QED BY <2>0, <3>3
  <2> HIDE DEF sa, sb, rows, cols
  <2>4. ASSUME NEW q \in Nat
        PROVE  CellAt(l, sa, 0, i, q) = CellAt(l, sa, t, i, q) /\ CellAt(r, sb, 0, q, at) = CellAt(r, sb, t, q, j)
    BY <1>3, <2>2, CellOfColumns, <1>2, CellStays, <1>6
  <2> QED BY <1>4, <2>3, <2>4
<1>7. CASE ByMatrix(d, g)
  <2>1. GemmWrites(d, g, x) = {<<t, i, j>>}
    <3>1. d.b \in Nat /\ d.m \in Nat /\ d.n \in Nat /\ Placed(x, d.m, d.n, t, i, j) /\ t < d.b
          /\ ByMatrix(d, g)
      BY <1>1, <1>7
    <3> HIDE DEF sa, sb, rows, cols
    <3> QED BY <3>1, EachWrites
  <2> QED BY <1>4, <2>1
<1> QED BY <1>5, <1>6, <1>7, Zenon DEF MergeCase

\* Which are the elements that the product combines.
PlaceSum(l, r, d, t, i, j) ==
  [q \in 1 .. d.k |-> <<RowMajor(l)[t * d.m * d.k + i * d.k + q],
                        RowMajor(r)[t * d.k * d.n + (q - 1) * d.n + j + 1]>>]

LEMMA SumOfPlaces ==
  ASSUME NEW l, NEW r, NEW n, NEW d, SizesOf(l, r, n, d), Multiplied(l, r, n),
         NEW t \in Nat, NEW i \in Nat, NEW j \in Nat, t < d.b, i < d.m, j < d.n
  PROVE  CellSum(l, r, d, t, i, j) = PlaceSum(l, r, d, t, i, j)
<1>1. /\ n \in {2, 3, 4} /\ Good(l) /\ Good(r) /\ n = Len(l.dims) /\ n = Len(r.dims)
      /\ d.m \in Nat /\ d.n \in Nat /\ d.k \in Nat
      /\ d.b = CountBefore(l.dims, n - 1) /\ d.b = CountBefore(r.dims, n - 1)
      /\ d.m = l.dims[n - 1] /\ d.k = l.dims[n] /\ d.k = r.dims[n - 1] /\ d.n = r.dims[n]
      /\ d.a_skip = BatchSkip(l, d.m * d.k) /\ d.b_skip = BatchSkip(r, d.n * d.k)
  BY DEF SizesOf, Multiplied
<1>2. d.a_skip # None /\ d.b_skip # None
  BY DEF SizesOf, None
<1>3. ASSUME NEW q \in 1 .. d.k
      PROVE  /\ CellAt(l, d.a_skip, t, i, q - 1) = RowMajor(l)[t * d.m * d.k + i * d.k + q]
             /\ CellAt(r, d.b_skip, t, q - 1, j) = RowMajor(r)[t * d.k * d.n + (q - 1) * d.n + j + 1]
  <2> DEFINE h == q - 1
  <2>1. h \in Nat /\ h < d.k /\ q = h + 1
    <3>1. d.k \in Nat
      BY <1>1
    <3> QED BY <3>1
  <2> HIDE DEF h
  <2>2. IsCell(l, n, t, i, h)
    BY <1>1, <2>1 DEF IsCell
  <2>3. IsCell(r, n, t, h, j)
    BY <1>1, <2>1 DEF IsCell
  <2>4. d.m * d.k \in Nat /\ d.n * d.k \in Nat
    BY <1>1, Times
  <2>5. RowMajor(l)[CellPlace(l, t, i, h) + 1] = CellAt(l, d.a_skip, t, i, h)
    <3> DEFINE whole == d.m * d.k
    <3>1. whole \in Nat /\ d.a_skip = BatchSkip(l, whole) /\ BatchSkip(l, whole) # None
      BY <1>1, <1>2, <2>4
    <3> HIDE DEF whole
    <3>2. n \in {2, 3, 4} /\ IsCell(l, n, t, i, h)
      BY <1>1, <2>2
    <3>3. RowMajor(l)[CellPlace(l, t, i, h) + 1] = CellAt(l, BatchSkip(l, whole), t, i, h)
      BY <3>1, <3>2, CellIs
    <3> QED BY <3>1, <3>3
  <2>6. RowMajor(r)[CellPlace(r, t, h, j) + 1] = CellAt(r, d.b_skip, t, h, j)
    <3> DEFINE whole == d.n * d.k
    <3>1. whole \in Nat /\ d.b_skip = BatchSkip(r, whole) /\ BatchSkip(r, whole) # None
      BY <1>1, <1>2, <2>4
    <3> HIDE DEF whole
    <3>2. n \in {2, 3, 4} /\ IsCell(r, n, t, h, j)
      BY <1>1, <2>3
    <3>3. RowMajor(r)[CellPlace(r, t, h, j) + 1] = CellAt(r, BatchSkip(r, whole), t, h, j)
      BY <3>1, <3>2, CellIs
    <3> QED BY <3>1, <3>3
  <2>7. CellPlace(l, t, i, h) + 1 = t * d.m * d.k + i * d.k + q
    <3> DEFINE u == t * d.m * d.k
               v == i * d.k
    <3>1. u = t * (d.m * d.k)
      BY <1>1, TimesAssoc
    <3>2. CellPlace(l, t, i, h) = u + v + h
      BY <1>1, <3>1 DEF CellPlace
    <3>3. u \in Nat /\ v \in Nat
      BY <1>1, <2>4, <3>1, Times
    <3> HIDE DEF u, v
    <3>4. CellPlace(l, t, i, h) + 1 = u + v + q
      BY <2>1, <3>2, <3>3
    <3> QED BY <3>4 DEF u, v
  <2>8. CellPlace(r, t, h, j) + 1 = t * d.k * d.n + h * d.n + j + 1
    BY <1>1, TimesAssoc DEF CellPlace
  <2> QED BY <2>5, <2>6, <2>7, <2>8 DEF h
<1> QED BY <1>3 DEF CellSum, PlaceSum

LEMMA ProductIs ==
  ASSUME NEW l, NEW r, NEW n, NEW d, SizesOf(l, r, n, d), n = Len(l.dims)
  PROVE  ProductOf(l, r) =
           [p \in 1 .. d.b * d.m * d.n |->
             {PlaceSum(l, r, d, (p - 1) \div (d.m * d.n), ((p - 1) \div d.n) % d.m, (p - 1) % d.n)}]
<1>1. /\ d.b \in Nat /\ d.m \in Nat /\ d.n \in Nat /\ d.k \in Nat \ {0} /\ d.k = l.dims[n] /\ d.n = r.dims[n]
      /\ d.m = l.dims[n - 1] /\ n = Len(r.dims) /\ Size(l.dims) = d.b * (d.m * d.k)
  BY DEF SizesOf
<1>2. Last(l.dims) = d.k /\ Last(r.dims) = d.n /\ l.dims[Len(l.dims) - 1] = d.m
  BY <1>1 DEF Last
<1>3. Size(l.dims) \div d.k = d.b * d.m
  <2> DEFINE c == d.b * d.m
             k == d.k
  <2>1. c \in Nat /\ k \in Nat \ {0} /\ Size(l.dims) = c * k
    <3>1. (d.b * d.m) * d.k = d.b * (d.m * d.k)
      BY <1>1, TimesAssoc
    <3> QED BY <1>1, <3>1, Times
  <2> HIDE DEF c, k
  <2>2. Splits(Size(l.dims), c, k, 0)
    BY <2>1 DEF Splits
  <2>3. Size(l.dims) \div k = c
    BY <2>1, <2>2, DivRule
  <2> QED BY <2>3 DEF c, k
<1>4. ProductOf(l, r) =
        [p \in 1 .. (Size(l.dims) \div d.k) * d.n |->
          {[q \in 1 .. d.k |->
             <<RowMajor(l)[((p - 1) \div (d.m * d.n)) * d.m * d.k + (((p - 1) \div d.n) % d.m) * d.k + q],
               RowMajor(r)[((p - 1) \div (d.m * d.n)) * d.k * d.n + (q - 1) * d.n + ((p - 1) % d.n) + 1]>>]}]
  BY <1>2, Zenon DEF ProductOf
<1> QED BY <1>3, <1>4, Zenon DEF PlaceSum

\* A product that the code does not refuse, if its shortcut is right, is right.
LEMMA MatMulIs ==
  ASSUME NEW l, NEW r, NEW n, Multiplied(l, r, n)
  PROVE  MatMul(l, r) = ProductOf(l, r)
<1> DEFINE d == bmnk(l, r)
           g == merged_bmnk(d.b, d.m, d.n, d.k, d.a_skip, d.b_skip)
           all == d.b * d.m * d.n
<1>1. SizesOf(l, r, n, d)
  BY SizesAre
<1>2. MatMul(l, r) = Gemms(l, r, d, g)
  BY Zenon DEF MatMul, MergedGemms
<1> HIDE DEF d
<1>3. n = Len(l.dims) /\ MergeFits(l, r)
  BY DEF Multiplied
<1>4. MergeCase(l, r, n, d, g)
  BY <1>1, <1>3, MergeCases
<1> HIDE DEF g
<1>5. MatMul(l, r) = [p \in 1 .. all |-> GemmSums(l, r, d, g, p - 1)]
  BY <1>2, GemmsAre
<1>6. ProductOf(l, r) =
        [p \in 1 .. all |->
          {PlaceSum(l, r, d, (p - 1) \div (d.m * d.n), ((p - 1) \div d.n) % d.m, (p - 1) % d.n)}]
  BY <1>1, <1>3, ProductIs
<1>7. d.b \in Nat /\ d.m \in Nat /\ d.n \in Nat /\ all \in Nat
  BY <1>1, Times DEF SizesOf
<1>8. ASSUME NEW p \in 1 .. all
      PROVE  GemmSums(l, r, d, g, p - 1) =
               {PlaceSum(l, r, d, (p - 1) \div (d.m * d.n), ((p - 1) \div d.n) % d.m, (p - 1) % d.n)}
  <2> DEFINE x == p - 1
  <2>1. x \in Nat /\ x < d.b * d.m * d.n
    <3>1. p \in 1 .. all /\ all \in Nat
      BY <1>7
    <3> HIDE DEF all
    <3>2. x \in Nat /\ x < all
      BY <3>1
    <3> QED BY <3>2 DEF all
  <2> HIDE DEF x
  <2>2. PICK t, i, j : t < d.b /\ Placed(x, d.m, d.n, t, i, j)
    BY <1>7, <2>1, PlaceExists
  <2>3. x \div (d.m * d.n) = t /\ (x \div d.n) % d.m = i /\ x % d.n = j
    BY <1>7, <2>2, PlaceIs
  <2>4. GemmSums(l, r, d, g, x) = {CellSum(l, r, d, t, i, j)}
    BY <1>1, <1>4, <2>2, GemmOnce
  <2>5. t \in Nat /\ i \in Nat /\ j \in Nat /\ i < d.m /\ j < d.n
    BY <2>2 DEF Placed
  <2>6. CellSum(l, r, d, t, i, j) = PlaceSum(l, r, d, t, i, j)
    BY <1>1, <2>2, <2>5, SumOfPlaces
  <2>7. GemmSums(l, r, d, g, x) =
          {PlaceSum(l, r, d, x \div (d.m * d.n), (x \div d.n) % d.m, x % d.n)}
    BY <2>3, <2>4, <2>6
  <2> QED BY <2>7 DEF x
<1> QED BY <1>5, <1>6, <1>8

LEMMA TwoIs ==
  ASSUME NEW a \in Nat, NEW b \in Nat, NEW s, s = <<a, b>>
  PROVE  s \in Seq(Nat) /\ Len(s) = 2 /\ s[1] = a /\ s[2] = b /\ DOMAIN s = 1 .. 2
OBVIOUS

Swapped(v, l, n, d1, d2) ==
  Good(v) /\ Len(v.dims) = n /\ \A k \in 1 .. n : v.dims[k] = l.dims[SwapOf(n, d1, d2)[k]]

LEMMA SwapGood ==
  ASSUME NEW l, Good(l), NEW n, n = Len(l.dims), NEW d1 \in 1 .. n, NEW d2 \in 1 .. n
  PROVE  Swapped(transpose(l, d1, d2), l, n, d1, d2)
<1>1. PermuteViews(transpose(l, d1, d2), l, SwapOf(n, d1, d2), SwapOf(n, d1, d2))
  BY TransposeIs
<1>2. /\ Good(transpose(l, d1, d2))
      /\ transpose(l, d1, d2).dims = [k \in 1 .. Len(l.dims) |-> l.dims[SwapOf(n, d1, d2)[k]]]
  BY <1>1, Zenon DEF PermuteViews, Views
<1> DEFINE v == transpose(l, d1, d2)
<1>3. Good(v) /\ v.dims = [k \in 1 .. n |-> l.dims[SwapOf(n, d1, d2)[k]]] /\ n \in Nat
  BY <1>2, GoodParts
<1> HIDE DEF v
<1>4. Len(v.dims) = n
  <2> DEFINE m == Len(v.dims)
  <2>1. m \in Nat /\ 1 .. m = 1 .. n
    BY <1>3, GoodParts
  <2> HIDE DEF m
  <2>2. (m \in 1 .. m => m \in 1 .. n) /\ (n \in 1 .. n => n \in 1 .. m)
    BY <2>1
  <2>3. m = n
    BY <1>3, <2>1, <2>2
  <2> QED BY <2>3 DEF m
<1>5. \A k \in 1 .. n : v.dims[k] = l.dims[SwapOf(n, d1, d2)[k]]
  BY <1>3
<1>6. Swapped(v, l, n, d1, d2)
  BY <1>3, <1>4, <1>5, Zenon DEF Swapped
<1> QED BY <1>6 DEF v

\* A matrix may be repeated over any batch.
LEMMA RepeatGood ==
  ASSUME NEW l, Good(l), NEW batch \in Seq(Nat), NEW rows \in Nat, NEW cols \in Nat,
         Len(l.dims) = 2, l.dims[1] = rows, l.dims[2] = cols
  PROVE  Good(broadcast_as(l, batch \o <<rows, cols>>))
<1> DEFINE m == <<rows, cols>>
           shape == batch \o m
           n == Len(batch)
<1>1. m \in Seq(Nat) /\ Len(m) = 2 /\ m[1] = rows /\ m[2] = cols
  BY TwoIs
<1> HIDE DEF m
<1>2. /\ shape \in Seq(Nat) /\ Len(shape) = n + 2 /\ n \in Nat
      /\ \A k \in 1 .. 2 : shape[n + k] = m[k]
  <2>1. /\ shape \in Seq(Nat) /\ Len(shape) = Len(batch) + Len(m)
        /\ \A k \in 1 .. Len(m) : shape[Len(batch) + k] = m[k]
    BY <1>1, ConcatIs
  <2>2. n \in Nat
    BY SeqParts
  <2> HIDE DEF shape
  <2> QED BY <1>1, <2>1, <2>2
<1> HIDE DEF shape, n
<1>3. DOMAIN l.dims = 1 .. 2
  BY GoodParts
<1>4. can_broadcast(l, shape)
  BY <1>2, <1>1, <1>3 DEF can_broadcast
<1>5. BroadcastViews(broadcast_as(l, shape), l, shape)
  BY <1>2, <1>4, BroadcastIs
<1>6. Good(broadcast_as(l, shape))
  BY <1>5, Zenon DEF BroadcastViews, Views
<1> QED BY <1>6 DEF shape, m

LEMMA SwapTwo ==
  ASSUME NEW l, Good(l), Len(l.dims) = 2
  PROVE  /\ Good(transpose(l, 1, 2)) /\ Len(transpose(l, 1, 2).dims) = 2
         /\ transpose(l, 1, 2).dims[1] = l.dims[SwapOf(2, 1, 2)[1]]
         /\ transpose(l, 1, 2).dims[2] = l.dims[SwapOf(2, 1, 2)[2]]
<1>1. 2 = Len(l.dims) /\ 1 \in 1 .. 2 /\ 2 \in 1 .. 2
  OBVIOUS
<1>2. Swapped(transpose(l, 1, 2), l, 2, 1, 2)
  BY <1>1, SwapGood
<1> QED BY <1>1, <1>2 DEF Swapped

LEMMA MatricesGood ==
  ASSUME NEW batch \in Seq(Nat), NEW rows \in Nat, NEW cols \in Nat,
         NEW l \in MatrixLayouts(batch, rows, cols)
  PROVE  Good(l)
<1> DEFINE m == <<rows, cols>>
           mt == <<cols, rows>>
           shape == batch \o m
           turned == contiguous_with_offset(batch \o mt, 0)
           one == contiguous_with_offset(m, 0)
           two == contiguous_with_offset(mt, 0)
           n == Len(batch) + 2
<1>1. l \in {contiguous_with_offset(shape, 0), transpose(turned, n - 1, n),
             broadcast_as(one, shape), broadcast_as(transpose(two, 1, 2), shape)}
  BY Zenon DEF MatrixLayouts
<1>2. /\ m \in Seq(Nat) /\ Len(m) = 2 /\ m[1] = rows /\ m[2] = cols
      /\ mt \in Seq(Nat) /\ Len(mt) = 2 /\ mt[1] = cols /\ mt[2] = rows
  BY TwoIs
<1> HIDE DEF m, mt
<1>3. shape \in Seq(Nat) /\ batch \o mt \in Seq(Nat) /\ Len(batch \o mt) = n /\ n \in Nat /\ n >= 2
  <2>1. Len(batch) \in Nat
    BY SeqParts
  <2>2. shape \in Seq(Nat) /\ batch \o mt \in Seq(Nat) /\ Len(batch \o mt) = Len(batch) + 2
    <3>1. batch \o m \in Seq(Nat) /\ batch \o mt \in Seq(Nat) /\ Len(batch \o mt) = Len(batch) + Len(mt)
      BY <1>2, ConcatIs
    <3> QED BY <1>2, <3>1
  <2> HIDE DEF shape
  <2> QED BY <2>1, <2>2
<1> HIDE DEF n
<1>4. Good(contiguous_with_offset(shape, 0))
  BY <1>3, ContigParts
<1>5. Good(transpose(turned, n - 1, n))
  <2>1. Good(turned) /\ turned.dims = batch \o mt
    <3> DEFINE back == batch \o mt
    <3>1. back \in Seq(Nat) /\ 0 \in Nat
      BY <1>3
    <3> HIDE DEF back, shape
    <3>2. Good(contiguous_with_offset(back, 0)) /\ contiguous_with_offset(back, 0).dims = back
      BY <3>1, ContigParts
    <3> QED BY <3>2 DEF back
  <2>2. n = Len(turned.dims) /\ n - 1 \in 1 .. n /\ n \in 1 .. n
    BY <1>3, <2>1
  <2> HIDE DEF turned
  <2>3. Swapped(transpose(turned, n - 1, n), turned, n, n - 1, n)
    BY <2>1, <2>2, SwapGood
  <2> QED BY <2>3, Zenon DEF Swapped
<1>6. Good(broadcast_as(one, shape))
  <2>1. Good(one) /\ one.dims = m
    BY <1>2, ContigParts
  <2> HIDE DEF one
  <2>2. Len(one.dims) = 2 /\ one.dims[1] = rows /\ one.dims[2] = cols
    BY <1>2, <2>1
  <2> QED BY <2>1, <2>2, RepeatGood DEF m
<1>7. Good(broadcast_as(transpose(two, 1, 2), shape))
  <2>1. Good(two) /\ two.dims = mt
    BY <1>2, ContigParts
  <2> HIDE DEF two
  <2>2. Len(two.dims) = 2 /\ 1 \in 1 .. 2 /\ 2 \in 1 .. 2
    BY <1>2, <2>1
  <2> DEFINE v == transpose(two, 1, 2)
  <2>3. /\ Good(v) /\ Len(v.dims) = 2
        /\ v.dims[1] = two.dims[SwapOf(2, 1, 2)[1]] /\ v.dims[2] = two.dims[SwapOf(2, 1, 2)[2]]
    <3> HIDE DEF v
    <3> QED BY <2>1, <2>2, SwapTwo DEF v
  <2> HIDE DEF v
  <2>4. v.dims[1] = rows /\ v.dims[2] = cols
    BY <1>2, <2>1, <2>3 DEF SwapOf
  <2>5. Good(broadcast_as(v, batch \o <<rows, cols>>))
    BY <2>3, <2>4, RepeatGood
  <2> QED BY <2>5 DEF v, m
<1> QED BY <1>1, <1>4, <1>5, <1>6, <1>7, Zenon

LEMMA FactorsGood ==
  ASSUME VInv, NEW f \in Factors
  PROVE  \E l, r : f = <<l, r>> /\ Good(l) /\ Good(r)
<1> DEFINE batch == SubSeq(dims, 1, rank - 2)
           rights == UNION {MatrixLayouts(batch, dims[rank], n) : n \in 1 .. 2}
           lefts == UNION {MatrixLayouts(batch, m, dims[rank - 1]) : m \in 1 .. 2}
<1>1. ~(rank < 2) /\ (f \in {<<layout, r>> : r \in rights} \/ f \in {<<l, layout>> : l \in lefts})
  BY DEF Factors
<1>2. Good(layout) /\ dims \in Seq(Nat) /\ rank = Len(dims)
  BY StateTyped DEF dims, rank
<1>3. rank \in Nat /\ \A k \in 1 .. rank : dims[k] \in Nat
  BY <1>2, SeqParts
<1>4. rank - 2 \in 0 .. rank /\ rank - 1 \in 1 .. rank /\ rank \in 1 .. rank
  BY <1>1, <1>3
<1>5. batch \in Seq(Nat) /\ dims[rank] \in Nat /\ dims[rank - 1] \in Nat
  BY <1>2, <1>3, <1>4, PrefixIs
<1> HIDE DEF batch
<1>6. CASE f \in {<<layout, r>> : r \in rights}
  <2>1. PICK r \in rights : f = <<layout, r>>
    BY <1>6
  <2>2. PICK n \in 1 .. 2 : r \in MatrixLayouts(batch, dims[rank], n)
    BY <2>1
  <2>3. n \in Nat
    OBVIOUS
  <2>4. Good(r)
    BY <1>5, <2>2, <2>3, MatricesGood
  <2> QED BY <1>2, <2>1, <2>4
<1>7. CASE f \in {<<l, layout>> : l \in lefts}
  <2>1. PICK l \in lefts : f = <<l, layout>>
    BY <1>7
  <2>2. PICK m \in 1 .. 2 : l \in MatrixLayouts(batch, m, dims[rank - 1])
    BY <2>1
  <2>3. m \in Nat
    OBVIOUS
  <2>4. Good(l)
    BY <1>5, <2>2, <2>3, MatricesGood
  <2> QED BY <1>2, <2>1, <2>4
<1> QED BY <1>1, <1>6, <1>7

LEMMA VInvMultiplies == VInv => MatMulExact
<1> SUFFICES ASSUME VInv, NEW f \in Factors, Accepted(f), MergeFits(f[1], f[2])
             PROVE  MatMul(f[1], f[2]) = ProductOf(f[1], f[2])
  BY Zenon DEF MatMulExact
<1>1. PICK l, r : f = <<l, r>> /\ Good(l) /\ Good(r)
  BY FactorsGood
<1>2. f[1] = l /\ f[2] = r
  BY <1>1
<1>3. MergeFits(l, r) /\ Accepted(<<l, r>>)
  BY <1>1, <1>2
<1>4. BatchSkip(l, 0) # None
  BY <1>2, Zenon DEF Accepted
<1>5. Len(l.dims) \in {2, 3, 4}
  BY <1>1, <1>4, SkipTyped
<1>6. Multiplied(l, r, Len(l.dims))
  BY <1>1, <1>3, <1>5 DEF Multiplied
<1>7. MatMul(l, r) = ProductOf(l, r)
  BY <1>6, MatMulIs
<1> QED BY <1>2, <1>7

\* Whatever views a tensor was taken through, and as either factor, matmul sums
\* up, for each element of its result, the products of a row by a column and
\* writes it once, when it turns the batch into one matrix and when it does not;
\* under MergeFits, without which MergedProduct finds it wrong.
THEOREM ProductsAreRight == Spec => []MatMulExact
<1>1. Init => VInv
  BY InitFits
<1>2. VInv /\ [Next]_vars => VInv'
  BY StepKeeps
<1>3. VInv => MatMulExact
  BY VInvMultiplies
<1> QED BY <1>1, <1>2, <1>3, PTL DEF Spec

-----------------------------------------------------------------------------
(* Enumerations in increasing order.                                       *)

\* How many of A are less than x.
Rank(A, x) == Cardinality({y \in A : y < x})

LEMMA RankExists ==
  ASSUME NEW n \in Nat, NEW A \in SUBSET (1 .. n), NEW j \in 1 .. Cardinality(A)
  PROVE  \E x \in A : Rank(A, x) = j - 1
<1> DEFINE Ranked(m) == \A B \in SUBSET (1 .. m) : \A q \in 1 .. Cardinality(B) : \E x \in B : Rank(B, x) = q - 1
           T == {m \in 0 .. n : Ranked(m)}
<1>1. 0 \in T
  <2>1. \A B \in SUBSET (1 .. 0) : Cardinality(B) = 0
    <3>1. \A B \in SUBSET (1 .. 0) : B = {}
      OBVIOUS
    <3> QED BY <3>1, FS_EmptySet, Zenon
  <2> QED BY <2>1
<1>2. ASSUME NEW m \in 1 .. n, m - 1 \in T PROVE m \in T
  <2> SUFFICES ASSUME NEW B \in SUBSET (1 .. m), NEW q \in 1 .. Cardinality(B)
               PROVE  \E x \in B : Rank(B, x) = q - 1
    OBVIOUS
  <2>1. Ranked(m - 1)
    BY <1>2
  <2>2. CASE m \notin B
    <3>1. B \in SUBSET (1 .. m - 1)
      BY <2>2
    <3> QED BY <2>1, <3>1
  <2>3. CASE m \in B
    <3> DEFINE C == B \ {m}
    <3>1. C \in SUBSET (1 .. m - 1) /\ IsFiniteSet(B)
      <4>1. IsFiniteSet(1 .. m)
        BY FS_Interval
      <4>2. IsFiniteSet(B)
        BY <4>1, FS_Subset
      <4> QED BY <4>2
    <3>2. Cardinality(C) = Cardinality(B) - 1 /\ Cardinality(B) \in Nat
      BY <2>3, <3>1, FS_RemoveElement, FS_CardinalityType
    <3>3. CASE q = Cardinality(B)
      <4>1. {y \in B : y < m} = C
        <5>1. \A y \in B : y < m <=> y # m
          OBVIOUS
        <5> QED BY <5>1
      <4> QED BY <2>3, <3>2, <3>3, <4>1 DEF Rank
    <3>4. CASE q # Cardinality(B)
      <4>1. q \in 1 .. Cardinality(C)
        BY <3>2, <3>4
      <4>2. PICK x \in C : Rank(C, x) = q - 1
        BY <2>1, <3>1, <4>1
      <4>3. {y \in B : y < x} = {y \in C : y < x}
        BY <3>1
      <4> QED BY <4>2, <4>3 DEF Rank
    <3> QED BY <3>3, <3>4
  <2> QED BY <2>2, <2>3
<1> HIDE DEF T
<1>3. 0 .. n \subseteq T
  BY <1>1, <1>2, UpTo
<1>4. n \in T
  BY <1>3
<1> QED BY <1>4 DEF T

\* Different elements have different ranks.
LEMMA RankGrows ==
  ASSUME NEW n \in Nat, NEW A \in SUBSET (1 .. n), NEW x \in A, NEW z \in A, x < z
  PROVE  Rank(A, x) \in Nat /\ Rank(A, z) \in Nat /\ Rank(A, x) < Rank(A, z)
<1> DEFINE U == {y \in A : y < x}
           V == {y \in A : y < z}
<1>1. IsFiniteSet(V)
  <2>1. IsFiniteSet(1 .. n)
    BY FS_Interval
  <2> QED BY <2>1, FS_Subset
<1>2. U \subseteq V /\ x \in V /\ x \notin U
  <2>1. A \subseteq Nat
    OBVIOUS
  <2>2. \A y \in A : y < x => y < z
    BY <2>1
  <2>3. ~(x < x)
    BY <2>1
  <2> QED BY <2>2, <2>3
<1>3. U \subseteq V /\ U # V
  BY <1>2
<1> HIDE DEF U, V
<1>4. Cardinality(U) \in Nat /\ Cardinality(V) \in Nat /\ Cardinality(U) <= Cardinality(V)
      /\ (Cardinality(U) = Cardinality(V) => U = V)
  BY <1>1, <1>3, FS_Subset, FS_CardinalityType
<1>5. Cardinality(U) < Cardinality(V)
  BY <1>3, <1>4
<1> QED BY <1>4, <1>5 DEF Rank, U, V

LEMMA InOrderIs ==
  ASSUME NEW n \in Nat, NEW A \in SUBSET (1 .. n)
  PROVE  /\ DOMAIN InOrder(A) = 1 .. Cardinality(A) /\ Cardinality(A) \in Nat
         /\ \A j \in 1 .. Cardinality(A) : InOrder(A)[j] \in A /\ Rank(A, InOrder(A)[j]) = j - 1
<1>1. Cardinality(A) \in Nat
  <2>1. IsFiniteSet(1 .. n)
    BY FS_Interval
  <2>2. IsFiniteSet(A)
    BY <2>1, FS_Subset
  <2> QED BY <2>2, FS_CardinalityType
<1>2. InOrder(A) = [j \in 1 .. Cardinality(A) |-> CHOOSE x \in A : Rank(A, x) = j - 1]
  BY Zenon DEF InOrder, Rank
<1>3. ASSUME NEW j \in 1 .. Cardinality(A)
      PROVE  InOrder(A)[j] \in A /\ Rank(A, InOrder(A)[j]) = j - 1
  BY RankExists, <1>2
<1> QED BY <1>1, <1>2, <1>3

\* g goes up on A, below n, and takes it to B, below m.
Climbs(g, A, n, B, m) ==
  /\ n \in Nat /\ m \in Nat /\ A \in SUBSET (1 .. n) /\ B \in SUBSET (1 .. m)
  /\ \A x \in A : g[x] \in B
  /\ \A y \in B : \E x \in A : g[x] = y
  /\ \A x, z \in A : x < z => g[x] < g[z]

\* Then it takes the one in order to the other in order.
LEMMA OrderMoved ==
  ASSUME NEW g, NEW A, NEW n, NEW B, NEW m, Climbs(g, A, n, B, m)
  PROVE  InOrder(B) = [j \in DOMAIN InOrder(A) |-> g[InOrder(A)[j]]]
<1>9. n \in Nat /\ m \in Nat /\ A \in SUBSET (1 .. n) /\ B \in SUBSET (1 .. m)
  BY DEF Climbs
<1>0. IsFiniteSet(A) /\ IsFiniteSet(B)
  <2>1. IsFiniteSet(1 .. n) /\ IsFiniteSet(1 .. m)
    BY <1>9, FS_Interval
  <2> QED BY <1>9, <2>1, FS_Subset
<1>7. \A x \in A : x \in Nat /\ g[x] \in B /\ g[x] \in Nat
  <2>1. \A x \in A : g[x] \in B
    BY DEF Climbs
  <2>2. A \subseteq Nat /\ B \subseteq Nat
    BY <1>9
  <2> QED BY <2>1, <2>2
<1>1. \A x, z \in A : g[x] < g[z] <=> x < z
  <2> SUFFICES ASSUME NEW x \in A, NEW z \in A PROVE g[x] < g[z] <=> x < z
    OBVIOUS
  <2>1. x \in Nat /\ z \in Nat /\ g[x] \in Nat /\ g[z] \in Nat
    BY <1>7
  <2>2. (x < z => g[x] < g[z]) /\ (z < x => g[z] < g[x])
    BY DEF Climbs
  <2> QED BY <2>1, <2>2
<1>2. \A S \in SUBSET A : Cardinality({g[x] : x \in S}) = Cardinality(S)
  <2> SUFFICES ASSUME NEW S \in SUBSET A PROVE Cardinality({g[x] : x \in S}) = Cardinality(S)
    OBVIOUS
  <2> DEFINE R == {g[x] : x \in S}
             h == [x \in S |-> g[x]]
  <2>1. h \in Bijection(S, R)
    <3>1. h \in [S -> R] /\ \A y \in R : \E x \in S : h[x] = y
      OBVIOUS
    <3>2. \A x, z \in S : h[x] = h[z] => x = z
      <4> SUFFICES ASSUME NEW x \in S, NEW z \in S, h[x] = h[z] PROVE x = z
        OBVIOUS
      <4>1. x \in Nat /\ z \in Nat /\ g[x] \in Nat /\ g[x] = g[z]
        BY <1>7
      <4>2. ~(x < z) /\ ~(z < x)
        BY <1>1, <4>1
      <4> QED BY <4>1, <4>2
    <3> HIDE DEF h, R
    <3> QED BY <3>1, <3>2 DEF Bijection, Injection, Surjection, IsInjective
  <2>2. IsFiniteSet(S)
    BY <1>0, FS_Subset
  <2> HIDE DEF R, h
  <2> QED BY <2>1, <2>2, FS_Bijection DEF ExistsBijection, R
<1>3. Cardinality(A) = Cardinality(B)
  <2>1. {g[x] : x \in A} = B
    BY DEF Climbs
  <2> QED BY <1>2, <2>1
<1>4. ASSUME NEW x \in A PROVE Rank(B, g[x]) = Rank(A, x)
  <2> DEFINE S == {y \in A : y < x}
  <2>1. {g[y] : y \in S} = {y \in B : y < g[x]}
    <3>1. ASSUME NEW y \in S PROVE g[y] \in B /\ g[y] < g[x]
      BY <1>1 DEF Climbs
    <3>2. ASSUME NEW z \in B, z < g[x] PROVE \E y \in S : z = g[y]
      <4>1. PICK y \in A : g[y] = z
        BY DEF Climbs
      <4>2. y < x
        BY <1>1, <3>2, <4>1
      <4> QED BY <4>1, <4>2
    <3> QED BY <3>1, <3>2
  <2>2. S \in SUBSET A
    OBVIOUS
  <2> HIDE DEF S
  <2>3. Cardinality({y \in B : y < g[x]}) = Cardinality(S)
    BY <1>2, <2>1, <2>2
  <2> QED BY <2>3 DEF Rank, S
<1> DEFINE a == InOrder(A)
           b == InOrder(B)
           c == Cardinality(A)
<1>5. /\ DOMAIN a = 1 .. c /\ c \in Nat /\ \A j \in 1 .. c : a[j] \in A /\ Rank(A, a[j]) = j - 1
      /\ DOMAIN b = 1 .. c /\ \A j \in 1 .. c : b[j] \in B /\ Rank(B, b[j]) = j - 1
  BY <1>3, <1>9, InOrderIs
<1>8. b = [j \in 1 .. c |-> b[j]]
  <2> DEFINE F(j) == CHOOSE x \in B : Cardinality({y \in B : y < x}) = j - 1
  <2>1. b = [j \in 1 .. Cardinality(B) |-> F(j)]
    BY Zenon DEF InOrder
  <2> HIDE DEF b, F
  <2>2. b = [j \in 1 .. c |-> F(j)]
    BY <1>3, <2>1
  <2> HIDE DEF c
  <2> QED BY <2>2
<1> HIDE DEF a, b, c
<1>6. ASSUME NEW j \in 1 .. c PROVE b[j] = g[a[j]]
  <2> DEFINE y == b[j]
             z == g[a[j]]
  <2>1. y \in B /\ z \in B /\ Rank(B, y) = j - 1 /\ Rank(B, z) = j - 1
    BY <1>4, <1>5 DEF Climbs
  <2>2. y \in Nat /\ z \in Nat /\ j - 1 \in Int
    <3>1. B \subseteq Nat /\ j - 1 \in Int
      BY <1>5, <1>9
    <3> HIDE DEF y, z
    <3> QED BY <2>1, <3>1
  <2> HIDE DEF y, z
  <2>3. ~(y < z) /\ ~(z < y)
    <3>1. y < z => Rank(B, y) < Rank(B, z)
      BY <1>9, <2>1, RankGrows
    <3>2. z < y => Rank(B, z) < Rank(B, y)
      BY <1>9, <2>1, RankGrows
    <3> QED BY <2>1, <2>2, <3>1, <3>2
  <2>4. y = z
    BY <2>2, <2>3
  <2> QED BY <2>4 DEF y, z
<1> QED BY <1>5, <1>6, <1>8 DEF a, b

-----------------------------------------------------------------------------
(* The place of an element along one dimension.                            *)

\* The places of an index before and after dimension d.
Outer(x, s, d) == PosOf(Piece(x, 0, d - 1), SubSeq(s, 1, d - 1))
Inner(x, s, d) == PosOf(Piece(x, d, Len(s) - d), SubSeq(s, d + 1, Len(s)))

InDim(x, s, d) ==
  /\ Placed(PosOf(x, s), s[d], CountAfter(s, d), Outer(x, s, d), x[d], Inner(x, s, d))
  /\ Outer(x, s, d) < CountBefore(s, d)

LEMMA DimSplit ==
  ASSUME NEW s \in Seq(Nat), NEW d \in 1 .. Len(s), NEW x \in IdxOf(s)
  PROVE  InDim(x, s, d)
<1> DEFINE p == PosOf(x, s)
           c == CountAfter(s, d)
           m == s[d]
           o == Outer(x, s, d)
           r == Inner(x, s, d)
<1>1. /\ d \in 0 .. Len(s) /\ d - 1 \in 0 .. Len(s) /\ (d - 1) + 1 = d /\ Len(s) \in Nat
      /\ DOMAIN s = 1 .. Len(s)
  BY SeqParts
<1>2. p \in Nat /\ c \in Nat \ {0} /\ m \in Nat \ {0} /\ x[d] \in Nat /\ x[d] < m
  BY <1>1, PosBound, IdxPositive, IdxParts
<1>3. \E X \in Nat : p = X * c + r /\ r \in Nat /\ r < c
  BY <1>1, PosSplit DEF Inner
<1>4. \E R \in Nat : /\ p = o * CountAfter(s, d - 1) + R /\ R < CountAfter(s, d - 1)
                     /\ o \in Nat /\ o < CountBefore(s, d)
  BY <1>1, PosSplit DEF Outer, CountBefore
<1>5. CountAfter(s, d - 1) = m * c
  BY AfterRule
<1>6. (p \div c) % m = x[d]
  <2>1. AtPosition(p, s)[d] = (p \div Size(SubSeq(s, d + 1, Len(s)))) % s[d]
    BY <1>1 DEF AtPosition
  <2>2. Size(SubSeq(s, d + 1, Len(s))) = c
    BY <1>1, SuffixIs, AfterRule DEF CountAfter
  <2> QED BY <2>1, <2>2, PosInverse
<1> DEFINE y == p \div c
           t == y \div m
<1> HIDE DEF p, c, m, o, r
<1>7. y \in Nat /\ p = y * c + r /\ r \in Nat /\ r < c
  <2>1. PICK X \in Nat : p = X * c + r /\ r \in Nat /\ r < c
    BY <1>3
  <2>2. Splits(p, X, c, r)
    BY <1>2, <2>1 DEF Splits
  <2> QED BY <2>1, <2>2, DivRule
<1> HIDE DEF y
<1>8. t \in Nat /\ y = t * m + x[d]
  BY <1>2, <1>6, <1>7, DivParts DEF y
<1> HIDE DEF t
<1>9. p = t * (m * c) + x[d] * c + r
  <2> DEFINE z == t * m
             v == x[d]
  <2>1. z \in Nat /\ z * c = t * (m * c) /\ y = z + v /\ v \in Nat
    BY <1>2, <1>8, Times, TimesAssoc
  <2> HIDE DEF z, v
  <2>2. (z + v) * c = z * c + v * c
    BY <1>2, <2>1, PlusTimes
  <2> QED BY <1>7, <2>1, <2>2 DEF v
<1>10. Placed(p, m, c, t, x[d], r)
  BY <1>2, <1>7, <1>8, <1>9 DEF Placed
<1>11. p \div (m * c) = t
  BY <1>2, <1>10, PlaceIs
<1>12. p \div (m * c) = o /\ o < CountBefore(s, d)
  <2>1. PICK R \in Nat : p = o * (m * c) + R /\ R < m * c /\ o \in Nat /\ o < CountBefore(s, d)
    BY <1>4, <1>5
  <2>2. m * c \in Nat
    BY <1>2, Times
  <2> DEFINE e == m * c
  <2> HIDE DEF e
  <2>3. Splits(p, o, e, R)
    BY <2>1, <2>2 DEF Splits, e
  <2> QED BY <2>1, <2>3, DivRule DEF e
<1>13. t = o
  BY <1>11, <1>12
<1> QED BY <1>10, <1>12, <1>13 DEF InDim, p, c, m, o, r

\* A shape, and one that may differ from it in dimension d.
Resized(r, s, d) ==
  /\ r \in Seq(Nat) /\ s \in Seq(Nat) /\ Len(r) = Len(s) /\ d \in 1 .. Len(s)
  /\ \A c \in 1 .. Len(s) : c # d => r[c] = s[c]

LEMMA AroundSame ==
  ASSUME NEW r, NEW s, NEW d, Resized(r, s, d)
  PROVE  /\ SubSeq(r, 1, d - 1) = SubSeq(s, 1, d - 1)
         /\ SubSeq(r, d + 1, Len(r)) = SubSeq(s, d + 1, Len(s))
         /\ CountAfter(r, d) = CountAfter(s, d) /\ CountBefore(r, d) = CountBefore(s, d)
<1>1. /\ r \in Seq(Nat) /\ s \in Seq(Nat) /\ Len(r) = Len(s) /\ Len(s) \in Nat /\ d \in 1 .. Len(s)
      /\ \A c \in 1 .. Len(s) : c # d => r[c] = s[c]
  BY SeqParts DEF Resized
<1>2. d \in 0 .. Len(s) /\ d - 1 \in 0 .. Len(s) /\ d \in Nat
  BY <1>1
<1>3. SubSeq(r, 1, d - 1) = SubSeq(s, 1, d - 1)
  <2> DEFINE u == SubSeq(r, 1, d - 1)
             v == SubSeq(s, 1, d - 1)
  <2>1. /\ u \in Seq(Nat) /\ Len(u) = d - 1 /\ v \in Seq(Nat) /\ Len(v) = d - 1
        /\ \A k \in 1 .. d - 1 : u[k] = r[k] /\ v[k] = s[k]
    BY <1>1, <1>2, PrefixIs
  <2>2. \A k \in 1 .. d - 1 : r[k] = s[k]
    BY <1>1
  <2>3. \A k \in 1 .. Len(u) : u[k] = v[k]
    BY <2>1, <2>2
  <2> HIDE DEF u, v
  <2>4. u = v
    BY <2>1, <2>3, SeqEqual
  <2> QED BY <2>4 DEF u, v
<1>4. SubSeq(r, d + 1, Len(r)) = SubSeq(s, d + 1, Len(s))
  <2> DEFINE u == SubSeq(r, d + 1, Len(r))
             v == SubSeq(s, d + 1, Len(s))
             m == Len(s) - d
  <2>1. /\ u \in Seq(Nat) /\ Len(u) = m /\ v \in Seq(Nat) /\ Len(v) = m
        /\ \A k \in 1 .. m : u[k] = r[d + k] /\ v[k] = s[d + k]
    <3>1. u \in Seq(Nat) /\ Len(u) = Len(r) - d /\ \A k \in 1 .. Len(r) - d : u[k] = r[d + k]
      BY <1>1, <1>2, SuffixIs
    <3>2. v \in Seq(Nat) /\ Len(v) = m /\ \A k \in 1 .. m : v[k] = s[d + k]
      BY <1>1, <1>2, SuffixIs
    <3>3. Len(r) - d = m
      BY <1>1
    <3> HIDE DEF u, v, m
    <3> QED BY <3>1, <3>2, <3>3
  <2>2. \A k \in 1 .. m : r[d + k] = s[d + k]
    BY <1>1, <1>2
  <2>3. \A k \in 1 .. Len(u) : u[k] = v[k]
    BY <2>1, <2>2
  <2> HIDE DEF u, v
  <2>4. u = v
    BY <2>1, <2>3, SeqEqual
  <2> QED BY <2>4 DEF u, v
<1> QED BY <1>3, <1>4 DEF CountAfter, CountBefore

\* Elements at the same places before and after d have the same index but for d.
LEMMA AroundIs ==
  ASSUME NEW r, NEW s, NEW d, Resized(r, s, d), NEW x \in IdxOf(r), NEW y \in IdxOf(s)
  PROVE  Outer(x, r, d) = Outer(y, s, d) /\ Inner(x, r, d) = Inner(y, s, d)
           <=> \A c \in 1 .. Len(s) : c # d => x[c] = y[c]
<1>1. /\ r \in Seq(Nat) /\ s \in Seq(Nat) /\ Len(r) = Len(s) /\ Len(s) \in Nat /\ d \in 1 .. Len(s)
      /\ d \in 0 .. Len(s) /\ d - 1 \in 0 .. Len(s) /\ d \in Nat
  BY SeqParts DEF Resized
<1> DEFINE n == Len(s)
           u == SubSeq(s, 1, d - 1)
           v == SubSeq(s, d + 1, n)
           x1 == Piece(x, 0, d - 1)
           y1 == Piece(y, 0, d - 1)
           x2 == Piece(x, d, n - d)
           y2 == Piece(y, d, n - d)
<1>2. /\ Outer(x, r, d) = PosOf(x1, u) /\ Inner(x, r, d) = PosOf(x2, v)
      /\ Outer(y, s, d) = PosOf(y1, u) /\ Inner(y, s, d) = PosOf(y2, v)
  <2>1. SubSeq(r, 1, d - 1) = u /\ SubSeq(r, d + 1, Len(r)) = v /\ Len(r) = n
    BY <1>1, AroundSame
  <2> HIDE DEF u, v, n
  <2>2. /\ Outer(x, r, d) = PosOf(x1, u) /\ Outer(y, s, d) = PosOf(y1, u)
        /\ Inner(x, r, d) = PosOf(x2, v)
    BY <2>1, Zenon DEF Outer, Inner, u
  <2>3. Inner(y, s, d) = PosOf(y2, v)
    BY Zenon DEF Inner, v, n
  <2> QED BY <2>2, <2>3
<1>3. x1 \in IdxOf(u) /\ x2 \in IdxOf(v)
  <2>1. Piece(x, 0, d - 1) \in IdxOf(SubSeq(r, 1, d - 1))
    BY <1>1, PiecesAre
  <2>2. Piece(x, d, Len(r) - d) \in IdxOf(SubSeq(r, d + 1, Len(r)))
    BY <1>1, PiecesAre
  <2> QED BY <1>1, <2>1, <2>2, AroundSame, Zenon
<1>4. y1 \in IdxOf(u) /\ y2 \in IdxOf(v)
  BY <1>1, PiecesAre
<1>5. u \in Seq(Nat) /\ v \in Seq(Nat)
  BY <1>1, PrefixIs, SuffixIs
<1>6. PosOf(x1, u) = PosOf(y1, u) <=> x1 = y1
  <2> HIDE DEF u, x1, y1
  <2>1. AtPosition(PosOf(x1, u), u) = x1 /\ AtPosition(PosOf(y1, u), u) = y1
    BY <1>3, <1>4, <1>5, PosInverse
  <2> QED BY <2>1
<1>7. PosOf(x2, v) = PosOf(y2, v) <=> x2 = y2
  <2> HIDE DEF v, x2, y2
  <2>1. AtPosition(PosOf(x2, v), v) = x2 /\ AtPosition(PosOf(y2, v), v) = y2
    BY <1>3, <1>4, <1>5, PosInverse
  <2> QED BY <2>1
<1>8. x1 = y1 <=> \A c \in 1 .. d - 1 : x[c] = y[c]
  <2>1. x1 = y1 <=> \A k \in 1 .. d - 1 : x[0 + k] = y[0 + k]
    BY DEF Piece
  <2> HIDE DEF x1, y1
  <2>2. \A k \in 1 .. d - 1 : 0 + k = k
    BY <1>1
  <2> QED BY <2>1, <2>2
<1>9. x2 = y2 <=> \A k \in 1 .. n - d : x[d + k] = y[d + k]
  BY DEF Piece
<1>10. (\A k \in 1 .. n - d : x[d + k] = y[d + k]) <=> \A c \in d + 1 .. n : x[c] = y[c]
  <2>1. \A k \in 1 .. n - d : d + k \in d + 1 .. n
    BY <1>1
  <2>2. \A c \in d + 1 .. n : c - d \in 1 .. n - d /\ d + (c - d) = c
    BY <1>1
  <2> QED BY <2>1, <2>2
<1> HIDE DEF x1, x2, y1, y2, u, v
<1>11. (\A c \in 1 .. n : c # d => x[c] = y[c])
         <=> (\A c \in 1 .. d - 1 : x[c] = y[c]) /\ (\A c \in d + 1 .. n : x[c] = y[c])
  BY <1>1
<1> QED BY <1>2, <1>6, <1>7, <1>8, <1>9, <1>10, <1>11

\* The index with another place in dimension d.
LEMMA MovedTo ==
  ASSUME NEW r, NEW s, NEW d, Resized(r, s, d), NEW j \in IdxOf(r), NEW v \in Nat, v < s[d]
  PROVE  /\ [j EXCEPT ![d] = v] \in IdxOf(s)
         /\ Placed(PosOf([j EXCEPT ![d] = v], s), s[d], CountAfter(s, d), Outer(j, r, d), v, Inner(j, r, d))
<1> DEFINE y == [j EXCEPT ![d] = v]
<1>1. /\ r \in Seq(Nat) /\ s \in Seq(Nat) /\ Len(r) = Len(s) /\ Len(s) \in Nat /\ d \in 1 .. Len(s)
      /\ DOMAIN s = 1 .. Len(s) /\ DOMAIN r = 1 .. Len(s)
      /\ \A c \in 1 .. Len(s) : c # d => r[c] = s[c]
  BY SeqParts DEF Resized
<1>2. /\ DOMAIN j = 1 .. Len(s) /\ \A c \in 1 .. Len(s) : j[c] \in Nat /\ j[c] < r[c]
  BY <1>1, IdxParts
<1>3. /\ y \in [1 .. Len(s) -> Nat] /\ y[d] = v /\ \A c \in 1 .. Len(s) : c # d => y[c] = j[c]
  BY <1>1 DEF IdxOf
<1> HIDE DEF y
<1>4. y \in IdxOf(s)
  BY <1>1, <1>2, <1>3 DEF IdxOf
<1>5. Outer(j, r, d) = Outer(y, s, d) /\ Inner(j, r, d) = Inner(y, s, d)
  BY <1>3, <1>4, AroundIs
<1>6. InDim(y, s, d)
  BY <1>1, <1>4, DimSplit
<1> QED BY <1>3, <1>4, <1>5, <1>6, Zenon DEF InDim, y

-----------------------------------------------------------------------------
(* gather and index_select.                                                *)

\* k counts the elements of a tensor of shape r, j is the index of one.
IsPlace(j, r, k) == j \in IdxOf(r) /\ PosOf(j, r) = k - 1 /\ j = AtPosition(k - 1, r)

LEMMA PlaceOf ==
  ASSUME NEW r \in Seq(Nat), NEW k \in 1 .. elem_count(r)
  PROVE  IsPlace(AtPosition(k - 1, r), r, k)
<1>1. elem_count(r) \in Nat
  BY AfterRule
<1>2. k - 1 \in Nat /\ k - 1 < elem_count(r)
  BY <1>1
<1> QED BY <1>2, PositionIs DEF IsPlace

\* What the divisions of the kernels find.
LEMMA PlaceParts ==
  ASSUME NEW r, NEW s, NEW d, Resized(r, s, d), NEW k, NEW j, IsPlace(j, r, k)
  PROVE  LET c == CountAfter(s, d) IN
         /\ c \in Nat \ {0} /\ r[d] \in Nat \ {0} /\ s[d] \in Nat
         /\ (k - 1) \div (c * r[d]) = Outer(j, r, d) /\ Outer(j, r, d) \in Nat
         /\ ((k - 1) \div c) % r[d] = j[d] /\ j[d] \in 0 .. r[d] - 1
         /\ (k - 1) % c = Inner(j, r, d) /\ Inner(j, r, d) \in Nat /\ Inner(j, r, d) < c
         /\ Placed(k - 1, r[d], c, Outer(j, r, d), j[d], Inner(j, r, d))
         /\ Outer(j, r, d) < CountBefore(s, d)
<1> DEFINE c == CountAfter(s, d)
           o == Outer(j, r, d)
           e == Inner(j, r, d)
           m == r[d]
<1>1. /\ r \in Seq(Nat) /\ s \in Seq(Nat) /\ Len(r) = Len(s) /\ d \in 1 .. Len(s) /\ d \in 1 .. Len(r)
      /\ j \in IdxOf(r) /\ PosOf(j, r) = k - 1
  BY DEF Resized, IsPlace
<1>2. CountAfter(r, d) = c /\ CountBefore(r, d) = CountBefore(s, d)
  BY AroundSame
<1>3. InDim(j, r, d)
  BY <1>1, DimSplit
<1>4. Placed(k - 1, m, c, o, j[d], e) /\ o < CountBefore(s, d)
  BY <1>1, <1>2, <1>3, Zenon DEF InDim
<1>5. c \in Nat \ {0} /\ m \in Nat \ {0} /\ s[d] \in Nat
  BY <1>1, IdxPositive, <1>2
<1> HIDE DEF c, o, e, m
<1>6. /\ (k - 1) \div (m * c) = o /\ ((k - 1) \div c) % m = j[d] /\ (k - 1) % c = e
  BY <1>4, <1>5, PlaceIs
<1>7. m * c = c * m
  BY <1>5
<1>8. o \in Nat /\ j[d] \in Nat /\ e \in Nat /\ j[d] < m /\ e < c
  BY <1>4 DEF Placed
<1>9. j[d] \in 0 .. m - 1
  BY <1>5, <1>8
<1> QED BY <1>4, <1>5, <1>6, <1>7, <1>8, <1>9 DEF c, o, e, m

\* The element whose index differs in dimension d, where the kernels read it.
LEMMA ReadPlace ==
  ASSUME NEW r, NEW s, NEW d, Resized(r, s, d), NEW k, NEW j, IsPlace(j, r, k), NEW v \in Nat, v < s[d]
  PROVE  LET c == CountAfter(s, d) IN
         /\ [j EXCEPT ![d] = v] \in IdxOf(s)
         /\ PosOf([j EXCEPT ![d] = v], s) =
              ((k - 1) \div (c * r[d])) * c * s[d] + v * c + ((k - 1) % c)
<1> DEFINE c == CountAfter(s, d)
           o == Outer(j, r, d)
           e == Inner(j, r, d)
           m == s[d]
           p == PosOf([j EXCEPT ![d] = v], s)
<1>1. /\ c \in Nat \ {0} /\ m \in Nat /\ o \in Nat /\ e \in Nat
      /\ (k - 1) \div (c * r[d]) = o /\ (k - 1) % c = e
  BY PlaceParts
<1>2. [j EXCEPT ![d] = v] \in IdxOf(s) /\ Placed(p, m, c, o, v, e)
  <2>1. j \in IdxOf(r)
    BY DEF IsPlace
  <2> QED BY <2>1, MovedTo
<1>3. p = o * (m * c) + v * c + e
  BY <1>2 DEF Placed
<1> HIDE DEF c, o, e, m, p
<1>4. o * (m * c) = o * c * m
  <2>1. m * c = c * m
    BY <1>1
  <2> QED BY <1>1, <2>1, TimesAssoc
<1> QED BY <1>1, <1>2, <1>3, <1>4 DEF c, o, e, m, p

LEMMA ReadAddress ==
  ASSUME NEW l, Good(l), is_contiguous(l), NEW r, NEW s, NEW d, s = l.dims, Resized(r, s, d),
         NEW k, NEW j, IsPlace(j, r, k), NEW v \in Nat, v < s[d]
  PROVE  Address(l, [j EXCEPT ![d] = v]) =
           l.start_offset + ((k - 1) \div (CountAfter(s, d) * r[d])) * CountAfter(s, d) * s[d]
             + v * CountAfter(s, d) + ((k - 1) % CountAfter(s, d))
<1> DEFINE c == CountAfter(s, d)
           y == [j EXCEPT ![d] = v]
           o == (k - 1) \div (c * r[d])
           e == (k - 1) % c
           a == o * c * s[d]
           b == v * c
<1>1. y \in IdxOf(s) /\ PosOf(y, s) = a + b + e
  BY ReadPlace
<1>2. c \in Nat /\ o \in Nat /\ e \in Nat /\ s[d] \in Nat
  BY PlaceParts
<1> HIDE DEF o, e, c
<1>3. a \in Nat /\ b \in Nat
  BY <1>2, Times
<1> HIDE DEF y, a, b
<1>4. Address(l, y) = l.start_offset + PosOf(y, s)
  BY <1>1, ContigAddress
<1>5. l.start_offset \in Nat
  BY GoodParts
<1>6. Address(l, y) = l.start_offset + a + b + e
  BY <1>1, <1>2, <1>3, <1>4, <1>5
<1> QED BY <1>6 DEF a, b, c, o, e, y

\* Which indexes a kernel refuses.
LEMMA RangeIs ==
  ASSUME NEW n, NEW size \in Nat, NEW ids \in [1 .. n -> Nat]
  PROVE  /\ InRange(ids, size) <=> ~AnyInvalid(ids, size)
         /\ InRange(ids, size) => \A k \in 1 .. n : ids[k] # max_value => ids[k] < size
<1>1. \A k \in 1 .. n : ids[k] \in Nat
  OBVIOUS
<1>2. \A k \in 1 .. n : (ids[k] < size \/ ids[k] = max_value) <=> ~InvalidIndex(ids[k], size)
  BY <1>1 DEF InvalidIndex
<1>3. DOMAIN ids = 1 .. n
  OBVIOUS
<1> QED BY <1>2, <1>3 DEF InRange, AnyInvalid

\* The tensor l is read with indexes ids of shape r along dimension d.
ReadsBy(l, r, d, ids) ==
  Good(l) /\ is_contiguous(l) /\ Resized(r, l.dims, d) /\ ids \in [1 .. elem_count(r) -> Nat]

GatherIs(l, ids, r, d) ==
  IF ~InRange(ids, l.dims[d]) THEN Err
  ELSE [k \in DOMAIN ids |->
         IF ids[k] = max_value THEN None
         ELSE Address(l, [AtPosition(k - 1, r) EXCEPT ![d] = ids[k]])]

LEMMA GatherRight ==
  ASSUME NEW l, NEW ids, NEW r, NEW d, ReadsBy(l, r, d, ids)
  PROVE  Gather(l, ids, r, d) = GatherIs(l, ids, r, d)
<1> DEFINE s == l.dims
           n == elem_count(r)
           c == CountAfter(s, d)
           right == CountAfter(r, d)
           o(k) == (k - 1) \div (right * r[d])
           e(k) == (k - 1) % right
<1>1. Good(l) /\ is_contiguous(l) /\ Resized(r, s, d) /\ ids \in [1 .. n -> Nat] /\ r \in Seq(Nat)
  BY DEF ReadsBy, Resized
<1>2. right = c /\ s[d] \in Nat /\ DOMAIN ids = 1 .. n
  <2>1. s[d] \in Nat
    BY <1>1 DEF Resized
  <2>2. right = c
    BY <1>1, AroundSame
  <2> QED BY <1>1, <2>1, <2>2
<1>3. InRange(ids, s[d]) <=> ~AnyInvalid(ids, s[d])
  BY <1>1, <1>2, RangeIs
<1>4. Gather(l, ids, r, d) =
        IF AnyInvalid(ids, s[d]) THEN Err
        ELSE [k \in DOMAIN ids |->
               IF ids[k] = max_value THEN None
               ELSE l.start_offset + o(k) * c * s[d] + ids[k] * c + e(k)]
  BY Zenon DEF Gather
<1>5. ASSUME NEW k \in 1 .. n, InRange(ids, s[d]), ids[k] # max_value
      PROVE  l.start_offset + o(k) * c * s[d] + ids[k] * c + e(k)
               = Address(l, [AtPosition(k - 1, r) EXCEPT ![d] = ids[k]])
  <2> DEFINE v == ids[k]
             j == AtPosition(k - 1, r)
  <2>1. v \in Nat /\ v < s[d]
    BY <1>1, <1>2, <1>5, RangeIs
  <2>2. IsPlace(j, r, k)
    BY <1>1, PlaceOf
  <2> HIDE DEF v, j
  <2>3. Address(l, [j EXCEPT ![d] = v]) =
          l.start_offset + ((k - 1) \div (c * r[d])) * c * s[d] + v * c + ((k - 1) % c)
    BY <1>1, <2>1, <2>2, ReadAddress
  <2> HIDE DEF c, s, right
  <2>4. o(k) = (k - 1) \div (c * r[d]) /\ e(k) = (k - 1) % c
    BY <1>2
  <2> HIDE DEF o, e
  <2> QED BY <2>3, <2>4 DEF v, j
<1> HIDE DEF o, e, c, s, n, right
<1>6. CASE ~InRange(ids, s[d])
  BY <1>3, <1>4, <1>6 DEF GatherIs, s
<1>7. CASE InRange(ids, s[d])
  BY <1>2, <1>3, <1>4, <1>7, <1>5 DEF GatherIs, s
<1> QED BY <1>6, <1>7

\* index_select gives a tensor of shape r with the indexes ids along dimension d.
SelectIs(l, ids, d, r) ==
  IF ~InRange(ids, l.dims[d]) THEN Err
  ELSE [k \in 1 .. elem_count(r) |->
         LET i == AtPosition(k - 1, r)
         IN  IF ids[i[d] + 1] = max_value THEN None
             ELSE Address(l, [i EXCEPT ![d] = ids[i[d] + 1]])]

SelectsBy(l, r, d, ids) ==
  Good(l) /\ is_contiguous(l) /\ Resized(r, l.dims, d) /\ ids \in Seq(Nat) /\ Len(ids) = r[d]

\* The size of a shape, with one dimension set apart.
LEMMA SizeAround ==
  ASSUME NEW r, NEW s, NEW d, Resized(r, s, d)
  PROVE  elem_count(r) = CountBefore(s, d) * (r[d] * CountAfter(s, d))
<1>1. r \in Seq(Nat) /\ d \in 1 .. Len(r) /\ d - 1 \in 0 .. Len(r)
  BY DEF Resized
<1>2. elem_count(SubSeq(r, 1, d - 1)) * CountAfter(r, d - 1) = elem_count(r)
  BY <1>1, CountSplit
<1>3. CountAfter(r, d - 1) = r[d] * CountAfter(r, d)
  BY <1>1, AfterRule
<1>4. elem_count(SubSeq(r, 1, d - 1)) = CountBefore(s, d) /\ CountAfter(r, d) = CountAfter(s, d)
  BY AroundSame DEF CountBefore
<1> QED BY <1>2, <1>3, <1>4

LEMMA SelectRight ==
  ASSUME NEW l, NEW ids, NEW d, NEW r, SelectsBy(l, r, d, ids)
  PROVE  IndexSelect(l, ids, d) = SelectIs(l, ids, d, r)
<1> DEFINE s == l.dims
           n == elem_count(r)
           c == CountAfter(s, d)
           o(k) == (k - 1) \div (c * r[d])
           e(k) == (k - 1) % c
           i(k) == ((k - 1) \div c) % r[d]
<1>1. /\ Good(l) /\ is_contiguous(l) /\ Resized(r, s, d) /\ ids \in [1 .. r[d] -> Nat] /\ r \in Seq(Nat)
      /\ Len(ids) = r[d] /\ s[d] \in Nat
  BY DEF SelectsBy, Resized
<1>2. n = CountBefore(s, d) * Len(ids) * c
  <2>1. CountBefore(s, d) \in Nat /\ c \in Nat /\ r[d] \in Nat
    <3>1. s \in Seq(Nat) /\ d - 1 \in 0 .. Len(s) /\ d \in 0 .. Len(s) /\ r[d] \in Nat
      BY <1>1 DEF Resized
    <3>2. SubSeq(s, 1, d - 1) \in Seq(Nat)
      BY <3>1, PrefixIs
    <3> QED BY <3>1, <3>2, AfterRule DEF CountBefore
  <2>2. n = CountBefore(s, d) * (r[d] * c)
    BY <1>1, SizeAround
  <2> HIDE DEF n, c
  <2> QED BY <1>1, <2>1, <2>2, TimesAssoc
<1>3. InRange(ids, s[d]) <=> ~AnyInvalid(ids, s[d])
  BY <1>1, RangeIs
<1>4. IndexSelect(l, ids, d) =
        IF AnyInvalid(ids, s[d]) THEN Err
        ELSE [k \in 1 .. n |->
               IF ids[i(k) + 1] = max_value THEN None
               ELSE l.start_offset + o(k) * c * s[d] + ids[i(k) + 1] * c + e(k)]
  <2> HIDE DEF c, n
  <2> QED BY <1>1, <1>2 DEF IndexSelect, c
<1>5. ASSUME NEW k \in 1 .. n, InRange(ids, s[d])
      PROVE  LET j == AtPosition(k - 1, r)
             IN  /\ j[d] = i(k)
                 /\ ids[i(k) + 1] # max_value =>
                      l.start_offset + o(k) * c * s[d] + ids[i(k) + 1] * c + e(k)
                        = Address(l, [j EXCEPT ![d] = ids[i(k) + 1]])
  <2> DEFINE v == ids[i(k) + 1]
             j == AtPosition(k - 1, r)
  <2>1. IsPlace(j, r, k)
    BY <1>1, PlaceOf
  <2> HIDE DEF j
  <2>2. j[d] = i(k) /\ j[d] \in 0 .. r[d] - 1 /\ r[d] \in Nat
    BY <1>1, <2>1, PlaceParts
  <2>3. i(k) + 1 \in 1 .. r[d]
    BY <2>2
  <2>4. v \in Nat /\ (v # max_value => v < s[d])
    BY <1>1, <1>5, <2>3, RangeIs
  <2> HIDE DEF v
  <2>5. v # max_value => Address(l, [j EXCEPT ![d] = v]) = l.start_offset + o(k) * c * s[d] + v * c + e(k)
    BY <1>1, <2>1, <2>4, ReadAddress
  <2> QED BY <2>2, <2>5 DEF v, j
<1> HIDE DEF o, e, i, c, s, n
<1>6. CASE ~InRange(ids, s[d])
  BY <1>3, <1>4, <1>6 DEF SelectIs, s
<1>7. CASE InRange(ids, s[d])
  <2>1. IndexSelect(l, ids, d) =
          [k \in 1 .. n |-> IF ids[i(k) + 1] = max_value THEN None
                            ELSE l.start_offset + o(k) * c * s[d] + ids[i(k) + 1] * c + e(k)]
    BY <1>3, <1>4, <1>7
  <2> DEFINE j(k) == AtPosition(k - 1, r)
  <2>2. SelectIs(l, ids, d, r) =
          [k \in 1 .. n |-> IF ids[j(k)[d] + 1] = max_value THEN None
                            ELSE Address(l, [j(k) EXCEPT ![d] = ids[j(k)[d] + 1]])]
    BY <1>7 DEF SelectIs, s, n
  <2> DEFINE F(k) == IF ids[i(k) + 1] = max_value THEN None
                     ELSE l.start_offset + o(k) * c * s[d] + ids[i(k) + 1] * c + e(k)
             G(k) == IF ids[j(k)[d] + 1] = max_value THEN None
                     ELSE Address(l, [j(k) EXCEPT ![d] = ids[j(k)[d] + 1]])
  <2>3. ASSUME NEW k \in 1 .. n PROVE F(k) = G(k)
    <3>1. j(k)[d] = i(k)
      BY <1>5, <1>7
    <3>2. CASE ids[i(k) + 1] = max_value
      BY <3>1, <3>2
    <3>3. CASE ids[i(k) + 1] # max_value
      <4>1. l.start_offset + o(k) * c * s[d] + ids[i(k) + 1] * c + e(k)
              = Address(l, [j(k) EXCEPT ![d] = ids[i(k) + 1]])
        BY <1>5, <1>7, <3>3
      <4> HIDE DEF j
      <4> QED BY <3>1, <3>3, <4>1
    <3> QED BY <3>2, <3>3
  <2>4. IndexSelect(l, ids, d) = [k \in 1 .. n |-> F(k)] /\ SelectIs(l, ids, d, r) = [k \in 1 .. n |-> G(k)]
    BY <2>1, <2>2
  <2> HIDE DEF F, G
  <2> QED BY <2>3, <2>4
<1> QED BY <1>6, <1>7

-----------------------------------------------------------------------------
(* scatter and index_add.                                                  *)

\* The elements of the source, of shape r, that the element p of the destination
\* takes: w gives, for each, the index that names its place in dimension d.
TakenSet(p, s, r, d, w) ==
  {k \in 1 .. elem_count(r) :
     /\ w[k] # max_value /\ w[k] = AtPosition(p - 1, s)[d]
     /\ \A c \in 1 .. Len(s) \ {d} : AtPosition(k - 1, r)[c] = AtPosition(p - 1, s)[c]}

\* x is where the index j has its element, with v for its place in dimension d.
Lands(x, v, k, j, r, s, d) ==
  /\ Resized(r, s, d) /\ IsPlace(j, r, k)
  /\ Placed(x, s[d], CountAfter(s, d), Outer(j, r, d), v, Inner(j, r, d))

\* It is the element p if p has the same index but for v in d.
LEMMA TargetIs ==
  ASSUME NEW x, NEW v, NEW j, NEW i, NEW p, NEW s, NEW d, NEW k, NEW r,
         Lands(x, v, k, j, r, s, d), IsPlace(i, s, p)
  PROVE  x = p - 1 <=> v = i[d] /\ \A c \in 1 .. Len(s) : c # d => j[c] = i[c]
<1> DEFINE c == CountAfter(s, d)
           m == s[d]
           o == Outer(j, r, d)
           e == Inner(j, r, d)
           o2 == Outer(i, s, d)
           e2 == Inner(i, s, d)
<1>1. Resized(s, s, d) /\ Resized(r, s, d) /\ IsPlace(j, r, k)
  BY DEF Lands, Resized
<1>2. Placed(p - 1, m, c, o2, i[d], e2) /\ c \in Nat /\ m \in Nat
  BY <1>1, PlaceParts
<1>3. o = o2 /\ e = e2 <=> \A q \in 1 .. Len(s) : q # d => j[q] = i[q]
  BY <1>1, AroundIs DEF IsPlace
<1>4. Placed(x, m, c, o, v, e)
  BY Zenon DEF Lands
<1> HIDE DEF c, m, o, e, o2, e2
<1>5. ASSUME x = p - 1 PROVE o = o2 /\ v = i[d] /\ e = e2
  BY <1>2, <1>4, PlaceIs, <1>5
<1>6. ASSUME o = o2, v = i[d], e = e2 PROVE x = p - 1
  BY <1>4, <1>2, <1>6 DEF Placed
<1> QED BY <1>3, <1>5, <1>6

\* A source of shape r, and its indexes along dimension d of a destination.
ScattersBy(s, r, d, ids) == Resized(r, s, d) /\ ids \in [1 .. elem_count(r) -> Nat]

ScatterIs(t, s, ids, r, d) ==
  /\ t.ok <=> InRange(ids, s[d])
  /\ t.ok => t.taken = [p \in 1 .. elem_count(s) |-> InOrder(TakenSet(p, s, r, d, ids))]

LEMMA ScatterRight ==
  ASSUME NEW s, NEW ids, NEW r, NEW d, ScattersBy(s, r, d, ids)
  PROVE  ScatterIs(Scatter(s, ids, r, d), s, ids, r, d)
<1> DEFINE t == Scatter(s, ids, r, d)
           n == elem_count(r)
           c == CountAfter(s, d)
           right == CountAfter(r, d)
           dst(k) == ((k - 1) \div (right * r[d])) * c * s[d] + ids[k] * c + ((k - 1) % right)
           Bad == {k \in DOMAIN ids : InvalidIndex(ids[k], s[d])}
           Done(k) == ids[k] # max_value /\ \A j \in Bad : k < j
           Here(p) == {k \in DOMAIN ids : Done(k) /\ dst(k) = p - 1}
<1>1. t = [ok |-> Bad = {}, taken |-> [p \in 1 .. elem_count(s) |-> InOrder(Here(p))]]
  BY Zenon DEF Scatter
<1>2. /\ Resized(r, s, d) /\ ids \in [1 .. n -> Nat] /\ DOMAIN ids = 1 .. n
      /\ r \in Seq(Nat) /\ s \in Seq(Nat) /\ s[d] \in Nat /\ right = c
  <2>1. Resized(r, s, d) /\ ids \in [1 .. n -> Nat]
    BY DEF ScattersBy
  <2>2. right = c
    BY <2>1, AroundSame
  <2> QED BY <2>1, <2>2 DEF Resized
<1> HIDE DEF t, n
<1>3. t.ok <=> InRange(ids, s[d])
  BY <1>1, <1>2, RangeIs DEF AnyInvalid
<1>4. ASSUME t.ok, NEW p \in 1 .. elem_count(s) PROVE Here(p) = TakenSet(p, s, r, d, ids)
  <2> DEFINE i == AtPosition(p - 1, s)
  <2>1. IsPlace(i, s, p)
    BY <1>2, PlaceOf
  <2>2. Bad = {}
    BY <1>1, <1>4
  <2>3. ASSUME NEW k \in 1 .. n, ids[k] # max_value
        PROVE  LET j == AtPosition(k - 1, r)
               IN  dst(k) = p - 1 <=> ids[k] = i[d] /\ \A q \in 1 .. Len(s) : q # d => j[q] = i[q]
    <3> DEFINE j == AtPosition(k - 1, r)
               v == ids[k]
               x == dst(k)
    <3>1. v \in Nat /\ v < s[d]
      BY <1>2, <1>3, <1>4, <2>3, RangeIs
    <3>2. IsPlace(j, r, k)
      BY <1>2, PlaceOf DEF n
    <3> HIDE DEF i, j, v
    <3>3. Lands(x, v, k, j, r, s, d)
      <4> DEFINE o == Outer(j, r, d)
                 e == Inner(j, r, d)
                 m == s[d]
      <4>1. /\ c \in Nat /\ m \in Nat /\ o \in Nat /\ e \in Nat /\ e < c
            /\ (k - 1) \div (c * r[d]) = o /\ (k - 1) % c = e
        BY <1>2, <3>2, PlaceParts
      <4>2. x = o * c * m + v * c + e
        <5> HIDE DEF c, right, o, e, m
        <5> QED BY <1>2, <4>1 DEF v, m
      <4> HIDE DEF c, o, e, m, x
      <4>3. o * c * m = o * (m * c)
        BY <4>1, TimesAssoc
      <4>4. v < m
        BY <3>1 DEF m
      <4>5. Placed(x, m, c, o, v, e)
        BY <3>1, <4>1, <4>2, <4>3, <4>4 DEF Placed
      <4>6. Resized(r, s, d)
        BY <1>2
      <4> QED BY <3>2, <4>5, <4>6, Zenon DEF Lands, c, o, e, m
    <3> HIDE DEF x
    <3>4. x = p - 1 <=> v = i[d] /\ \A q \in 1 .. Len(s) : q # d => j[q] = i[q]
      <4> HIDE DEF c, right, dst, Bad, Done, Here
      <4> QED BY <2>1, <3>3, TargetIs
    <3> QED BY <3>4 DEF x, v, j
  <2>4. \A k \in 1 .. n : Done(k) <=> ids[k] # max_value
    BY <2>2
  <2> HIDE DEF Done, Bad, dst, i
  <2>5. \A k \in 1 .. n : Done(k) /\ dst(k) = p - 1 <=>
          /\ ids[k] # max_value /\ ids[k] = i[d]
          /\ \A q \in 1 .. Len(s) \ {d} : AtPosition(k - 1, r)[q] = i[q]
    BY <2>3, <2>4
  <2> QED BY <1>2, <2>5 DEF TakenSet, i, n
<1>5. ASSUME t.ok PROVE t.taken = [p \in 1 .. elem_count(s) |-> InOrder(TakenSet(p, s, r, d, ids))]
  <2>1. t.taken = [p \in 1 .. elem_count(s) |-> InOrder(Here(p))]
    BY <1>1
  <2> HIDE DEF Here
  <2> QED BY <1>4, <1>5, <2>1
<1>6. ScatterIs(t, s, ids, r, d)
  BY <1>3, <1>5 DEF ScatterIs
<1> QED BY <1>6 DEF t

LEMMA TimesLess ==
  ASSUME NEW a \in Nat, NEW b \in Nat, NEW c \in Nat \ {0}
  PROVE  a * c < b * c <=> a < b
<1>1. ASSUME NEW x \in Nat, NEW y \in Nat, x < y PROVE x * c < y * c
  <2> DEFINE e == y - x - 1
             u == x * c
             z == e * c
  <2>1. e \in Nat /\ y = (x + 1) + e
    BY <1>1
  <2> HIDE DEF e
  <2>2. u \in Nat /\ z \in Nat
    BY <2>1, Times
  <2>3. y * c = (x + 1) * c + z
    BY <2>1, PlusTimes
  <2>4. (x + 1) * c = u + c
    BY PlusTimes
  <2> HIDE DEF u, z
  <2>5. y * c = u + c + z
    BY <2>3, <2>4
  <2>6. u < y * c
    BY <2>2, <2>5
  <2> QED BY <2>6 DEF u
<1>2. ASSUME b <= a PROVE ~(a * c < b * c)
  <2>1. a * c \in Nat /\ b * c \in Nat
    BY Times
  <2>2. CASE b = a
    BY <2>1, <2>2
  <2>3. CASE b < a
    <3> DEFINE u == a * c
               z == b * c
    <3>1. z < u
      BY <1>1, <2>3
    <3> HIDE DEF u, z
    <3>2. u \in Nat /\ z \in Nat
      BY <2>1 DEF u, z
    <3>3. ~(u < z)
      BY <3>1, <3>2
    <3> QED BY <3>3 DEF u, z
  <2> QED BY <1>2, <2>2, <2>3
<1>3. a < b \/ b <= a
  OBVIOUS
<1>4. b <= a => ~(a < b)
  OBVIOUS
<1> QED BY <1>1, <1>2, <1>3, <1>4

\* How far the places go.
LEMMA PlaceWithin ==
  ASSUME NEW x, NEW m \in Nat, NEW n \in Nat, NEW t, NEW i, NEW j, Placed(x, m, n, t, i, j), NEW b \in Nat, t < b
  PROVE  x \in Nat /\ x < b * (m * n)
<1> DEFINE e == m * n
           y == i * n + j
           z == t * e
<1>1. t \in Nat /\ i \in Nat /\ j \in Nat /\ i < m /\ j < n /\ x = z + i * n + j
  BY DEF Placed
<1>2. y \in Nat /\ y < e /\ e \in Nat \ {0}
  BY <1>1, PlaceBound
<1>3. z + y \in Nat /\ z + y < b * e
  <2> HIDE DEF e, y
  <2> QED BY <1>1, <1>2, PlaceBound
<1>4. x = z + y
  <2> DEFINE u == i * n
  <2>1. u \in Nat /\ z \in Nat
    BY <1>1, <1>2, Times
  <2> HIDE DEF u, z
  <2>2. x = z + u + j => x = z + (u + j)
    BY <1>1, <2>1
  <2> QED BY <1>1, <2>2 DEF u
<1> QED BY <1>3, <1>4

\* The rounds of index_add over n indexes and a source of shape r.
RoundI(w, r, d) == (w - 1) \div (CountBefore(r, d) * CountAfter(r, d))
RoundPre(w, r, d) == ((w - 1) \div CountAfter(r, d)) % CountBefore(r, d)
RoundOff(w, r, d) == (w - 1) % CountAfter(r, d)
RoundSrc(w, r, d) == (RoundPre(w, r, d) * r[d] + RoundI(w, r, d)) * CountAfter(r, d) + RoundOff(w, r, d)
RoundDst(w, s, r, d, ids) ==
  (RoundPre(w, r, d) * s[d] + ids[RoundI(w, r, d) + 1]) * CountAfter(r, d) + RoundOff(w, r, d)
Rounds(r, d) == 1 .. r[d] * CountBefore(r, d) * CountAfter(r, d)

AddedSet(p, s, r, d, ids) ==
  {w \in Rounds(r, d) : ids[RoundI(w, r, d) + 1] # max_value /\ RoundDst(w, s, r, d, ids) = p - 1}

\* The round for place t of the source, at h and e before and after it.
RoundAt(w, r, d, t, h, e) ==
  /\ t \in Nat /\ h \in Nat /\ e \in Nat /\ t < r[d]
  /\ Placed(w - 1, CountBefore(r, d), CountAfter(r, d), t, h, e)
  /\ RoundI(w, r, d) = t /\ RoundPre(w, r, d) = h /\ RoundOff(w, r, d) = e

Shaped(r, d) == r \in Seq(Nat) /\ d \in 1 .. Len(r)

LEMMA ShapedCounts ==
  ASSUME NEW r, NEW d, Shaped(r, d)
  PROVE  CountBefore(r, d) \in Nat /\ CountAfter(r, d) \in Nat /\ r[d] \in Nat
<1>1. r \in Seq(Nat) /\ d - 1 \in 0 .. Len(r) /\ d \in 0 .. Len(r) /\ r[d] \in Nat
  BY DEF Shaped
<1>2. SubSeq(r, 1, d - 1) \in Seq(Nat)
  BY <1>1, PrefixIs
<1> QED BY <1>1, <1>2, AfterRule DEF CountBefore

LEMMA RoundExists ==
  ASSUME NEW r, NEW d, Shaped(r, d), NEW w \in Rounds(r, d)
  PROVE  \E t, h, e : RoundAt(w, r, d, t, h, e)
<1> DEFINE a == CountBefore(r, d)
           c == CountAfter(r, d)
           m == r[d]
<1>1. a \in Nat /\ c \in Nat /\ m \in Nat
  BY ShapedCounts
<1>2. w \in 1 .. m * a * c
  BY DEF Rounds
<1> DEFINE z == m * a * c
           x == w - 1
<1>3. z \in Nat
  BY <1>1, Times
<1> HIDE DEF z
<1>4. x \in Nat /\ x < z
  BY <1>2, <1>3 DEF z
<1> HIDE DEF x
<1>5. PICK t, h, e : t < m /\ Placed(x, a, c, t, h, e)
  BY <1>1, <1>4, PlaceExists DEF z
<1>6. x \div (a * c) = t /\ (x \div c) % a = h /\ x % c = e
  BY <1>1, <1>5, PlaceIs
<1>7. t \in Nat /\ h \in Nat /\ e \in Nat
  BY <1>5 DEF Placed
<1> QED BY <1>5, <1>6, <1>7, Zenon DEF RoundAt, RoundI, RoundPre, RoundOff, x, a, c, m

LEMMA RoundMade ==
  ASSUME NEW r, NEW d, Shaped(r, d), NEW t \in Nat, NEW h \in Nat, NEW e \in Nat,
         t < r[d], h < CountBefore(r, d), e < CountAfter(r, d)
  PROVE  \E w \in Rounds(r, d) : RoundAt(w, r, d, t, h, e)
<1> DEFINE a == CountBefore(r, d)
           c == CountAfter(r, d)
           m == r[d]
           x == t * (a * c) + h * c + e
           w == x + 1
<1>1. a \in Nat /\ c \in Nat /\ m \in Nat
  BY ShapedCounts
<1>2. Placed(x, a, c, t, h, e)
  BY DEF Placed
<1> HIDE DEF x
<1>3. x \in Nat /\ x < m * (a * c)
  BY <1>1, <1>2, PlaceWithin
<1>4. m * (a * c) = m * a * c
  BY <1>1, TimesAssoc
<1> DEFINE z == m * a * c
<1>5. z \in Nat
  BY <1>1, Times
<1>6. x < z
  BY <1>3, <1>4
<1> HIDE DEF z
<1>7. w \in 1 .. z /\ w - 1 = x
  BY <1>3, <1>5, <1>6
<1>8. x \div (a * c) = t /\ (x \div c) % a = h /\ x % c = e
  BY <1>1, <1>2, PlaceIs
<1> HIDE DEF w
<1>9. RoundAt(w, r, d, t, h, e)
  BY <1>2, <1>7, <1>8 DEF RoundAt, RoundI, RoundPre, RoundOff, a, c, m
<1>10. w \in Rounds(r, d)
  BY <1>7 DEF Rounds, z, a, c, m
<1> QED BY <1>9, <1>10

\* Round w adds the element k of the source, whose index is j.
Adds(w, r, d, k, j) ==
  /\ w \in Rounds(r, d) /\ k \in 1 .. elem_count(r) /\ IsPlace(j, r, k) /\ k = RoundSrc(w, r, d) + 1
  /\ RoundAt(w, r, d, j[d], Outer(j, r, d), Inner(j, r, d))

LEMMA PlacedBy ==
  ASSUME NEW h \in Nat, NEW m \in Nat, NEW t \in Nat, NEW c \in Nat, NEW e \in Nat, t < m, e < c
  PROVE  Placed((h * m + t) * c + e, m, c, h, t, e)
<1> DEFINE z == h * m
<1>1. z \in Nat /\ z * c = h * (m * c)
  BY Times, TimesAssoc
<1> HIDE DEF z
<1>2. (z + t) * c = z * c + t * c
  BY <1>1, PlusTimes
<1>3. (h * m + t) * c + e = h * (m * c) + t * c + e
  BY <1>1, <1>2 DEF z
<1> QED BY <1>3 DEF Placed

LEMMA RoundSource ==
  ASSUME NEW r, NEW d, Resized(r, r, d), NEW w \in Rounds(r, d)
  PROVE  \E k, j : Adds(w, r, d, k, j)
<1> DEFINE a == CountBefore(r, d)
           c == CountAfter(r, d)
           m == r[d]
           x == RoundSrc(w, r, d)
           k == x + 1
           j == AtPosition(k - 1, r)
<1>1. Shaped(r, d) /\ r \in Seq(Nat)
  BY DEF Resized, Shaped
<1>2. PICK t, h, e : RoundAt(w, r, d, t, h, e)
  BY <1>1, RoundExists
<1>3. /\ a \in Nat /\ c \in Nat /\ m \in Nat /\ t \in Nat /\ h \in Nat /\ e \in Nat
      /\ t < m /\ h < a /\ e < c
  BY <1>1, <1>2, ShapedCounts DEF RoundAt, Placed
<1>4. Placed(x, m, c, h, t, e)
  <2>1. x = (h * m + t) * c + e
    BY <1>2, Zenon DEF RoundAt, RoundSrc
  <2> HIDE DEF x, m, c
  <2> QED BY <1>3, <2>1, PlacedBy
<1> HIDE DEF x
<1>5. x \in Nat /\ x < a * (m * c)
  BY <1>3, <1>4, PlaceWithin
<1>6. elem_count(r) = a * (m * c) /\ elem_count(r) \in Nat
  BY <1>1, SizeAround, AfterRule
<1>7. k \in 1 .. elem_count(r) /\ k - 1 = x
  <2> DEFINE z == a * (m * c)
  <2> HIDE DEF z
  <2>1. x < z /\ elem_count(r) = z
    BY <1>5, <1>6 DEF z
  <2> QED BY <1>5, <1>6, <2>1
<1> HIDE DEF k
<1>8. IsPlace(j, r, k)
  BY <1>1, <1>7, PlaceOf
<1> HIDE DEF j
<1>9. Placed(x, m, c, Outer(j, r, d), j[d], Inner(j, r, d))
  BY <1>7, <1>8, PlaceParts
<1>10. j[d] = t /\ Outer(j, r, d) = h /\ Inner(j, r, d) = e
  BY <1>3, <1>4, <1>9, PlaceIs
<1> QED BY <1>2, <1>7, <1>8, <1>10, Zenon DEF Adds, k, x

LEMMA SourceRound ==
  ASSUME NEW r, NEW d, Resized(r, r, d), NEW k \in 1 .. elem_count(r)
  PROVE  \E w : Adds(w, r, d, k, AtPosition(k - 1, r))
<1> DEFINE c == CountAfter(r, d)
           m == r[d]
           j == AtPosition(k - 1, r)
           h == Outer(j, r, d)
           t == j[d]
           e == Inner(j, r, d)
<1>1. Shaped(r, d) /\ r \in Seq(Nat)
  BY DEF Resized, Shaped
<1>2. IsPlace(j, r, k)
  BY <1>1, PlaceOf
<1> HIDE DEF j
<1>3. /\ c \in Nat /\ m \in Nat /\ t \in Nat /\ t < m /\ h \in Nat /\ e \in Nat /\ e < c
      /\ h < CountBefore(r, d) /\ Placed(k - 1, m, c, h, t, e)
  BY <1>2, PlaceParts DEF Placed
<1>4. PICK w \in Rounds(r, d) : RoundAt(w, r, d, t, h, e)
  BY <1>1, <1>3, RoundMade
<1> DEFINE x == RoundSrc(w, r, d)
<1>5. Placed(x, m, c, h, t, e)
  <2>1. x = (h * m + t) * c + e
    BY <1>4, Zenon DEF RoundAt, RoundSrc
  <2> HIDE DEF x, m, c, h, t, e
  <2> QED BY <1>3, <2>1, PlacedBy
<1>6. k = x + 1
  <2> HIDE DEF x
  <2>1. k - 1 = x
    BY <1>3, <1>5 DEF Placed
  <2> QED BY <2>1
<1> QED BY <1>2, <1>4, <1>6, Zenon DEF Adds, j, t, h, e

AddsBy(s, r, d, ids) ==
  Resized(r, s, d) /\ ids \in [1 .. r[d] -> Nat] /\ s[d] \in Nat /\ InRange(ids, s[d])

\* For each element of the source, the index along dimension d.
Names(r, d, ids) == [k \in 1 .. elem_count(r) |-> ids[AtPosition(k - 1, r)[d] + 1]]

LEMMA AddedIs ==
  ASSUME NEW s, NEW r, NEW d, NEW ids, AddsBy(s, r, d, ids), NEW p, NEW i, IsPlace(i, s, p),
         NEW w, NEW k, NEW j, Adds(w, r, d, k, j)
  PROVE  w \in AddedSet(p, s, r, d, ids) <=> k \in TakenSet(p, s, r, d, Names(r, d, ids))
<1> DEFINE c == CountAfter(s, d)
           v == ids[j[d] + 1]
           h == Outer(j, r, d)
           e == Inner(j, r, d)
           x == RoundDst(w, s, r, d, ids)
<1>1. /\ Resized(r, s, d) /\ s[d] \in Nat /\ IsPlace(j, r, k) /\ RoundAt(w, r, d, j[d], h, e)
      /\ ids \in [1 .. r[d] -> Nat] /\ InRange(ids, s[d]) /\ w \in Rounds(r, d) /\ k \in 1 .. elem_count(r)
      /\ RoundI(w, r, d) = j[d]
  BY Zenon DEF AddsBy, Adds, RoundAt
<1>2. c \in Nat /\ h \in Nat /\ e \in Nat /\ e < c /\ j[d] \in 0 .. r[d] - 1 /\ r[d] \in Nat
  BY <1>1, PlaceParts
<1>3. v \in Nat /\ (v # max_value => v < s[d])
  <2>1. j[d] + 1 \in 1 .. r[d]
    BY <1>2
  <2> QED BY <1>1, <2>1, RangeIs
<1>4. x = (h * s[d] + v) * c + e
  <2>1. CountAfter(r, d) = c
    BY <1>1, AroundSame
  <2> QED BY <1>1, <2>1, Zenon DEF RoundAt, RoundDst
<1>5. Names(r, d, ids)[k] = v
  BY <1>1 DEF Names, IsPlace
<1>6. w \in AddedSet(p, s, r, d, ids) <=> v # max_value /\ x = p - 1
  BY <1>1, Zenon DEF AddedSet
<1>7. k \in TakenSet(p, s, r, d, Names(r, d, ids))
        <=> v # max_value /\ v = i[d] /\ \A q \in 1 .. Len(s) : q # d => j[q] = i[q]
  <2>1. j = AtPosition(k - 1, r) /\ i = AtPosition(p - 1, s)
    BY <1>1 DEF IsPlace
  <2> HIDE DEF v
  <2> QED BY <1>1, <1>5, <2>1 DEF TakenSet
<1> HIDE DEF x, v
<1>8. ASSUME v # max_value PROVE x = p - 1 <=> v = i[d] /\ \A q \in 1 .. Len(s) : q # d => j[q] = i[q]
  <2>1. Lands(x, v, k, j, r, s, d)
    <3> DEFINE m == s[d]
    <3> HIDE DEF c, h, e, m
    <3>1. v < m /\ m \in Nat /\ x = (h * m + v) * c + e
      BY <1>1, <1>3, <1>4, <1>8 DEF m
    <3>2. Placed(x, m, c, h, v, e)
      BY <1>2, <1>3, <3>1, PlacedBy
    <3> QED BY <1>1, <3>2, Zenon DEF Lands, c, h, e, m
  <2> QED BY <2>1, TargetIs
<1> QED BY <1>6, <1>7, <1>8

\* In the order of its rounds, index_add takes the elements in row-major order.
LEMMA RoundsClimb ==
  ASSUME NEW s, NEW r, NEW d, NEW ids, AddsBy(s, r, d, ids), NEW p, NEW i, IsPlace(i, s, p)
  PROVE  Climbs([w \in Rounds(r, d) |-> RoundSrc(w, r, d) + 1],
                AddedSet(p, s, r, d, ids), r[d] * CountBefore(r, d) * CountAfter(r, d),
                TakenSet(p, s, r, d, Names(r, d, ids)), elem_count(r))
<1> DEFINE n == r[d] * CountBefore(r, d) * CountAfter(r, d)
           size == elem_count(r)
           g == [w \in Rounds(r, d) |-> RoundSrc(w, r, d) + 1]
           A == AddedSet(p, s, r, d, ids)
           B == TakenSet(p, s, r, d, Names(r, d, ids))
<1>1. Resized(r, s, d) /\ Resized(r, r, d)
  BY DEF AddsBy, Resized
<1>2. A \subseteq Rounds(r, d) /\ B \subseteq 1 .. elem_count(r)
  BY DEF AddedSet, TakenSet
<1>3. \A w, k, j : Adds(w, r, d, k, j) => (w \in A <=> k \in B) /\ g[w] = k
  <2> SUFFICES ASSUME NEW w, NEW k, NEW j, Adds(w, r, d, k, j) PROVE (w \in A <=> k \in B) /\ g[w] = k
    OBVIOUS
  <2>1. g[w] = k
    BY DEF Adds
  <2> QED BY <2>1, AddedIs
<1> HIDE DEF g
<1>4. \A w \in A : \E k, j : Adds(w, r, d, k, j)
  BY <1>1, <1>2, RoundSource
<1>5. \A y \in B : \E w \in A : g[w] = y
  <2>1. \A y \in B : \E w : Adds(w, r, d, y, AtPosition(y - 1, r))
    BY <1>1, <1>2, SourceRound
  <2> HIDE DEF A, B
  <2> QED BY <1>3, <2>1
<1>6. ASSUME NEW x \in A, NEW z \in A, x < z PROVE g[x] < g[z]
  <2> DEFINE a == CountBefore(r, d)
             c == CountAfter(r, d)
             m == r[d]
             h == Outer(i, s, d)
             e == Inner(i, s, d)
             q == a * c
  <2>1. PICK k1, j1 : Adds(x, r, d, k1, j1)
    BY <1>4
  <2>2. PICK k2, j2 : Adds(z, r, d, k2, j2)
    BY <1>4
  <2>3. g[x] = k1 /\ g[z] = k2 /\ k1 \in B /\ k2 \in B
    BY <1>3, <2>1, <2>2
  <2>4. ASSUME NEW k, NEW j, IsPlace(j, r, k), k \in B
        PROVE  Outer(j, r, d) = h /\ Inner(j, r, d) = e
    BY <2>4, <1>1, AroundIs DEF IsPlace, TakenSet
  <2> HIDE DEF A, B
  <2>5. IsPlace(j1, r, k1) /\ RoundAt(x, r, d, j1[d], h, e)
    <3>1. IsPlace(j1, r, k1) /\ RoundAt(x, r, d, j1[d], Outer(j1, r, d), Inner(j1, r, d))
      BY <2>1, Zenon DEF Adds
    <3> HIDE DEF h, e
    <3>2. Outer(j1, r, d) = h /\ Inner(j1, r, d) = e
      BY <2>3, <2>4, <3>1
    <3> QED BY <3>1, <3>2, Zenon
  <2>6. IsPlace(j2, r, k2) /\ RoundAt(z, r, d, j2[d], h, e)
    <3>1. IsPlace(j2, r, k2) /\ RoundAt(z, r, d, j2[d], Outer(j2, r, d), Inner(j2, r, d))
      BY <2>2, Zenon DEF Adds
    <3> HIDE DEF h, e
    <3>2. Outer(j2, r, d) = h /\ Inner(j2, r, d) = e
      BY <2>3, <2>4, <3>1
    <3> QED BY <3>1, <3>2, Zenon
  <2>7. Placed(k1 - 1, m, c, h, j1[d], e) /\ Placed(k2 - 1, m, c, h, j2[d], e)
    <3>1. Placed(k1 - 1, m, c, Outer(j1, r, d), j1[d], Inner(j1, r, d))
      BY <1>1, <2>5, PlaceParts
    <3>2. Placed(k2 - 1, m, c, Outer(j2, r, d), j2[d], Inner(j2, r, d))
      BY <1>1, <2>6, PlaceParts
    <3>3. Outer(j1, r, d) = h /\ Inner(j1, r, d) = e /\ Outer(j2, r, d) = h /\ Inner(j2, r, d) = e
      <4> HIDE DEF h, e
      <4> QED BY <2>3, <2>4, <2>5, <2>6
    <3> QED BY <3>1, <3>2, <3>3, Zenon
  <2>8. a \in Nat \ {0} /\ c \in Nat \ {0} /\ m \in Nat /\ q \in Nat \ {0}
    <3>1. Shaped(r, d)
      BY <1>1 DEF Shaped, Resized
    <3>2. a \in Nat /\ c \in Nat /\ m \in Nat
      BY <3>1, ShapedCounts
    <3>3. h \in Nat /\ e \in Nat /\ h < a /\ e < c
      BY <2>5 DEF RoundAt, Placed
    <3> HIDE DEF a, c, m, h, e
    <3>4. a \in Nat \ {0} /\ c \in Nat \ {0}
      BY <3>2, <3>3
    <3> QED BY <3>2, <3>4, Times
  <2> DEFINE t1 == j1[d]
             t2 == j2[d]
             u == h * c + e
             v == h * (m * c) + e
  <2>9. /\ t1 \in Nat /\ t2 \in Nat /\ x - 1 = t1 * q + h * c + e /\ z - 1 = t2 * q + h * c + e
        /\ k1 - 1 = h * (m * c) + t1 * c + e /\ k2 - 1 = h * (m * c) + t2 * c + e
        /\ h \in Nat /\ e \in Nat
    BY <2>5, <2>6, <2>7, Zenon DEF RoundAt, Placed
  <2>10. x \in Nat /\ z \in Nat /\ k1 \in Nat /\ k2 \in Nat
    BY <1>2, <2>3 DEF Rounds, A, B
  <2> HIDE DEF t1, t2, h, e, c, q, m
  <2>11. t1 < t2
    <3> DEFINE y1 == t1 * q
               y2 == t2 * q
               o == h * c
    <3>1. y1 \in Nat /\ y2 \in Nat /\ o \in Nat
      BY <2>8, <2>9, Times
    <3>2. y1 < y2 <=> t1 < t2
      BY <2>8, <2>9, TimesLess
    <3> HIDE DEF y1, y2, o
    <3>3. x - 1 = y1 + o + e /\ z - 1 = y2 + o + e
      BY <2>9 DEF y1, y2, o
    <3>4. y1 < y2
      BY <1>6, <2>9, <2>10, <3>1, <3>3
    <3> QED BY <3>2, <3>4
  <2>12. k1 < k2
    <3> DEFINE y1 == t1 * c
               y2 == t2 * c
               o == h * (m * c)
    <3>1. y1 \in Nat /\ y2 \in Nat /\ o \in Nat
      BY <2>8, <2>9, Times
    <3>2. y1 < y2
      BY <2>8, <2>9, <2>11, TimesLess
    <3> HIDE DEF y1, y2, o
    <3>3. k1 - 1 = o + y1 + e /\ k2 - 1 = o + y2 + e
      BY <2>9 DEF y1, y2, o
    <3> QED BY <2>9, <2>10, <3>1, <3>2, <3>3
  <2> QED BY <2>3, <2>12
<1>7. \A x \in A : g[x] \in B
  <2> HIDE DEF A, B
  <2> QED BY <1>3, <1>4
<1>9. n \in Nat /\ size \in Nat /\ A \in SUBSET (1 .. n) /\ B \in SUBSET (1 .. size)
  <2>1. Shaped(r, d) /\ r \in Seq(Nat)
    BY <1>1 DEF Resized, Shaped
  <2>2. CountBefore(r, d) \in Nat /\ CountAfter(r, d) \in Nat /\ r[d] \in Nat /\ size \in Nat
    BY <2>1, ShapedCounts, AfterRule
  <2>3. n \in Nat
    BY <2>2, Times
  <2> HIDE DEF A, B
  <2> QED BY <1>2, <2>2, <2>3 DEF Rounds
<1> HIDE DEF A, B, n, size
<1>8. Climbs(g, A, n, B, size)
  BY <1>5, <1>6, <1>7, <1>9 DEF Climbs
<1> QED BY <1>8 DEF g, A, B, n, size

IndexAddIs(s, ids, r, d) ==
  IF ~InRange(ids, s[d]) THEN Err
  ELSE [p \in 1 .. elem_count(s) |-> InOrder(TakenSet(p, s, r, d, Names(r, d, ids)))]

LEMMA IndexAddRight ==
  ASSUME NEW s, NEW ids, NEW r, NEW d, Resized(r, s, d), ids \in [1 .. r[d] -> Nat]
  PROVE  IndexAdd(s, ids, r, d) = IndexAddIs(s, ids, r, d)
<1> DEFINE Sources(added) == [j \in DOMAIN added |-> RoundSrc(added[j], r, d) + 1]
           n == r[d] * CountBefore(r, d) * CountAfter(r, d)
<1>1. r[d] \in Nat /\ s[d] \in Nat /\ s \in Seq(Nat) /\ r \in Seq(Nat) /\ Shaped(r, d)
  BY DEF Resized, Shaped
<1>2. Len(ids) = r[d]
  BY <1>1
<1>3. IndexAdd(s, ids, r, d) =
        IF AnyInvalid(ids, s[d]) THEN Err
        ELSE [p \in 1 .. elem_count(s) |-> Sources(InOrder(AddedSet(p, s, r, d, ids)))]
  BY <1>2, Zenon DEF IndexAdd, AddedSet, Rounds, RoundI, RoundPre, RoundOff, RoundSrc, RoundDst
<1>4. InRange(ids, s[d]) <=> ~AnyInvalid(ids, s[d])
  BY <1>1, RangeIs
<1> HIDE DEF n
<1>6. ASSUME InRange(ids, s[d]), NEW p \in 1 .. elem_count(s)
      PROVE  Sources(InOrder(AddedSet(p, s, r, d, ids))) = InOrder(TakenSet(p, s, r, d, Names(r, d, ids)))
  <2> DEFINE g == [w \in Rounds(r, d) |-> RoundSrc(w, r, d) + 1]
             A == AddedSet(p, s, r, d, ids)
             B == TakenSet(p, s, r, d, Names(r, d, ids))
             m == elem_count(r)
  <2>1. Climbs(g, A, n, B, m)
    BY <1>1, PlaceOf, <1>6, RoundsClimb DEF AddsBy, n
  <2>2. A \subseteq Rounds(r, d)
    BY DEF AddedSet
  <2> HIDE DEF A, B, g, m
  <2>3. InOrder(B) = [j \in DOMAIN InOrder(A) |-> g[InOrder(A)[j]]]
    BY <2>1, OrderMoved
  <2>4. \A j \in DOMAIN InOrder(A) : g[InOrder(A)[j]] = RoundSrc(InOrder(A)[j], r, d) + 1
    <3>1. \A j \in DOMAIN InOrder(A) : InOrder(A)[j] \in Rounds(r, d)
      BY <2>1, <2>2, InOrderIs DEF Climbs
    <3> QED BY <3>1 DEF g
  <2> QED BY <2>3, <2>4 DEF A, B
<1> HIDE DEF Sources
<1> QED BY <1>3, <1>4, <1>6 DEF IndexAddIs

-----------------------------------------------------------------------------
(* IndexedExact.                                                           *)

LEMMA IdsTyped ==
  ASSUME NEW n \in Nat, NEW size \in Nat, NEW ids, ids \in IdPatterns(n, size)
  PROVE  ids \in [1 .. n -> Nat]
<1> DEFINE Id(k, c) == IF (k + c) % (size + 2) = size + 1 THEN max_value ELSE (k + c) % (size + 2)
<1>1. PICK c \in 0 .. size + 1 : ids = [k \in 1 .. n |-> Id(k, c)]
  BY DEF IdPatterns
<1>2. ASSUME NEW k \in 1 .. n PROVE Id(k, c) \in Nat
  BY DEF max_value
<1> HIDE DEF Id
<1> QED BY <1>1, <1>2

LEMMA GatherReadsIt ==
  ASSUME VInv, is_contiguous(layout), NEW d, NEW r, Resized(r, dims, d)
  PROVE  GatherReads(r, d)
<1> SUFFICES ASSUME NEW ids \in IdPatterns(Size(r), dims[d])
             PROVE  Gather(layout, ids, r, d) = GatherIs(layout, ids, r, d)
  BY Zenon DEF GatherReads, GatherIs, At, dims
<1>1. r \in Seq(Nat) /\ dims[d] \in Nat
  BY DEF Resized
<1>2. Size(r) = elem_count(r) /\ elem_count(r) \in Nat
  BY <1>1, AfterRule
<1>3. ids \in [1 .. elem_count(r) -> Nat]
  BY <1>1, <1>2, IdsTyped
<1>4. ReadsBy(layout, r, d, ids)
  BY <1>3, StateTyped DEF ReadsBy, dims
<1> QED BY <1>4, GatherRight

LEMMA ResizedTo ==
  ASSUME VInv, NEW n \in Nat, NEW d \in 1 .. rank
  PROVE  LET r == [dims EXCEPT ![d] = n]
         IN  Resized(r, dims, d) /\ r[d] = n /\ dims[d] \in Nat
<1>1. dims \in Seq(Nat) /\ rank = Len(dims) /\ rank \in Nat
  BY StateTyped
<1> DEFINE r == [dims EXCEPT ![d] = n]
<1> HIDE DEF dims, rank
<1>2. r \in Seq(Nat) /\ Len(r) = Len(dims) /\ r[d] = n /\ \A c \in 1 .. Len(dims) : c # d => r[c] = dims[c]
  BY <1>1
<1> QED BY <1>1, <1>2 DEF Resized

LEMMA SelectReadsIt ==
  ASSUME VInv, is_contiguous(layout), NEW n \in Nat, NEW d \in 1 .. rank
  PROVE  IndexSelectReads(n, d)
<1> DEFINE r == [dims EXCEPT ![d] = n]
<1> SUFFICES ASSUME NEW ids \in IdPatterns(n, dims[d])
             PROVE  IndexSelect(layout, ids, d) = SelectIs(layout, ids, d, r)
  <2>1. Size(r) = elem_count(r)
    BY ResizedTo, AfterRule DEF Resized
  <2> HIDE DEF r
  <2>2. IndexSelectReads(n, d) <=> \A ids \in IdPatterns(n, dims[d]) :
          IndexSelect(layout, ids, d) =
            IF ~InRange(ids, dims[d]) THEN Err
            ELSE [k \in 1 .. Size(r) |->
                   LET i == AtPosition(k - 1, r)
                   IN  IF ids[i[d] + 1] = max_value THEN None
                       ELSE At([i EXCEPT ![d] = ids[i[d] + 1]])]
    BY Zenon DEF IndexSelectReads, r
  <2> QED BY <2>1, <2>2, Zenon DEF SelectIs, At, dims
<1>1. Resized(r, dims, d) /\ r[d] = n /\ dims[d] \in Nat
  BY ResizedTo
<1> HIDE DEF r
<1>2. ids \in [1 .. n -> Nat]
  BY <1>1, IdsTyped
<1>3. SelectsBy(layout, r, d, ids)
  BY <1>1, <1>2, StateTyped DEF SelectsBy, dims
<1> QED BY <1>3, SelectRight

TakenBy(p, r, d, w) == Taken(p, r, d, LAMBDA k : w[k])
TakenAt(p, r, d, ids) == Taken(p, r, d, LAMBDA k : ids[AtPosition(k - 1, r)[d] + 1])

LEMMA TakenByIs ==
  ASSUME VInv, NEW p, NEW r, NEW d, NEW w, r \in Seq(Nat)
  PROVE  TakenBy(p, r, d, w) = InOrder(TakenSet(p, dims, r, d, w))
<1> DEFINE i == AtPosition(p - 1, dims)
           Mine(k) == LET j == AtPosition(k - 1, r)
                      IN  w[k] # max_value /\ w[k] = i[d] /\ \A c \in 1 .. rank \ {d} : j[c] = i[c]
<1>1. Size(r) = elem_count(r) /\ rank = Len(dims)
  BY AfterRule, StateTyped
<1>2. TakenBy(p, r, d, w) = InOrder({k \in 1 .. Size(r) : Mine(k)})
  BY Zenon DEF TakenBy, Taken
<1>3. TakenSet(p, dims, r, d, w) = {k \in 1 .. Size(r) : Mine(k)}
  BY <1>1 DEF TakenSet
<1> QED BY <1>2, <1>3, Zenon

LEMMA TakenAtIs ==
  ASSUME VInv, NEW p, NEW r, NEW d, NEW ids, r \in Seq(Nat)
  PROVE  TakenAt(p, r, d, ids) = InOrder(TakenSet(p, dims, r, d, Names(r, d, ids)))
<1> DEFINE i == AtPosition(p - 1, dims)
           v(k) == ids[AtPosition(k - 1, r)[d] + 1]
           Mine(k) == LET j == AtPosition(k - 1, r)
                      IN  v(k) # max_value /\ v(k) = i[d] /\ \A c \in 1 .. rank \ {d} : j[c] = i[c]
<1>1. Size(r) = elem_count(r) /\ rank = Len(dims)
  BY AfterRule, StateTyped
<1>2. TakenAt(p, r, d, ids) = InOrder({k \in 1 .. Size(r) : Mine(k)})
  BY Zenon DEF TakenAt, Taken
<1>3. \A k \in 1 .. elem_count(r) : Names(r, d, ids)[k] = v(k)
  BY DEF Names
<1> HIDE DEF v
<1>4. TakenSet(p, dims, r, d, Names(r, d, ids)) = {k \in 1 .. Size(r) : Mine(k)}
  BY <1>1, <1>3 DEF TakenSet
<1> QED BY <1>2, <1>4, Zenon

LEMMA ScatterTakesIt ==
  ASSUME VInv, NEW d, NEW r, Resized(r, dims, d)
  PROVE  ScatterTakes(r, d)
<1>1. r \in Seq(Nat) /\ dims \in Seq(Nat) /\ dims[d] \in Nat
  BY DEF Resized
<1>2. Size(r) = elem_count(r) /\ elem_count(r) \in Nat /\ Size(dims) = elem_count(dims)
  BY <1>1, AfterRule
<1> SUFFICES ASSUME NEW ids \in IdPatterns(Size(r), dims[d])
             PROVE  LET t == Scatter(dims, ids, r, d)
                    IN  /\ t.ok <=> InRange(ids, dims[d])
                        /\ t.ok => t.taken =
                             [p \in 1 .. Size(dims) |-> TakenBy(p, r, d, ids)]
  BY Zenon DEF ScatterTakes, TakenBy
<1>3. ids \in [1 .. elem_count(r) -> Nat]
  BY <1>1, <1>2, IdsTyped
<1>4. ScattersBy(dims, r, d, ids)
  BY <1>3 DEF ScattersBy
<1>5. \A p : TakenBy(p, r, d, ids) = InOrder(TakenSet(p, dims, r, d, ids))
  BY <1>1, TakenByIs
<1> DEFINE t == Scatter(dims, ids, r, d)
<1>6. ScatterIs(t, dims, ids, r, d)
  BY <1>4, ScatterRight
<1> HIDE DEF t
<1> QED BY <1>2, <1>5, <1>6 DEF t, ScatterIs

LEMMA IndexAddTakesIt ==
  ASSUME VInv, NEW d, NEW r, Resized(r, dims, d)
  PROVE  IndexAddTakes(r, d)
<1>1. r \in Seq(Nat) /\ dims \in Seq(Nat) /\ dims[d] \in Nat /\ r[d] \in Nat
  BY DEF Resized
<1>2. Size(dims) = elem_count(dims)
  BY <1>1, AfterRule
<1> SUFFICES ASSUME NEW ids \in IdPatterns(r[d], dims[d])
             PROVE  IndexAdd(dims, ids, r, d) =
                      IF ~InRange(ids, dims[d]) THEN Err
                      ELSE [p \in 1 .. Size(dims) |-> TakenAt(p, r, d, ids)]
  BY Zenon DEF IndexAddTakes, TakenAt
<1>3. ids \in [1 .. r[d] -> Nat]
  BY <1>1, IdsTyped
<1>4. IndexAdd(dims, ids, r, d) = IndexAddIs(dims, ids, r, d)
  BY <1>3, IndexAddRight
<1>5. \A p : TakenAt(p, r, d, ids) = InOrder(TakenSet(p, dims, r, d, Names(r, d, ids)))
  BY <1>1, TakenAtIs
<1> QED BY <1>2, <1>4, <1>5 DEF IndexAddIs

LEMMA VInvIndexes == VInv => IndexedExact
<1> SUFFICES ASSUME VInv, NEW d \in 1 .. rank, NEW n \in 1 .. 2
             PROVE  LET r == [dims EXCEPT ![d] = n]
                    IN  /\ is_contiguous(layout) => GatherReads(r, d) /\ IndexSelectReads(n, d)
                        /\ ScatterTakes(r, d) /\ IndexAddTakes(r, d)
  BY Zenon DEF IndexedExact
<1> DEFINE r == [dims EXCEPT ![d] = n]
<1>1. n \in Nat
  OBVIOUS
<1>2. Resized(r, dims, d)
  BY <1>1, ResizedTo
<1> HIDE DEF r
<1>3. is_contiguous(layout) => GatherReads(r, d) /\ IndexSelectReads(n, d)
  BY <1>1, <1>2, GatherReadsIt, SelectReadsIt
<1>4. ScatterTakes(r, d) /\ IndexAddTakes(r, d)
  BY <1>2, ScatterTakesIt, IndexAddTakesIt
<1> QED BY <1>3, <1>4 DEF r

\* Whatever views a tensor was taken through, gather and index_select read, and
\* scatter and index_add combine in row-major order, along every dimension, the
\* elements that the indexes name; the kernels fail if an index names none.
THEOREM IndexesAreFollowed == Spec => []IndexedExact
<1>1. Init => VInv
  BY InitFits
<1>2. VInv /\ [Next]_vars => VInv'
  BY StepKeeps
<1>3. VInv => IndexedExact
  BY VInvIndexes
<1> QED BY <1>1, <1>2, <1>3, PTL DEF Spec
=============================================================================
