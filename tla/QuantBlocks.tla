---------------------------- MODULE QuantBlocks ----------------------------
(***************************************************************************)
(* The blocks of quantized weights (quantized/k_quants.rs): the byte and   *)
(* the bit that from_float puts every bit of a quant, a scale or a minimum *)
(* in, where to_float and vec_dot_unopt look for it, and the HIP kernels   *)
(* that read the same bytes.  A bit is named by what it is a bit of; a word *)
(* is the set of its bits, each with its position.  How quants and scales  *)
(* are chosen is left out.                                                 *)
(***************************************************************************)
EXTENDS Integers, Sequences

-----------------------------------------------------------------------------
(* Words.                                                                  *)

Word(kind, i, width) == {<<p, <<kind, i, p>>>> : p \in 0 .. width - 1}

And(w, mask) == {b \in w : b[1] \in mask}
Low(n) == 0 .. n - 1
AsU8(w) == And(w, Low(8))

\* Shifts of a u32, of a u8; to the right they are the same.
Shl32(w, n) == And({<<b[1] + n, b[2]>> : b \in w}, Low(32))
Shl(w, n) == AsU8(Shl32(w, n))
Shr(w, n) == {<<b[1] - n, b[2]>> : b \in {c \in w : c[1] >= n}}

\* LittleEndian: the i-th u32 of some bytes, the i-th byte of a u32.
ReadU32(bytes, i) == UNION {Shl32(bytes[4 * i + k], 8 * k) : k \in 0 .. 3}
ByteOf(w, i) == AsU8(Shr(w, 8 * i))

\* 0x03030303, 0x0f0f0f0f, 0x3f3f3f3f: the n low bits of every byte.
KMask(n) == {p \in 0 .. 31 : p % 8 < n}

-----------------------------------------------------------------------------
(* The types.  Elements of a block, bits of a quant, elements that share a *)
(* scale, bits of a scale.  The scale of a type without groups is d.       *)

QK_K == 256

BlockTypes ==
  [Q4_0 |-> [size |-> 32, width |-> 4, group |-> 32, scale |-> 8, min |-> FALSE],
   Q4_1 |-> [size |-> 32, width |-> 4, group |-> 32, scale |-> 8, min |-> TRUE],
   Q5_0 |-> [size |-> 32, width |-> 5, group |-> 32, scale |-> 8, min |-> FALSE],
   Q5_1 |-> [size |-> 32, width |-> 5, group |-> 32, scale |-> 8, min |-> TRUE],
   Q8_0 |-> [size |-> 32, width |-> 8, group |-> 32, scale |-> 8, min |-> FALSE],
   Q2K |-> [size |-> QK_K, width |-> 2, group |-> 16, scale |-> 4, min |-> TRUE],
   Q3K |-> [size |-> QK_K, width |-> 3, group |-> 16, scale |-> 6, min |-> FALSE],
   Q4K |-> [size |-> QK_K, width |-> 4, group |-> 32, scale |-> 6, min |-> TRUE],
   Q5K |-> [size |-> QK_K, width |-> 5, group |-> 32, scale |-> 6, min |-> TRUE],
   Q6K |-> [size |-> QK_K, width |-> 6, group |-> 16, scale |-> 8, min |-> FALSE],
   Q8K |-> [size |-> QK_K, width |-> 8, group |-> QK_K, scale |-> 8, min |-> FALSE]]

Types == DOMAIN BlockTypes
Elems(ty) == 0 .. BlockTypes[ty].size - 1
GroupOf(ty, e) == e \div BlockTypes[ty].group

\* The quant of an element, the scale and the minimum of a group.
Q(ty, e) == Word("q", e, BlockTypes[ty].width)
S(ty, g) == Word("scale", g, BlockTypes[ty].scale)
M(ty, g) == Word("min", g, BlockTypes[ty].scale)

-----------------------------------------------------------------------------
(* from_float.                                                             *)

\* Q4_0, Q4_1: the second half of the elements in the high nibbles.
FromFloatQ4(ty) ==
  [d |-> S(ty, 0), m |-> M(ty, 0),
   qs |-> [j \in 0 .. 15 |-> Q(ty, j) \cup Shl(Q(ty, j + 16), 4)]]

\* Q5_0, Q5_1: the fifth bits in the 32 bits of qh.
FromFloatQ5(ty) ==
  [d |-> S(ty, 0), m |-> M(ty, 0),
   qs |-> [j \in 0 .. 15 |->
             And(Q(ty, j), Low(4)) \cup Shl(And(Q(ty, j + 16), Low(4)), 4)],
   qh |-> UNION {Shl32(Shr(And(Q(ty, e), {4}), 4), e) : e \in 0 .. 31}]

\* Q8_0; Q8_1 differs by s, the sum of the quants.
FromFloatQ8(ty) ==
  [d |-> S(ty, 0), qs |-> [j \in 0 .. 31 |-> Q(ty, j)], s |-> 0 .. 31]

\* Four quants of two bits in a byte, 32 elements apart.
Quarters(w) ==
  [i \in 0 .. 63 |->
     LET e == (i \div 32) * 128 + (i % 32)
     IN  UNION {Shl(w[e + (32 * part)], 2 * part) : part \in 0 .. 3}]

FromFloatQ2K ==
  [scales |-> [j \in 0 .. 15 |-> S("Q2K", j) \cup Shl(M("Q2K", j), 4)],
   qs |-> Quarters([e \in 0 .. 255 |-> Q("Q2K", e)])]

\* Six bits of 16 scales in 12 bytes; the third bits of the quants in hmask.
FromFloatQ3K ==
  [scales |-> [i \in 0 .. 11 |->
     IF i < 8 THEN And(S("Q3K", i), Low(4)) \cup Shl(And(S("Q3K", i + 8), Low(4)), 4)
     ELSE UNION {Shl(Shr(S("Q3K", j), 4), 2 * (j \div 4)) : j \in {k \in 0 .. 15 : k % 4 = i - 8}}],
   hmask |-> [m \in 0 .. 31 |->
     UNION {Shl(Shr(Q("Q3K", 32 * hm + m), 2), hm) : hm \in 0 .. 7}],
   qs |-> Quarters([e \in 0 .. 255 |-> And(Q("Q3K", e), Low(2))])]

\* Six bits of 8 scales and 8 minima in 12 bytes.
ScalesQ4K(ty) ==
  [i \in 0 .. 11 |->
     CASE i < 4 -> S(ty, i) \cup Shl(Shr(S(ty, i + 4), 4), 6)
       [] i \in 4 .. 7 -> M(ty, i - 4) \cup Shl(Shr(M(ty, i), 4), 6)
       [] OTHER -> And(S(ty, i - 4), Low(4)) \cup Shl(And(M(ty, i - 4), Low(4)), 4)]

\* Two quants in a byte, 32 elements apart.
Nibbles(w) ==
  [i \in 0 .. 127 |-> LET e == (i \div 32) * 64 + (i % 32) IN w[e] \cup Shl(w[e + 32], 4)]

FromFloatQ4K ==
  [scales |-> ScalesQ4K("Q4K"), qs |-> Nibbles([e \in 0 .. 255 |-> Q("Q4K", e)])]

FromFloatQ5K ==
  [scales |-> ScalesQ4K("Q5K"),
   qs |-> Nibbles([e \in 0 .. 255 |-> And(Q("Q5K", e), Low(4))]),
   qh |-> [j \in 0 .. 31 |-> UNION {Shl(Shr(Q("Q5K", 32 * m + j), 4), m) : m \in 0 .. 7}]]

FromFloatQ6K ==
  LET L(e) == And(Q("Q6K", e), Low(4))
      H(e) == Shr(Q("Q6K", e), 4)
  IN  [scales |-> [j \in 0 .. 15 |-> S("Q6K", j)],
       ql |-> [i \in 0 .. 127 |->
                 LET e == (i \div 64) * 128 + (i % 64) IN L(e) \cup Shl(L(e + 64), 4)],
       qh |-> Quarters([e \in 0 .. 255 |-> H(e)])]

\* bsums: the elements each sum is of.
FromFloatQ8K ==
  [d |-> S("Q8K", 0), qs |-> [j \in 0 .. 255 |-> Q("Q8K", j)],
   bsums |-> [j \in 0 .. 15 |-> {j * 16 + ii : ii \in 0 .. 15}]]

FromFloat ==
  [ty \in Types |->
     CASE ty \in {"Q4_0", "Q4_1"} -> FromFloatQ4(ty)
       [] ty \in {"Q5_0", "Q5_1"} -> FromFloatQ5(ty)
       [] ty = "Q8_0" -> FromFloatQ8(ty)
       [] ty = "Q2K" -> FromFloatQ2K
       [] ty = "Q3K" -> FromFloatQ3K
       [] ty = "Q4K" -> FromFloatQ4K
       [] ty = "Q5K" -> FromFloatQ5K
       [] ty = "Q6K" -> FromFloatQ6K
       [] ty = "Q8K" -> FromFloatQ8K]

\* The block a row of activations is quantized to (VecDotType): its quants
\* and the sums of them that the minima are multiplied by.
VecDotSums ==
  [ty \in Types |-> IF BlockTypes[ty].size = 32 THEN <<FromFloatQ8("Q8_0").s>>
                    ELSE [j \in 1 .. 16 |-> FromFloat["Q8K"].bsums[j - 1]]]

-----------------------------------------------------------------------------
(* to_float: what the value of element e is computed from.                 *)

\* The low nibbles are the first half of the elements.
ToFloatQ4(b) ==
  [e \in 0 .. 31 |->
     [q |-> IF e < 16 THEN And(b.qs[e], Low(4)) ELSE Shr(b.qs[e - 16], 4),
      scale |-> b.d, min |-> b.m]]

ToFloatQ5(b) ==
  LET xh_0(j) == AsU8(And(Shl32(Shr(b.qh, j), 4), {4}))
      xh_1(j) == AsU8(And(Shr(b.qh, j + 12), {4}))
  IN  [e \in 0 .. 31 |->
         [q |-> IF e < 16 THEN And(b.qs[e], Low(4)) \cup xh_0(e)
                ELSE Shr(b.qs[e - 16], 4) \cup xh_1(e - 16),
          scale |-> b.d, min |-> b.m]]

\* Q8_0, Q8K.
ToFloatQ8(b) == [e \in DOMAIN b.qs |-> [q |-> b.qs[e], scale |-> b.d]]

\* Two scales to each of four shifts, over both halves of the block.
ToFloatQ2K(b) ==
  [e \in 0 .. 255 |->
     LET half == e \div 128   j == (e % 128) \div 32   sc == b.scales[e \div 16]
     IN  [q |-> And(Shr(b.qs[32 * half + (e % 32)], 2 * j), Low(2)),
          scale |-> And(sc, Low(4)), min |-> Shr(sc, 4)]]

\* The 16 scales out of 12 bytes, four at a time.
ScalesQ3K(b) ==
  LET aux(i) == ReadU32(b.scales, i)
      tmp == aux(2)
      High(n) == Shl32(And(Shr(tmp, n), KMask(2)), 4)
      words == <<And(aux(0), KMask(4)) \cup High(0), And(aux(1), KMask(4)) \cup High(2),
                 And(Shr(aux(0), 4), KMask(4)) \cup High(4),
                 And(Shr(aux(1), 4), KMask(4)) \cup High(6)>>
  IN  [i \in 0 .. 15 |-> ByteOf(words[1 + (i \div 4)], i % 4)]

ToFloatQ3K(b) ==
  LET scales == ScalesQ3K(b)
  IN  [e \in 0 .. 255 |->
         [q |-> And(Shr(b.qs[32 * (e \div 128) + (e % 32)], 2 * ((e \div 32) % 4)), Low(2))
                 \cup Shl(And(Shr(b.hmask[e % 32], e \div 32), Low(1)), 2),
          scale |-> scales[e \div 16]]]

\* Mutant: the upper bits of scale and minimum are exchanged.
get_scale_min_k4_exchanged(j, q) ==
  IF j < 4 THEN <<And(q[j], Low(6)), And(q[j + 4], Low(6))>>
  ELSE <<And(q[j + 4], Low(4)) \cup Shl(Shr(q[j], 6), 4),
         Shr(q[j + 4], 4) \cup Shl(Shr(q[j - 4], 6), 4)>>

\* utils.rs: the j-th scale and minimum of the 12 bytes q.
get_scale_min_k4(j, q) ==
  IF j < 4 THEN <<And(q[j], Low(6)), And(q[j + 4], Low(6))>>
  ELSE <<And(q[j + 4], Low(4)) \cup Shl(Shr(q[j - 4], 6), 4),
         Shr(q[j + 4], 4) \cup Shl(Shr(q[j], 6), 4)>>

\* 32 low nibbles under one scale, 32 high ones under the next.
ToFloatQ4K(b) ==
  [e \in 0 .. 255 |->
     LET byte == b.qs[32 * (e \div 64) + (e % 32)]
         sm == get_scale_min_k4(e \div 32, b.scales)
     IN  [q |-> IF e % 64 < 32 THEN And(byte, Low(4)) ELSE Shr(byte, 4),
          scale |-> sm[1], min |-> sm[2]]]

\* u1 and u2 move up two bits every 64 elements.
ToFloatQ5K(b) ==
  [e \in 0 .. 255 |->
     LET u == 2 * (e \div 64) + (IF e % 64 < 32 THEN 0 ELSE 1)
         nibble == ToFloatQ4K(b)[e]
     IN  [nibble EXCEPT !.q = @ \cup Shl(And(Shr(b.qh[e % 32], u), Low(1)), 4)]]

ToFloatQ6K(b) ==
  [e \in 0 .. 255 |->
     LET idx == e \div 128   l == e % 32   part == (e % 128) \div 32
         low == b.ql[64 * idx + l + (IF part \in {1, 3} THEN 32 ELSE 0)]
     IN  [q |-> (IF part < 2 THEN And(low, Low(4)) ELSE Shr(low, 4))
                 \cup Shl(And(Shr(b.qh[32 * idx + l], 2 * part), Low(2)), 4),
          scale |-> b.scales[8 * idx + (l \div 16) + 2 * part]]]

ToFloat(ty, b) ==
  CASE ty \in {"Q4_0", "Q4_1"} -> ToFloatQ4(b)
    [] ty \in {"Q5_0", "Q5_1"} -> ToFloatQ5(b)
    [] ty \in {"Q8_0", "Q8K"} -> ToFloatQ8(b)
    [] ty = "Q2K" -> ToFloatQ2K(b)
    [] ty = "Q3K" -> ToFloatQ3K(b)
    [] ty = "Q4K" -> ToFloatQ4K(b)
    [] ty = "Q5K" -> ToFloatQ5K(b)
    [] ty = "Q6K" -> ToFloatQ6K(b)

-----------------------------------------------------------------------------
(* vec_dot_unopt: the products it adds up, a quant and its scale with the  *)
(* y-th quant of the activations; the minima with the sums they multiply.  *)

Product(q, scale, y) == [q |-> q, scale |-> scale, y |-> y]

VecDotQ4(b) ==
  {Product(And(b.qs[j], Low(4)), b.d, j) : j \in 0 .. 15}
    \cup {Product(Shr(b.qs[j], 4), b.d, j + 16) : j \in 0 .. 15}

\* Q5_0 masks before it shifts, Q5_1 after.
VecDotQ5(ty, b) ==
  LET xh_0(j) == IF ty = "Q5_0" THEN Shl32(Shr(And(b.qh, {j}), j), 4)
                 ELSE And(Shl32(Shr(b.qh, j), 4), {4})
      xh_1(j) == IF ty = "Q5_0" THEN Shr(And(b.qh, {j + 16}), j + 12)
                 ELSE And(Shr(b.qh, j + 12), {4})
  IN  {Product(And(b.qs[j], Low(4)) \cup AsU8(xh_0(j)), b.d, j) : j \in 0 .. 15}
        \cup {Product(Shr(b.qs[j], 4) \cup AsU8(xh_1(j)), b.d, j + 16) : j \in 0 .. 15}

VecDotQ8(b) == {Product(b.qs[j], b.d, j) : j \in DOMAIN b.qs}

\* q8 moves on by 32 with every shift, q2 with every four.
VecDotQ2K(b) ==
  {LET l == k % 32   shift == 2 * ((k \div 32) % 4)   q2 == 32 * (k \div 128)
       is == 2 * (k \div 32) + (IF l < 16 THEN 0 ELSE 1)
   IN  Product(And(Shr(b.qs[q2 + l], shift), Low(2)), And(b.scales[is], Low(4)), k)
     : k \in 0 .. 255}

\* aux8 is filled by 32, with a mask m that moves on; then read by 8.
VecDotQ3K(b) ==
  LET a == [k \in 0 .. 255 |->
              And(Shr(b.qs[32 * (k \div 128) + (k % 32)], 2 * ((k \div 32) % 4)), Low(2))
                \cup Shl(And(Shr(b.hmask[k % 32], k \div 32), Low(1)), 2)]
      scales == ScalesQ3K(b)
  IN  {Product(a[16 * i + l], scales[i], 16 * i + l) : i \in 0 .. 15, l \in 0 .. 15}

\* Scales and minima of Q4K and Q5K, four at a time.
KMaskScales(b) ==
  LET utmp(i) == ReadU32(b.scales, i)
      utmp1 == And(utmp(2), KMask(4)) \cup Shl32(And(Shr(utmp(0), 6), KMask(2)), 4)
      utmp3 == And(Shr(utmp(2), 4), KMask(4)) \cup Shl32(And(Shr(utmp(1), 6), KMask(2)), 4)
      Bytes(v, w) == [i \in 0 .. 7 |-> ByteOf(IF i < 4 THEN v ELSE w, i % 4)]
  IN  [scales |-> Bytes(And(utmp(0), KMask(6)), utmp1),
       mins |-> Bytes(And(utmp(1), KMask(6)), utmp3)]

VecDotQ4K(b) ==
  LET scales == KMaskScales(b).scales
  IN  {LET byte == b.qs[32 * (k \div 64) + (k % 32)]
       IN  Product(IF (k \div 32) % 2 = 0 THEN And(byte, Low(4)) ELSE Shr(byte, 4),
                   scales[k \div 32], k)
         : k \in 0 .. 255}

VecDotQ5K(b) ==
  {[p EXCEPT !.q = @ \cup Shl(And(Shr(b.qh[p.y % 32], p.y \div 32), Low(1)), 4)]
     : p \in VecDotQ4K(b)}

\* aux8 by 128, then 16 for every scale.
VecDotQ6K(b) ==
  LET aux8(k) ==
        LET j == k \div 128   l == k % 32   part == (k \div 32) % 4
            q4 == b.ql[64 * j + l + 32 * (part % 2)]
        IN  (IF part \in {0, 1} THEN And(q4, Low(4)) ELSE Shr(q4, 4))
              \cup Shl(And(Shr(b.qh[32 * j + l], 2 * part), Low(2)), 4)
  IN  {Product(aux8(16 * j + l), b.scales[j], 16 * j + l) : j \in 0 .. 15, l \in 0 .. 15}

VecDot(ty, b) ==
  CASE ty \in {"Q4_0", "Q4_1"} -> VecDotQ4(b)
    [] ty \in {"Q5_0", "Q5_1"} -> VecDotQ5(ty, b)
    [] ty \in {"Q8_0", "Q8K"} -> VecDotQ8(b)
    [] ty = "Q2K" -> VecDotQ2K(b)
    [] ty = "Q3K" -> VecDotQ3K(b)
    [] ty = "Q4K" -> VecDotQ4K(b)
    [] ty = "Q5K" -> VecDotQ5K(b)
    [] ty = "Q6K" -> VecDotQ6K(b)

\* The minimum that the i-th sum of the activations is multiplied by.
VecDotMin(ty, b, i) ==
  CASE ty \in {"Q4_1", "Q5_1"} -> b.m
    [] ty = "Q2K" -> Shr(b.scales[i], 4)
    [] ty \in {"Q4K", "Q5K"} -> KMaskScales(b).mins[i \div 2]

-----------------------------------------------------------------------------
(* kernels/dequant.hip.                                                    *)

DequantHip(ty, b) ==
  [e \in 0 .. 31 |->
     IF ty = "Q8_0" THEN b.qs[e]
     ELSE IF e % 2 = 0 THEN And(b.qs[e \div 2], Low(4)) ELSE Shr(b.qs[e \div 2], 4)]

-----------------------------------------------------------------------------
(* What must come out.                                                     *)

\* Of every type, to_float gives every element the quant, the scale and the
\* minimum that from_float stored for it.
RoundTrip(ty) ==
  LET read == ToFloat(ty, FromFloat[ty])
  IN  \A e \in Elems(ty) :
        /\ read[e].q = Q(ty, e)
        /\ read[e].scale = S(ty, GroupOf(ty, e))
        /\ BlockTypes[ty].min => read[e].min = M(ty, GroupOf(ty, e))

\* vec_dot multiplies every element, under its own scale, with the activation
\* at the same place, and takes its minimum off once.
DotPairs(ty) ==
  LET b == FromFloat[ty]
      sums == VecDotSums[ty]
  IN  /\ VecDot(ty, b) = {Product(Q(ty, e), S(ty, GroupOf(ty, e)), e) : e \in Elems(ty)}
      /\ BlockTypes[ty].min =>
           \A e \in Elems(ty) :
             LET covering == {i \in DOMAIN sums : e \in sums[i]}
             IN  \E i \in covering :
                   covering = {i} /\ VecDotMin(ty, b, i - 1) = M(ty, GroupOf(ty, e))

\* The types that can be stored, read and multiplied.
SoundTypes == {ty \in Types : RoundTrip(ty) /\ DotPairs(ty)}

\* The kernel gives the elements in the order of to_float.
HipInOrder(ty) == \A e \in 0 .. 31 : DequantHip(ty, FromFloat[ty])[e] = Q(ty, e)
=============================================================================
