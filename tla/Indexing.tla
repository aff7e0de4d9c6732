------------------------------ MODULE Indexing ------------------------------
(***************************************************************************)
(* Indexes of tensors, and their row-major order.                          *)
(***************************************************************************)
EXTENDS Integers, Sequences, SequencesExt

Size(shape) == FoldLeft(LAMBDA n, d : n * d, 1, shape)

Index(shape) ==
  {i \in [DOMAIN shape -> 0 .. Size(shape)] : \A d \in DOMAIN shape : i[d] < shape[d]}

\* The position of an index in row-major order, from 0.
Position(i, shape) ==
  FoldLeft(+, 0, [d \in DOMAIN shape |-> i[d] * Size(SubSeq(shape, d + 1, Len(shape)))])

AtPosition(k, shape) ==
  [d \in DOMAIN shape |-> (k \div Size(SubSeq(shape, d + 1, Len(shape)))) % shape[d]]
=============================================================================
