----------------------------- MODULE LayoutOps -----------------------------
(***************************************************************************)
(* Layouts of tensors (layout.rs, shape.rs, strided_index.rs) and the      *)
(* loops of the CPU backend that read storages through them                *)
(* (cpu_backend/utils.rs, cpu_backend/mod.rs).  Dimensions are counted     *)
(* from 1, addresses in a storage from 0 as in the code.                   *)
(***************************************************************************)
EXTENDS Integers, Sequences, SequencesExt

None == -1        \* an Option that is None, an Err

elem_count(dims) == FoldLeft(LAMBDA n, d : n * d, 1, dims)

\* The number of elements of the dimensions after i.
CountAfter(dims, i) == elem_count(SubSeq(dims, i + 1, Len(dims)))

stride_contiguous(dims) == [i \in DOMAIN dims |-> CountAfter(dims, i)]

Layout(dims, stride, start_offset) ==
  [dims |-> dims, stride |-> stride, start_offset |-> start_offset]

contiguous_with_offset(dims, start_offset) ==
  Layout(dims, stride_contiguous(dims), start_offset)

-----------------------------------------------------------------------------
(* Dim: an index counted from 0, or D::Minus(u) written as -u.  The result *)
(* is the dimension counted from 1, or None.                               *)

to_index(d, rank) ==
  CASE d >= 0 /\ d < rank -> d + 1
    [] d < 0 /\ -d <= rank -> rank + d + 1
    [] OTHER -> None

to_index_plus_one(d, rank) ==
  CASE d >= 0 /\ d <= rank -> d + 1
    [] d < 0 /\ -d <= rank + 1 -> rank + d + 2
    [] OTHER -> None

\* A shape with a hole: the hole, written None, takes what is left.
hole_size(el_count, prod) ==
  IF prod = 0 \/ el_count % prod # 0 THEN None ELSE el_count \div prod

into_shape(s, el_count) ==
  LET prod == elem_count([i \in DOMAIN s |-> IF s[i] = None THEN 1 ELSE s[i]])
  IN  [i \in DOMAIN s |-> IF s[i] = None THEN hole_size(el_count, prod) ELSE s[i]]

-----------------------------------------------------------------------------
(* Tests on layouts.                                                       *)

is_contiguous(l) ==
  \A i \in DOMAIN l.dims : l.dims[i] > 1 => l.stride[i] = CountAfter(l.dims, i)

is_fortran_contiguous(l) ==
  \A i \in DOMAIN l.dims : l.dims[i] > 1 => l.stride[i] = elem_count(SubSeq(l.dims, 1, i - 1))

\* [from, to), or None.
contiguous_offsets(l) ==
  IF is_contiguous(l)
  THEN [from |-> l.start_offset, to |-> l.start_offset + elem_count(l.dims)]
  ELSE [from |-> None, to |-> None]

-----------------------------------------------------------------------------
(* Views.                                                                  *)

\* A sequence with one element, or two elements, changed.  Not by EXCEPT, which
\* TLC 2.19 forgets when SubSeq is applied to a function it has not evaluated.
With(s, i, v) == [k \in DOMAIN s |-> IF k = i THEN v ELSE s[k]]

Swap(s, i, j) == With(With(s, i, s[j]), j, s[i])

\* Mutant: the offset moves by elements instead of by strides.
narrow_no_stride(l, d, start, len) ==
  Layout(With(l.dims, d, len), l.stride, l.start_offset + start)

narrow(l, d, start, len) ==
  Layout(With(l.dims, d, len), l.stride, l.start_offset + l.stride[d] * start)

transpose(l, d1, d2) == Layout(Swap(l.dims, d1, d2), Swap(l.stride, d1, d2), l.start_offset)

is_permutation(idxs, rank) == Len(idxs) = rank /\ 1 .. rank \subseteq ToSet(idxs)

permute(l, idxs) ==
  Layout([i \in DOMAIN idxs |-> l.dims[idxs[i]]],
         [i \in DOMAIN idxs |-> l.stride[idxs[i]]], l.start_offset)

can_broadcast(l, dims) ==
  LET added == Len(dims) - Len(l.dims)
  IN  added >= 0 /\ \A i \in DOMAIN l.dims : l.dims[i] \in {1, dims[added + i]}

broadcast_as(l, dims) ==
  LET added == Len(dims) - Len(l.dims)
      Stride(i) == IF i > added /\ l.dims[i - added] = dims[i] THEN l.stride[i - added] ELSE 0
  IN  Layout(dims, [i \in DOMAIN dims |-> Stride(i)], l.start_offset)

squeeze(l, d) == Layout(RemoveAt(l.dims, d), RemoveAt(l.stride, d), l.start_offset)

unsqueeze(l, d) ==
  LET stride == IF d <= Len(l.stride) THEN l.stride[d] ELSE 1
  IN  Layout(InsertAt(l.dims, d, 1), InsertAt(l.stride, d, stride), l.start_offset)

\* The number of windows is exact in f32 for dimensions below 2^23.
unfold(l, d, size, step) ==
  Layout(Append(With(l.dims, d, (l.dims[d] - size) \div step + 1), size),
         Append(With(l.stride, d, l.stride[d] * step), l.stride[d]), l.start_offset)

-----------------------------------------------------------------------------
(* Iterators.                                                              *)

\* StridedIndex::next: the innermost dimension that is not exhausted advances,
\* the ones after it go back to 0.
Advanced(dims, stride, it, p) ==
  LET back == FoldLeft(+, 0, [i \in DOMAIN dims |-> IF i > p THEN it.multi_index[i] * stride[i] ELSE 0])
  IN  [next_storage_index |-> it.next_storage_index - back + stride[p],
       multi_index |-> [i \in DOMAIN dims |->
         IF i > p THEN 0 ELSE it.multi_index[i] + (IF i = p THEN 1 ELSE 0)]]

next(dims, stride, it) ==
  LET Free == {i \in DOMAIN dims : it.multi_index[i] + 1 < dims[i]}
  IN  IF Free = {} THEN [it EXCEPT !.next_storage_index = None]
      ELSE Advanced(dims, stride, it, Max(Free))

\* Everything the iterator returns until it returns None for good, remaining or not.
StridedIndex(dims, stride, start_offset) ==
  LET n == elem_count(dims)
      first == [next_storage_index |-> IF n = 0 THEN None ELSE start_offset,
                multi_index |-> [i \in DOMAIN dims |-> 0]]
      run[k \in 0 .. n + 1] ==
        IF k = 0 THEN [it |-> first, returned |-> <<>>]
        ELSE LET prev == run[k - 1]
                 at == prev.it.next_storage_index
             IN  IF at = None THEN prev
                 ELSE [it |-> next(dims, stride, prev.it), returned |-> Append(prev.returned, at)]
  IN  run[n + 1].returned

strided_index(l) == StridedIndex(l.dims, l.stride, l.start_offset)

\* The number of dimensions, counted from the right, that are laid out without gaps.
contiguous_dims(l) ==
  LET rank == Len(l.dims)
      Fits(n) == \A i \in rank - n + 1 .. rank : l.stride[i] = CountAfter(l.dims, i)
  IN  CHOOSE n \in 0 .. rank : Fits(n) /\ (n = rank \/ ~Fits(n + 1))

\* A SingleBlock, or MultipleBlocks if the first m dimensions are not part of one.
BlocksAfter(l, m) ==
  [starts |-> IF m = 0 THEN <<l.start_offset>>
              ELSE StridedIndex(SubSeq(l.dims, 1, m), SubSeq(l.stride, 1, m), l.start_offset),
   len |-> CountAfter(l.dims, m)]

strided_blocks(l) == BlocksAfter(l, Len(l.dims) - contiguous_dims(l))

\* Mutant: the dimensions of stride 0 on the right do not stop the block.
offsets_b_no_right(l) ==
  LET rank == Len(l.dims)
      start_cont == CHOOSE n \in 0 .. rank :
        /\ \A i \in 1 .. n : l.stride[i] = 0
        /\ n = rank \/ l.stride[n + 1] # 0
      Fits == \A i \in start_cont + 1 .. rank : l.stride[i] \in {0, CountAfter(l.dims, i)}
  IN  [some |-> Fits, start |-> l.start_offset, len |-> CountAfter(l.dims, start_cont),
       left_broadcast |-> elem_count(SubSeq(l.dims, 1, start_cont)), right_broadcast |-> 1]

\* Dimensions of stride 0, then a block without gaps, then dimensions of stride 0.
BlockBetween(l, start_cont, end_cont, inner) ==
  [some |-> \A i \in DOMAIN inner : l.stride[start_cont + i] = CountAfter(inner, i),
   start |-> l.start_offset, len |-> elem_count(inner),
   left_broadcast |-> elem_count(SubSeq(l.dims, 1, start_cont)),
   right_broadcast |-> CountAfter(l.dims, end_cont)]

BlockFrom(l, start_cont) ==
  LET rank == Len(l.dims)
      end_cont == CHOOSE n \in start_cont .. rank :
        /\ \A i \in n + 1 .. rank : l.stride[i] = 0
        /\ n = start_cont \/ l.stride[n] # 0
  IN  BlockBetween(l, start_cont, end_cont, SubSeq(l.dims, start_cont + 1, end_cont))

offsets_b(l) ==
  BlockFrom(l, CHOOSE n \in 0 .. Len(l.dims) :
                 /\ \A i \in 1 .. n : l.stride[i] = 0
                 /\ n = Len(l.dims) \/ l.stride[n + 1] # 0)

-----------------------------------------------------------------------------
(* Loops of the CPU backend: the addresses they read, in order.            *)

Block(start, len) == [i \in 1 .. len |-> start + i - 1]

\* unary_map, unary_map_vec.
InBlocks(b) == FlattenSeq([i \in DOMAIN b.starts |-> Block(b.starts[i], b.len)])
unary_map(l) == InBlocks(strided_blocks(l))

\* Where binary_map reads the operand whose block is repeated.
InBlock(ob, k) == ob.start + (((k - 1) \div ob.right_broadcast) % ob.len)

\* Where binary_map_vec reads it: the k-th element of a whole block at a time,
\* or element i for a run of right_broadcast elements; after left_broadcast
\* rounds the rest is left alone.
InBlockVec(ob, k) ==
  CASE ob.right_broadcast = 1 -> ob.start + ((k - 1) % ob.len)
    [] ob.right_broadcast # 1 /\ k <= ob.left_broadcast * ob.len * ob.right_broadcast ->
         ob.start + (((k - 1) % (ob.len * ob.right_broadcast)) \div ob.right_broadcast)
    [] OTHER -> None

zip(s, t) == [k \in 1 .. IF Len(s) < Len(t) THEN Len(s) ELSE Len(t) |-> <<s[k], t[k]>>]

Run(c) == Block(c.from, c.to - c.from)
Repeats(ob, len, vec) == [k \in 1 .. len |-> IF vec THEN InBlockVec(ob, k) ELSE InBlock(ob, k)]

\* The pairs of addresses that are combined: cl and cr are the contiguous offsets
\* of the operands, bl and br their repeated blocks.
BinaryCase(l, r, cl, cr, bl, br, vec) ==
  CASE cl.from # None /\ cr.from # None -> zip(Run(cl), Run(cr))
    [] cl.from # None /\ cr.from = None /\ br.some -> zip(Run(cl), Repeats(br, cl.to - cl.from, vec))
    [] cl.from = None /\ cr.from # None /\ bl.some -> zip(Repeats(bl, cr.to - cr.from, vec), Run(cr))
    [] OTHER -> zip(strided_index(l), strided_index(r))

BinaryReads(l, r, vec) ==
  BinaryCase(l, r, contiguous_offsets(l), contiguous_offsets(r), offsets_b(l), offsets_b(r), vec)

binary_map(l, r) == BinaryReads(l, r, FALSE)
binary_map_vec(l, r) == BinaryReads(l, r, TRUE)

\* copy_strided_src_: dst is overwritten from dst_offset on, up to its end.
Overwritten(dst, dst_offset, vals) ==
  [i \in DOMAIN dst |->
    IF i > dst_offset /\ i - dst_offset <= Len(vals) THEN vals[i - dst_offset] ELSE dst[i]]

\* The elements at addresses at.
ElemsAt(src, at) == [k \in DOMAIN at |-> src[at[k] + 1]]

copy_strided_src(src, dst, dst_offset, l) == Overwritten(dst, dst_offset, ElemsAt(src, unary_map(l)))
=============================================================================
