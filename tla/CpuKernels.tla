---------------------------- MODULE CpuKernels ----------------------------
(***************************************************************************)
(* Kernels of the CPU backend (cpu_backend/mod.rs) that combine elements   *)
(* of different indexes: reductions, the operations that take a tensor of  *)
(* indexes, and the product of matrices.                                   *)
(*                                                                         *)
(* A kernel is given by the addresses it reads, for each element of its    *)
(* result and in the order of its loops; gemm and the SIMD sums are taken  *)
(* to add what they are told to.                                           *)
(***************************************************************************)
EXTENDS LayoutOps

CountBefore(dims, i) == elem_count(SubSeq(dims, 1, i - 1))

-----------------------------------------------------------------------------
(* reduce_op.                                                              *)

\* ReduceIndex::fold_impl finds the rows of a contiguous tensor by dividing by
\* the stride, which may be 0 in a dimension of size 1.
DividesByStride(l, d) == is_contiguous(l) /\ l.stride[d] # 1

\* Mutant: the block of a reduced dimension is not multiplied by its size.
FirstOfRowNoBlock(l, d, i) ==
  CASE DividesByStride(l, d) ->
         l.start_offset + ((i - 1) \div l.stride[d]) * l.stride[d] + ((i - 1) % l.stride[d])
    [] is_contiguous(l) /\ l.stride[d] = 1 -> l.start_offset + (i - 1) * l.dims[d]
    [] OTHER -> strided_index(narrow(l, d, 0, 1))[i]

\* The first element that is compared for the i-th element of the result.
FirstOfRow(l, d, i) ==
  CASE DividesByStride(l, d) ->
         l.start_offset + ((i - 1) \div l.stride[d]) * l.stride[d] * l.dims[d] + ((i - 1) % l.stride[d])
    [] is_contiguous(l) /\ l.stride[d] = 1 -> l.start_offset + (i - 1) * l.dims[d]
    [] OTHER -> strided_index(narrow(l, d, 0, 1))[i]

MinMaxRows(l, d) ==
  [i \in 1 .. elem_count(l.dims) \div l.dims[d] |->
    [k \in 1 .. l.dims[d] |-> FirstOfRow(l, d, i) + (k - 1) * l.stride[d]]]

\* The position, from 0, that is kept of a row: a later element must be better.
KeptIndex(row, use_min) ==
  LET Better(x, y) == IF use_min THEN y < x ELSE y > x
  IN  FoldLeft(LAMBDA acc, k : IF Better(row[acc + 1], row[k]) THEN k - 1 ELSE acc, 0,
               [k \in DOMAIN row |-> k])

\* ReduceSum: reduce_dims are taken from left to right.
SumRows(l, reduce_dims) ==
  LET sorted == SetToSortSeq(reduce_dims, <)
      rank == Len(l.dims)
      over_last == \A i \in DOMAIN sorted : sorted[Len(sorted) + 1 - i] = rank + 1 - i
      reduce_sz == elem_count([i \in DOMAIN sorted |-> l.dims[sorted[i]]])
      Without(idx, d) ==
        (idx \div CountAfter(l.dims, d - 1)) * CountAfter(l.dims, d) + (idx % CountAfter(l.dims, d))
      dst_index(unstr) == FoldLeft(Without, unstr, sorted)
      source == strided_index(l)
      n == elem_count([i \in DOMAIN l.dims |-> IF i \in reduce_dims THEN 1 ELSE l.dims[i]])
  IN  IF is_contiguous(l) /\ over_last
      THEN [i \in 1 .. n |-> Block(l.start_offset + (i - 1) * reduce_sz, reduce_sz)]
      ELSE [i \in 1 .. n |->
             LET Here(u) == dst_index(u - 1) = i - 1
                 mine == SelectSeq([u \in DOMAIN source |-> u], Here)
             IN  [j \in DOMAIN mine |-> source[mine[j]]]]

-----------------------------------------------------------------------------
(* Operations with indexes.  ids holds the indexes in row-major order.     *)

max_value == 255   \* I::max_value(): an index that is passed over

Err == <<-2>>      \* no result

\* Err(InvalidIndex).
InvalidIndex(i, size) == i # max_value /\ i >= size
AnyInvalid(ids, size) == \E k \in DOMAIN ids : InvalidIndex(ids[k], size)

\* Mutant: the size of the dimension is taken from the indexes.
GatherIdsDim(l, ids, ids_dims, dim) ==
  LET right == CountAfter(ids_dims, dim)
      left_i(k) == (k - 1) \div (right * ids_dims[dim])
  IN  IF AnyInvalid(ids, l.dims[dim]) THEN Err
      ELSE [k \in DOMAIN ids |->
        IF ids[k] = max_value THEN None
        ELSE l.start_offset + left_i(k) * CountAfter(l.dims, dim) * ids_dims[dim]
               + ids[k] * CountAfter(l.dims, dim) + ((k - 1) % right)]

\* Gather: None is an element that is set to zero.
Gather(l, ids, ids_dims, dim) ==
  LET right == CountAfter(ids_dims, dim)
      src_right == CountAfter(l.dims, dim)
      left_i(k) == (k - 1) \div (right * ids_dims[dim])
  IN  IF AnyInvalid(ids, l.dims[dim]) THEN Err
      ELSE [k \in DOMAIN ids |->
        IF ids[k] = max_value THEN None
        ELSE l.start_offset + left_i(k) * src_right * l.dims[dim]
               + ids[k] * src_right + ((k - 1) % right)]

\* The checks of Tensor::gather.
gather_checks(dims, ids_dims, dim) ==
  /\ Len(ids_dims) = Len(dims)
  /\ \A i \in DOMAIN dims \ {dim} : dims[i] >= ids_dims[i]

IndexSelect(l, ids, dim) ==
  LET right == CountAfter(l.dims, dim)
      n_ids == Len(ids)
      left_i(k) == (k - 1) \div (right * n_ids)
      i(k) == ((k - 1) \div right) % n_ids
  IN  IF AnyInvalid(ids, l.dims[dim]) THEN Err
      ELSE [k \in 1 .. CountBefore(l.dims, dim) * n_ids * right |->
        IF ids[i(k) + 1] = max_value THEN None
        ELSE l.start_offset + left_i(k) * right * l.dims[dim]
               + ids[i(k) + 1] * right + ((k - 1) % right)]

\* The numbers of S in increasing order: what a loop takes that goes up.
InOrder(S) ==
  [j \in 1 .. Cardinality(S) |-> CHOOSE x \in S : Cardinality({y \in S : y < x}) = j - 1]

\* scatter_checks, and the same check of Tensor::index_add.
scatter_checks(dims, source_dims, dim) ==
  /\ Len(source_dims) = Len(dims)
  /\ \A i \in DOMAIN dims \ {dim} : dims[i] = source_dims[i]

\* Scatter: the elements of the source that each element of a contiguous
\* destination takes, the last one counting for Set and all of them for Add.
\* An invalid index ends it; scatter_set and scatter_add_set, which write to
\* their own tensor, leave there what was written before.
Scatter(dst_dims, ids, ids_dims, dim) ==
  LET right == CountAfter(dst_dims, dim)
      left_i(k) == (k - 1) \div (CountAfter(ids_dims, dim) * ids_dims[dim])
      right_i(k) == (k - 1) % CountAfter(ids_dims, dim)
      dst_idx(k) == left_i(k) * right * dst_dims[dim] + ids[k] * right + right_i(k)
      Bad == {k \in DOMAIN ids : InvalidIndex(ids[k], dst_dims[dim])}
      Done(k) == ids[k] # max_value /\ \A j \in Bad : k < j
  IN  [ok |-> Bad = {},
       taken |-> [p \in 1 .. elem_count(dst_dims) |->
         InOrder({k \in DOMAIN ids : Done(k) /\ dst_idx(k) = p - 1})]]

\* IndexAdd, likewise: ids names a place along dim for every place of the source.
\* The loops are over ids first.
IndexAdd(dst_dims, ids, src_dims, dim) ==
  LET pre == CountBefore(src_dims, dim)
      post == CountAfter(src_dims, dim)
      i(w) == (w - 1) \div (pre * post)
      pre_i(w) == ((w - 1) \div post) % pre
      off(w) == (w - 1) % post
      src_idx(w) == (pre_i(w) * src_dims[dim] + i(w)) * post + off(w)
      dst_idx(w) == (pre_i(w) * dst_dims[dim] + ids[i(w) + 1]) * post + off(w)
      Sources(added) == [j \in DOMAIN added |-> src_idx(added[j]) + 1]
      Added(p) == InOrder({w \in 1 .. Len(ids) * pre * post :
                             ids[i(w) + 1] # max_value /\ dst_idx(w) = p - 1})
  IN  IF AnyInvalid(ids, dst_dims[dim]) THEN Err
      ELSE [p \in 1 .. elem_count(dst_dims) |-> Sources(Added(p))]

-----------------------------------------------------------------------------
(* Product of matrices.                                                    *)

\* The step between the matrices of one operand, None for Err(striding_error).
\* whole is the size of a matrix.
BatchSkip(l, whole) ==
  LET r == Len(l.dims)
      s == l.stride
  IN  CASE r = 2 -> whole
        [] r = 3 -> s[1]
        [] r = 4 /\ (s[1] = s[2] * l.dims[2] \/ l.dims[1] = 1) -> s[2]
        [] r = 4 /\ s[1] # s[2] * l.dims[2] /\ l.dims[1] # 1 /\ l.dims[2] = 1 -> s[1]
        [] OTHER -> None

\* The checks of Tensor::matmul; without elements it returns zeros.
matmul_checks(a_dims, b_dims) ==
  LET r == Len(a_dims)
  IN  /\ r >= 2 /\ Len(b_dims) = r
      /\ a_dims[r] = b_dims[r - 1]
      /\ CountBefore(a_dims, r - 1) = CountBefore(b_dims, r - 1)
      /\ elem_count(a_dims) > 0 /\ elem_count(b_dims) > 0

\* Mutant: the matrices of the other operand need not follow each other.
merged_bmnk_any(b, m, n, k, a_skip, b_skip) ==
  IF b_skip = 0 THEN [b |-> 1, m |-> b * m, n |-> n] ELSE [b |-> b, m |-> m, n |-> n]

\* MatMul::f: one gemm for all the matrices when one operand is repeated and
\* the matrices of the other follow each other, else one per matrix.
merged_bmnk(b, m, n, k, a_skip, b_skip) ==
  CASE b_skip = 0 /\ a_skip = m * k -> [b |-> 1, m |-> b * m, n |-> n]
    [] a_skip = 0 /\ b_skip = n * k /\ ~(b_skip = 0 /\ a_skip = m * k) ->
         [b |-> 1, m |-> m, n |-> b * n]
    [] OTHER -> [b |-> b, m |-> m, n |-> n]

\* The batch, the sizes of the matrices and the steps between them.
bmnk(lhs_l, rhs_l) ==
  LET r == Len(lhs_l.dims)
      m == lhs_l.dims[r - 1]
      k == lhs_l.dims[r]
      n == rhs_l.dims[r]
  IN  [b |-> CountBefore(lhs_l.dims, r - 1), m |-> m, n |-> n, k |-> k,
       a_skip |-> BatchSkip(lhs_l, m * k), b_skip |-> BatchSkip(rhs_l, n * k)]

\* The products that the gemms g sum up in each element of the result, once for
\* every time that it is written.
Gemms(lhs_l, rhs_l, d, g) ==
  LET r == Len(lhs_l.dims)
      Term(t, i, j, q) ==
        <<lhs_l.start_offset + t * d.a_skip + i * lhs_l.stride[r - 1] + q * lhs_l.stride[r],
          rhs_l.start_offset + t * d.b_skip + q * rhs_l.stride[r - 1] + j * rhs_l.stride[r]>>
      Writes(p) ==
        {w \in (0 .. g.b - 1) \X (0 .. g.m - 1) \X (0 .. g.n - 1) :
           w[1] * (d.m * d.n) + w[2] * d.n + w[3] = p - 1}
  IN  [p \in 1 .. d.b * d.m * d.n |->
        {[q \in 1 .. d.k |-> Term(w[1], w[2], w[3], q - 1)] : w \in Writes(p)}]

MergedGemms(lhs_l, rhs_l, d) ==
  Gemms(lhs_l, rhs_l, d, merged_bmnk(d.b, d.m, d.n, d.k, d.a_skip, d.b_skip))

MatMul(lhs_l, rhs_l) == MergedGemms(lhs_l, rhs_l, bmnk(lhs_l, rhs_l))
=============================================================================
