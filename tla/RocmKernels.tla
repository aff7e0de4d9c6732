---------------------------- MODULE RocmKernels ----------------------------
(***************************************************************************)
(* The HIP kernels (src/kernels) and the products of rocBLAS, by the       *)
(* addresses that their threads read for each element of the result.       *)
(* Layouts reach a kernel as an info buffer of dimensions and strides, or  *)
(* as a null pointer for elements that follow each other; the start offset *)
(* is in the pointers.                                                     *)
(***************************************************************************)
EXTENDS CpuStorage

BLOCK == 4   \* bound: 256 threads of a block in the code
Garbage == -4   \* an element, or an address, that could be anything

get_strided_index(idx, dims, strides) ==
  FoldLeft(+, 0, [d \in DOMAIN dims |-> ((idx \div CountAfter(dims, d)) % dims[d]) * strides[d]])

-----------------------------------------------------------------------------
(* Info buffers.                                                           *)

NoInfo == [some |-> FALSE, dims |-> <<>>, strides |-> <<>>]

upload_info(l) == [some |-> ~is_contiguous(l), dims |-> l.dims, strides |-> <<l.stride>>]

upload_binary_info(lhs_l, rhs_l) ==
  [some |-> ~(is_contiguous(lhs_l) /\ is_contiguous(rhs_l)), dims |-> lhs_l.dims,
   strides |-> <<lhs_l.stride, rhs_l.stride>>]

\* The place of element i of operand n relative to its pointer.
ElementAt(info, n, i) == IF info.some THEN get_strided_index(i, info.dims, info.strides[n]) ELSE i

-----------------------------------------------------------------------------
(* Element by element: unary.hip, affine.hip, cast.hip, copy_strided of    *)
(* fill.hip; binary.hip; binary_mixed.hip, which has no strides for rhs.   *)

unary_kernel(numel, info, inp) == [k \in 1 .. numel |-> inp + ElementAt(info, 1, k - 1)]

binary_kernel(numel, info, lhs, rhs) ==
  [k \in 1 .. numel |-> <<lhs + ElementAt(info, 1, k - 1), rhs + ElementAt(info, 2, k - 1)>>]

binary_mixed_kernel(numel, info, lhs, rhs) ==
  [k \in 1 .. numel |-> <<lhs + ElementAt(info, 1, k - 1), rhs + k - 1>>]

where_cond_kernel(numel, info, cond, t, f) ==
  [k \in 1 .. numel |-> LET i == ElementAt(info, 1, k - 1) IN <<cond + i, t + i, f + i>>]

-----------------------------------------------------------------------------
(* reduce.hip: a block for each row, whose threads take every BLOCK-th     *)
(* element and then combine what they have in halves.                      *)

reduce_kernel(out_numel, reduce_size, info, inp) ==
  [p \in 1 .. out_numel |-> [r \in 1 .. reduce_size |->
    inp + ElementAt(info, 1, (p - 1) * reduce_size + r - 1)]]

Halves == <<2, 1>>   \* BLOCK / 2 and so on down to 1

\* fast_argmin and fast_argmax: what each thread keeps (its place in the row
\* from 0, none that it saw being None), then thread 0.
arg_kernel(row, use_min) ==
  LET Better(x, y) == x # None /\ (y = None \/ IF use_min THEN row[x + 1] < row[y + 1]
                                                ELSE row[x + 1] > row[y + 1])
      Mine(tid) == SelectSeq([r \in DOMAIN row |-> r - 1], LAMBDA r : r % BLOCK = tid)
      kept == [tid \in 0 .. BLOCK - 1 |->
        FoldLeft(LAMBDA best, r : IF Better(r, best) THEN r ELSE best, None, Mine(tid))]
      Combine(shr, s) ==
        [tid \in DOMAIN shr |->
          IF tid < s /\ Better(shr[tid + s], shr[tid]) THEN shr[tid + s] ELSE shr[tid]]
  IN  FoldLeft(Combine, kept, Halves)[0]

-----------------------------------------------------------------------------
(* indexing.hip.  Indexes are not compared with the size of the dimension. *)

\* GATHER_OP.
gather_kernel(numel, ids, inp, src_dim_size, ids_dim_size, right_size) ==
  [k \in 1 .. numel |->
    LET left == (k - 1) \div (right_size * ids_dim_size)
    IN  inp + left * src_dim_size * right_size + ids[k] * right_size + ((k - 1) % right_size)]

\* INDEX_SELECT_OP.
index_select_kernel(numel, ids, inp, src_dim_size, ids_dim_size, right_size) ==
  [k \in 1 .. numel |->
    LET ids_idx == ((k - 1) \div right_size) % ids_dim_size
        left == (k - 1) \div (right_size * ids_dim_size)
    IN  inp + left * src_dim_size * right_size + ids[ids_idx + 1] * right_size
          + ((k - 1) % right_size)]

\* INDEX_ADD_OP: the elements of src that are added, atomically, to each of dst.
index_add_kernel(numel, ids, dst_numel, dst_dim_size, ids_dim_size, right_size) ==
  LET dst_i(k) ==
        LET ids_idx == ((k - 1) \div right_size) % ids_dim_size
            left == (k - 1) \div (right_size * ids_dim_size)
        IN  left * dst_dim_size * right_size + ids[ids_idx + 1] * right_size + ((k - 1) % right_size)
  IN  [p \in 1 .. dst_numel |-> SelectSeq([k \in 1 .. numel |-> k], LAMBDA k : dst_i(k) = p - 1)]

-----------------------------------------------------------------------------
(* pool2d.hip and upsample.hip, with padding 0.                            *)

pool2d_kernel(dims, size, stride, out, inp) ==
  LET Window(i) ==
        LET start == <<i[3] * stride[1], i[4] * stride[2]>>
            places == [d \in 1 .. 2 |-> Smaller(start[d] + size[d], dims[d + 2]) - start[d]]
        IN  [w \in 1 .. elem_count(places) |->
              LET o == Counters(w, places)
              IN  inp + ((i[1] * dims[2] + i[2]) * dims[3] + start[1] + o[1]) * dims[4] + start[2] + o[2]]
      out_dims == <<dims[1], dims[2]>> \o out
  IN  [p \in 1 .. elem_count(out_dims) |-> Window(Counters(p, out_dims))]

\* upsample_nearest1d and 2d: dims and out have one or two places more.
upsample_nearest_kernel(dims, out, inp) ==
  LET out_dims == <<dims[1], dims[2]>> \o out
      In(i) == [d \in DOMAIN i |->
        CASE d <= 2 -> i[d]
          [] d > 2 /\ out_dims[d] = 1 -> 0
          [] d > 2 /\ out_dims[d] # 1 -> (i[d] * dims[d]) \div out_dims[d]]
  IN  [p \in 1 .. elem_count(out_dims) |->
        inp + FoldLeft(+, 0, [d \in DOMAIN dims |-> In(Counters(p, out_dims))[d] * CountAfter(dims, d)])]

\* ix0, ix1 and lx over the denominator of the position; lx is taken after ix0
\* has been clamped, and may be negative where both neighbours are the first.
bilinear_neighbours(pos, n) ==
  LET floor == pos.num \div pos.den
      i0 == IF floor < 0 THEN 0 ELSE floor
  IN  [i0 |-> i0, i1 |-> Smaller(floor + 1, n - 1), weight |-> pos.num - i0 * pos.den, den |-> pos.den]

upsample_bilinear2d_kernel(dims, out, align_corners, inp) ==
  LET out_dims == <<dims[1], dims[2]>> \o out
      Pos(o, n, m) ==
        CASE align_corners -> IF m = 1 THEN Ratio(0, 1) ELSE Ratio(o * (n - 1), m - 1)
          [] OTHER -> Ratio((2 * o + 1) * n - m, 2 * m)
      Four(i) ==
        LET y == bilinear_neighbours(Pos(i[3], dims[3], out[1]), dims[3])
            x == bilinear_neighbours(Pos(i[4], dims[4], out[2]), dims[4])
            base == inp + (i[1] * dims[2] + i[2]) * dims[3] * dims[4]
            Term(iy, ix, weight) == [at |-> base + iy * dims[4] + ix, weight |-> weight]
        IN  <<Term(y.i0, x.i0, (y.den - y.weight) * (x.den - x.weight)),
              Term(y.i0, x.i1, (y.den - y.weight) * x.weight),
              Term(y.i1, x.i0, y.weight * (x.den - x.weight)),
              Term(y.i1, x.i1, y.weight * x.weight)>>
  IN  [p \in 1 .. elem_count(out_dims) |-> Four(Counters(p, out_dims))]

-----------------------------------------------------------------------------
(* conv2d.hip and rocBLAS.                                                 *)

Zero == -3   \* an element of the border
\* im2col: the writes of the threads, one for each place of the result of each
\* image.  The image is not part of the place that is written: threads of
\* different images race for it, and any of them may be the last.
im2col_writes(dims, ker, out, q, inp) ==
  LET cols == elem_count(out)
      rounds == <<dims[1]>> \o out \o <<dims[2]>> \o ker
      Write(i) ==
        LET s == Under(<<i[2], i[3]>>, <<i[5], i[6]>>, q)
            row == (i[4] * ker[1] + i[5]) * ker[2] + i[6]
        IN  [col_idx |-> row * cols + i[2] * out[2] + i[3],
             val |-> IF Outside(s, <<dims[3], dims[4]>>, q) THEN Zero
                     ELSE inp + ((i[1] * dims[2] + i[4]) * dims[3] + s[1] - q.padding) * dims[4]
                            + s[2] - q.padding]
  IN  {Write(Counters(r, rounds)) : r \in 1 .. elem_count(rounds)}

\* gemm_strided_batched, without transposes: the products of a batch, in order.
gemm_strided_batched(b, m, n, k, a, lda, stride_a, b_ptr, ldb, stride_b, ldc) ==
  FlattenSeq([s \in 1 .. b |->
    gemm(FALSE, FALSE, m, n, k, a + (s - 1) * stride_a, lda, b_ptr + (s - 1) * stride_b, ldb, ldc)])
=============================================================================
