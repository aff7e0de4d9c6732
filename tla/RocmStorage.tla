---------------------------- MODULE RocmStorage ----------------------------
(***************************************************************************)
(* The operations of RocmStorage (rocm_backend/storage.rs): each launches  *)
(* a kernel for some dtypes and layouts, and for the others downloads its  *)
(* storages, runs the CPU backend and uploads the result.                  *)
(***************************************************************************)
EXTENDS RocmKernels

\* bytes_to_cpu_storage panics for the others.
Downloaded == {"U8", "U32", "I64", "BF16", "F16", "F32", "F64", "F8E4M3", "F8E8M0"}

Strided == {"F32", "F16"}             \* copy_strided
Halved == {"F32", "F16", "BF16"}      \* unary, binary, reduce

-----------------------------------------------------------------------------
(* Falling back to the CPU, on storages of the given dtypes.               *)

cpu_fallback(t, result) == IF t \in Downloaded THEN result ELSE Failed

\* What cpu_fallback_binary gives the CPU backend instead of BF16.
AsF32(t) == IF t = "BF16" THEN "F32" ELSE t

\* result is that of the CPU on AsF32(t) and AsF32(rhs_t).
cpu_fallback_binary(t, rhs_t, lhs_count, result) ==
  CASE ~({t, rhs_t} \subseteq Downloaded /\ result.ok) -> Failed
    [] {t, rhs_t} \subseteq Downloaded /\ result.ok /\ t # "BF16" -> result
    [] {t, rhs_t} \subseteq Downloaded /\ result.ok /\ t = "BF16" /\ rhs_t \in {"BF16", "F32"} ->
         Only(result.t = "F32", "BF16", result.val)
    [] {t, rhs_t} \subseteq Downloaded /\ result.ok /\ t = "BF16" /\ rhs_t \notin {"BF16", "F32"} ->
         IF result.t = "F32" THEN Only(Len(result.val) <= lhs_count, "BF16", result.val) ELSE result

cpu_fallback_ternary(ts, result) == IF ts \subseteq Downloaded THEN result ELSE Failed

-----------------------------------------------------------------------------
(* Copies.                                                                 *)

\* The kernel copy_strided has its info from all layouts.
copy_strided(l) ==
  unary_kernel(elem_count(l.dims), [some |-> TRUE, dims |-> l.dims, strides |-> <<l.stride>>],
               l.start_offset)

\* The addresses that the new storage is copied from: of the elements, or, for
\* strided layouts of other dtypes, of the whole storage.
rocm_try_clone(t, storage, l) ==
  CASE is_contiguous(l) -> Done(t, Block(l.start_offset, elem_count(l.dims)))
    [] ~is_contiguous(l) /\ t \in Strided -> Done(t, copy_strided(l))
    [] ~is_contiguous(l) /\ t \notin Strided -> cpu_fallback(t, Done(t, cpu_try_clone(storage)))

rocm_reshape(t, storage, l) == rocm_try_clone(t, storage, l)

\* hipMemcpy and copy_strided do not look at the size of dst.
rocm_copy_strided_src(t, dst_t, src, dst, dst_offset, l) ==
  LET at == IF is_contiguous(l) THEN Block(l.start_offset, elem_count(l.dims)) ELSE copy_strided(l)
  IN  IF t \in Strided
      THEN Done(dst_t, Overwritten(dst, dst_offset, [k \in DOMAIN at |-> src[at[k] + 1]]))
      ELSE cpu_fallback_ternary({t, dst_t}, cpu_copy_strided_src(t, dst_t, src, dst, dst_offset, l))

\* copy2d_f32 has a thread for each element.
rocm_copy2d(t, dst_t, src, dst, d1, d2, src_s, dst_s, src_o, dst_o) ==
  LET Place(k) == dst_o + ((k - 1) \div d2) * dst_s + ((k - 1) % d2)
      Value(k) == src[src_o + ((k - 1) \div d2) * src_s + ((k - 1) % d2) + 1]
      At(i) == {k \in 1 .. d1 * d2 : Place(k) = i - 1}
  IN  IF t = "F32"
      THEN Done(dst_t, [i \in DOMAIN dst |->
             IF At(i) = {} THEN dst[i] ELSE Value(CHOOSE k \in At(i) : TRUE)])
      ELSE cpu_fallback_ternary({t, dst_t},
             cpu_copy2d(t, dst_t, src, dst, d1, d2, src_s, dst_s, src_o, dst_o))

rocm_const_set(t, s_t, storage, l, s) == cpu_fallback(t, cpu_const_set(t, s_t, storage, l, s))

-----------------------------------------------------------------------------
(* Element by element.                                                     *)

rocm_unary(l) == unary_kernel(elem_count(l.dims), upload_info(l), l.start_offset)

rocm_binary(lhs_l, rhs_l) ==
  binary_kernel(elem_count(lhs_l.dims), upload_binary_info(lhs_l, rhs_l),
                lhs_l.start_offset, rhs_l.start_offset)

rocm_affine(t, l) == IF t = "F32" THEN Done(t, rocm_unary(l)) ELSE cpu_fallback(t, cpu_affine(t, l))
rocm_powf(t, l) == IF t = "F32" THEN Done(t, rocm_unary(l)) ELSE cpu_fallback(t, cpu_powf(t, l))
rocm_elu(t, l) == IF t = "F32" THEN Done(t, rocm_unary(l)) ELSE cpu_fallback(t, cpu_elu(t, l))

rocm_unary_impl(t, l) ==
  IF t \in Halved THEN Done(t, rocm_unary(l)) ELSE cpu_fallback(t, cpu_unary_impl(t, l))

CastKernels ==
  {<<"F32", "U8">>, <<"F32", "U32">>, <<"F32", "I64">>, <<"F32", "F64">>, <<"U8", "F32">>,
   <<"U32", "F32">>, <<"I64", "F32">>, <<"F64", "F32">>, <<"U32", "I64">>, <<"I64", "U32">>,
   <<"U8", "U32">>, <<"U32", "U8">>, <<"F16", "F32">>, <<"F32", "F16">>, <<"BF16", "F32">>,
   <<"F32", "BF16">>, <<"BF16", "F16">>, <<"F16", "BF16">>}

rocm_to_dtype(t, storage, l, dtype) ==
  CASE t = dtype -> rocm_try_clone(t, storage, l)
    [] t # dtype /\ <<t, dtype>> \in CastKernels -> Done(dtype, rocm_unary(l))
    [] t # dtype /\ <<t, dtype>> \notin CastKernels -> cpu_fallback(t, cpu_to_dtype(t, l, dtype))

rocm_cmp(t, rhs_t, lhs_l, rhs_l) ==
  IF t = "F32" THEN Done("U8", rocm_binary(lhs_l, rhs_l))
  ELSE cpu_fallback_binary(t, rhs_t, elem_count(lhs_l.dims),
                           cpu_cmp(AsF32(t), AsF32(rhs_t), lhs_l, rhs_l))

Mixed == {"mul", "add", "sub"}

\* The cast of a F32 operand for a BF16 one is launched with pointers where the
\* places of pointers are wanted: its result could be anything.
rocm_binary_impl(op, t, rhs_t, lhs_l, rhs_l) ==
  LET n == elem_count(lhs_l.dims)
  IN  CASE t = "BF16" /\ rhs_t = "F32" /\ op \in Mixed ->
             Done("BF16", binary_mixed_kernel(n, upload_info(lhs_l), lhs_l.start_offset, rhs_l.start_offset))
        [] t = "F32" /\ rhs_t = "BF16" ->
             LET pairs == rocm_binary(lhs_l, rhs_l)
             IN  Done("BF16", [k \in DOMAIN pairs |-> <<Garbage, pairs[k][2]>>])
        [] t = rhs_t /\ t \in Halved -> Done(t, rocm_binary(lhs_l, rhs_l))
        [] OTHER -> cpu_fallback_binary(t, rhs_t, n,
                      cpu_binary_impl(AsF32(t), AsF32(rhs_t), lhs_l, rhs_l, FALSE))

SizeInBytes(t) ==
  CASE t = "U8" -> 1 [] t = "I16" -> 2 [] t \in {"U32", "I32"} -> 4 [] t = "I64" -> 8

\* On the GPU a condition is read byte by byte: of a condition that is not made
\* of bytes, the element that the byte belongs to.
rocm_where_cond(cond_t, l, t, t_l, rhs_t, f_l) ==
  IF t = "F32" /\ \A x \in {l, t_l, f_l} : is_contiguous(x)
  THEN LET reads == where_cond_kernel(elem_count(l.dims), NoInfo, l.start_offset,
                                      t_l.start_offset, f_l.start_offset)
       IN  Done("F32", [k \in DOMAIN reads |->
                          <<reads[k][1] \div SizeInBytes(cond_t), reads[k][2], reads[k][3]>>])
  ELSE cpu_fallback_ternary({cond_t, t, rhs_t}, cpu_where_cond(cond_t, l, t, t_l, rhs_t, f_l))

-----------------------------------------------------------------------------
(* Reductions, windows, indexes.                                           *)

\* reduce_info: the dimensions that stay, then those that are reduced.
\* Mutant: the dimensions keep their order.
reduce_info_in_order(l, reduce_dims) ==
  LET size(ds) == elem_count([i \in DOMAIN ds |-> l.dims[ds[i]]])
      all == [d \in DOMAIN l.dims |-> d]
  IN  [info |-> [some |-> TRUE, dims |-> l.dims, strides |-> <<l.stride>>],
       out_numel |-> size(SelectSeq(all, LAMBDA d : d \notin reduce_dims)),
       reduce_size |-> size(SelectSeq(all, LAMBDA d : d \in reduce_dims))]

reduce_info(l, reduce_dims) ==
  LET all == [d \in DOMAIN l.dims |-> d]
      nr == SelectSeq(all, LAMBDA d : d \notin reduce_dims)
      r == SelectSeq(all, LAMBDA d : d \in reduce_dims)
      order == nr \o r
      size(ds) == LET n == elem_count([i \in DOMAIN ds |-> l.dims[ds[i]]]) IN IF n = 0 THEN 1 ELSE n
  IN  [info |-> [some |-> TRUE, dims |-> [i \in DOMAIN order |-> l.dims[order[i]]],
                 strides |-> <<[i \in DOMAIN order |-> l.stride[order[i]]]>>],
       out_numel |-> size(nr), reduce_size |-> size(r)]

\* The rows that are combined.  Sums, minima and maxima come as F32.
rocm_reduce_op(op, t, l, reduce_dims) ==
  LET i == reduce_info(l, reduce_dims)
      return_index == op \in {"argmin", "argmax"}
  IN  CASE t \in Halved ->
             Done(IF return_index THEN "U32" ELSE "F32",
                  reduce_kernel(i.out_numel, i.reduce_size, i.info, l.start_offset))
        [] t \notin Halved /\ op = "sum" -> cpu_fallback(t, cpu_reduce_sum(t, l, reduce_dims))
        [] t \notin Halved /\ op # "sum" ->
             cpu_fallback(t, cpu_reduce_min_max(t, l, reduce_dims, return_index))

\* avg_pool2d and max_pool2d.
rocm_pool2d(t, l, size, stride) ==
  IF t = "F32" /\ is_contiguous(l)
  THEN Done(t, pool2d_kernel(l.dims, size, stride, SubSeq(PoolDims(l, size, stride), 3, 4), l.start_offset))
  ELSE cpu_fallback(t, cpu_pool2d(t, l, size, stride))

\* upsample_nearest1d and upsample_nearest2d.
rocm_upsample_nearest(t, l, target) ==
  IF t = "F32" /\ is_contiguous(l)
  THEN Done(t, upsample_nearest_kernel(l.dims, target, l.start_offset))
  ELSE cpu_fallback(t, cpu_upsample_nearest(t, l, target))

rocm_upsample_bilinear2d(t, storage_len, l, target, align_corners, factors) ==
  IF t = "F32" /\ is_contiguous(l) /\ factors = <<NoFactor, NoFactor>>
  THEN Done(t, upsample_bilinear2d_kernel(l.dims, target, align_corners, l.start_offset))
  ELSE cpu_fallback(t, cpu_upsample_bilinear2d(t, l, storage_len, target, align_corners, factors))

KernelIds == {"U32", "I64"}

\* A kernel reads its indexes one after the other.
IdsFrom(ids, ids_l) ==
  [k \in 1 .. elem_count(ids_l.dims) |-> ids[ids_l.start_offset + k]]

rocm_gather(t, l, ids_t, ids, ids_l, dim) ==
  IF t = "F32" /\ is_contiguous(l) /\ is_contiguous(ids_l)
  THEN Only(ids_t \in KernelIds, t,
            gather_kernel(elem_count(ids_l.dims), IdsFrom(ids, ids_l), l.start_offset,
                          l.dims[dim], ids_l.dims[dim], CountAfter(l.dims, dim)))
  ELSE cpu_fallback_binary(t, ids_t, elem_count(l.dims), cpu_gather(AsF32(t), l, ids_t, ids, ids_l, dim))

rocm_index_select(t, l, ids_t, ids, ids_l, dim) ==
  LET right_size == CountAfter(l.dims, dim)
      n == ids_l.dims[1]
  IN  IF t \in Halved /\ is_contiguous(l) /\ is_contiguous(ids_l)
      THEN Only(ids_t \in KernelIds, t,
                index_select_kernel(CountBefore(l.dims, dim) * n * right_size, IdsFrom(ids, ids_l),
                                    l.start_offset, l.dims[dim], n, right_size))
      ELSE cpu_fallback_binary(t, ids_t, elem_count(l.dims),
                               cpu_index_select(AsF32(t), l, ids_t, ids, ids_l, dim))

\* On a clone of the tensor; the order of the additions is that of the threads.
rocm_index_add(t, storage, l, ids_t, ids, ids_l, src_l, dim) ==
  LET Of(base) ==
        AddedTo(base, index_add_kernel(elem_count(src_l.dims), IdsFrom(ids, ids_l), Len(base), l.dims[dim],
                                       ids_l.dims[1], CountAfter(src_l.dims, dim)), src_l.start_offset)
  IN  IF t = "F32" /\ \A x \in {l, ids_l, src_l} : is_contiguous(x)
      THEN Only(ids_t \in KernelIds, t, Of(rocm_try_clone(t, storage, l).val))
      ELSE cpu_fallback_ternary({t, ids_t}, cpu_index_add(t, l, ids_t, ids, ids_l, src_l, dim))

\* scatter_set and scatter_add_set write to a copy: a failure leaves the tensor
\* as it was.
Unless(s) == IF s.ok THEN s ELSE [s EXCEPT !.val = [p \in DOMAIN s.val |-> <<>>]]
NoneTaken(t, l) == [ok |-> FALSE, t |-> t, val |-> [p \in 1 .. elem_count(l.dims) |-> <<>>]]

rocm_scatter_set(t, l, ids_t, ids, ids_l, src_l, dim) ==
  IF {t, ids_t} \subseteq Downloaded THEN Unless(cpu_scatter_set(t, l, ids_t, ids, ids_l, src_l, dim))
  ELSE NoneTaken(t, l)

rocm_scatter_add_set(t, l, ids_t, ids, ids_l, src_l, dim) ==
  IF {t, ids_t} \subseteq Downloaded THEN Unless(cpu_scatter_add_set(t, l, ids_t, ids, ids_l, src_l, dim))
  ELSE NoneTaken(t, l)

-----------------------------------------------------------------------------
(* Products.                                                               *)

\* The address, in the storage of rhs, of what a clone has at a.
ClonedFrom(t, l, a) ==
  LET at == rocm_try_clone(t, <<>>, l).val
  IN  CASE ~is_contiguous(l) /\ t \notin Strided -> a
        [] OTHER -> IF a < Len(at) THEN at[a + 1] ELSE Garbage

\* The product of operands that are read as if they were contiguous.
rocm_gemm(t, lhs_l, rhs_l) ==
  LET r == Len(lhs_l.dims)
      b == CountBefore(lhs_l.dims, r - 1)
      m == lhs_l.dims[r - 1]
      k == lhs_l.dims[r]
      n == rhs_l.dims[r]
  IN  Done(t, Swapped(gemm_strided_batched(b, n, m, k, rhs_l.start_offset, n, k * n,
                                           lhs_l.start_offset, k, m * k, n)))

\* matmul_non_contiguous_bf16 and _f16: the copy of lhs is made but not used,
\* and the layout of the copy of rhs has the offset of the original.
matmul_non_contiguous(t, lhs_l, rhs_l) ==
  LET Of(product) ==
        [p \in DOMAIN product |->
          {[q \in DOMAIN s |-> <<s[q][1], ClonedFrom(t, rhs_l, s[q][2])>>] : s \in product[p]}]
  IN  Done(t, Of(rocm_gemm(t, contiguous_with_offset(lhs_l.dims, lhs_l.start_offset),
                           contiguous_with_offset(rhs_l.dims, rhs_l.start_offset)).val))

\* The kernel that is looked up for BF16 by indexes does not exist.
rocm_matmul(t, rhs_t, lhs_l, rhs_l) ==
  LET whole == is_contiguous(lhs_l) /\ is_contiguous(rhs_l)
      by_index == t = "BF16" /\ rhs_t \in KernelIds /\ whole
  IN  CASE by_index -> Failed
        [] ~by_index /\ t = rhs_t /\ t \in Halved /\ whole -> rocm_gemm(t, lhs_l, rhs_l)
        [] ~by_index /\ t = rhs_t /\ t \in {"BF16", "F16"} /\ ~whole ->
             matmul_non_contiguous(t, lhs_l, rhs_l)
        [] OTHER -> cpu_fallback_binary(t, rhs_t, elem_count(lhs_l.dims),
                                        cpu_matmul(AsF32(t), AsF32(rhs_t), lhs_l, rhs_l))

-----------------------------------------------------------------------------
(* Convolutions.                                                           *)

IM2COL_LIMIT == 16   \* bound: 128 MB in the code, elements here

\* conv2d by im2col and one gemm.  An element of the result is definite if
\* every place of the columns that it reads is written with one value, and
\* dilation is taken to be 1.  The images are not apart in the result.
DefiniteSums(product, col) ==
  LET Terms(s) ==
        SelectSeq([j \in DOMAIN s |-> <<CHOOSE v \in col[s[j][1]] : TRUE, s[j][2]>>], LAMBDA x : x[1] # Zero)
      Definite(s) == \A j \in DOMAIN s : Cardinality(col[s[j][1]]) = 1
  IN  [p \in DOMAIN product |-> IF Definite(product[p]) THEN {Terms(product[p])} ELSE {}]

\* The values that are written to each of n places.
Col(writes, n) == [a \in 0 .. n - 1 |-> {w.val : w \in {x \in writes : x.col_idx = a}}]

rocm_conv2d_gemm(t, inp_dims, start_offset, k_dims, k_offset, q, out) ==
  LET undilated == [q EXCEPT !.dilation = 1]
      col_rows == CountAfter(k_dims, 1)
      col_cols == inp_dims[1] * elem_count(out)
  IN  Done(t, DefiniteSums(
        gemm(FALSE, FALSE, col_cols, k_dims[1], col_rows, 0, col_cols, k_offset, col_rows, col_cols),
        Col(im2col_writes(inp_dims, SubSeq(k_dims, 3, 4), out, undilated, start_offset), col_rows * col_cols)))

rocm_conv2d(t, k_t, l, k_l, k_len, q) ==
  LET out == OutLens(l, k_l, q)
      col == CountAfter(k_l.dims, 1) * l.dims[1] * elem_count(out)
  IN  IF t \in Strided /\ t = k_t /\ is_contiguous(l) /\ is_contiguous(k_l) /\ col <= IM2COL_LIMIT
      THEN rocm_conv2d_gemm(t, l.dims, l.start_offset, k_l.dims, k_l.start_offset, q, out)
      ELSE cpu_fallback_binary(t, k_t, elem_count(l.dims),
                               cpu_conv2d(AsF32(t), AsF32(k_t), l, k_l, k_len, q))

\* conv1d as a conv2d of images and kernels of one row: padding is added, and
\* stride taken, in both dimensions, and the first elements of the result are
\* kept.  Falling back there fails for the layout has three dimensions.
rocm_conv1d(t, k_t, l, k_l, k_len, q) ==
  LET row(x) == <<x.dims[1], x.dims[2], 1, x.dims[3]>>
      out == [d \in 1 .. 2 |-> out_len(row(l)[d + 2], row(k_l)[d + 2], q)]
      col == CountAfter(k_l.dims, 1) * l.dims[1] * elem_count(out)
      whole == rocm_conv2d_gemm(t, row(l), l.start_offset, row(k_l), k_l.start_offset, q, out)
      n == l.dims[1] * k_l.dims[1] * OutLens(l, k_l, q)[1]
  IN  IF t \in Strided /\ is_contiguous(l) /\ is_contiguous(k_l) /\ q.dilation = 1
      THEN IF t = k_t /\ col <= IM2COL_LIMIT THEN Done(t, SubSeq(whole.val, 1, n)) ELSE Failed
      ELSE cpu_fallback_ternary({t, k_t}, cpu_conv1d(t, k_t, l, k_l, k_len, q))

\* conv_transpose1d and conv_transpose2d.
rocm_conv_transpose(t, k_t, l, k_l, q) ==
  cpu_fallback_ternary({t, k_t},
    IF Len(l.dims) = 3 THEN cpu_conv_transpose1d(t, k_t, l, k_l, q)
    ELSE cpu_conv_transpose2d(t, k_t, l, k_l, q))
=============================================================================
