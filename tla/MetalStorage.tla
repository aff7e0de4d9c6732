---------------------------- MODULE MetalStorage ----------------------------
(***************************************************************************)
(* The operations of MetalStorage (metal_backend/mod.rs): the dtypes each  *)
(* has a kernel for, and which layouts, strides and offsets it passes on.  *)
(* The kernels are those of the crate candle-metal-kernels: they are taken *)
(* to read what their arguments name, without gaps where they are given no *)
(* strides and from the begin of a buffer where they are given no offset.  *)
(***************************************************************************)
EXTENDS CudaStorage

MetalFloats == {"F32", "F16", "BF16"}
MetalTypes == MetalFloats \cup {"U8", "U32", "I64"}
ImageTypes == MetalTypes \ {"I64"}


\* BufferOffset: where in the buffer a kernel begins.
buffer_o(l) == l.start_offset

\* A kernel on the elements of l: the contiguous one, or the strided one.
MetalReads(l) ==
  unary_kernel(elem_count(l.dims), params_from_layout(l), buffer_o(l))

-----------------------------------------------------------------------------
(* Element by element.                                                     *)

metal_affine(t, l) == Only(t \in MetalTypes, t, MetalReads(l))
metal_powf(t, l) == Only(t \in MetalFloats, t, MetalReads(l))
metal_elu(t, l) == Only(t \in MetalFloats, t, MetalReads(l))

\* I64: usign, for a contiguous layout.
metal_unary_impl(op, t, l) ==
  Only(t \in MetalFloats \/ (op = "usign" /\ t = "I64" /\ is_contiguous(l)), t, MetalReads(l))

metal_to_dtype(t, l, dtype) ==
  Only(t # dtype /\ {t, dtype} \subseteq MetalTypes, dtype, MetalReads(l))

\* The kernels "", _rstrided, _lstrided and _strided: an operand that is
\* contiguous is read without its strides.  The kernel is the one for the dtype of
\* lhs: of another dtype, the bytes of rhs are taken for elements of that one.
metal_binary(t, rhs_t, lhs_l, rhs_l) ==
  Only(t \in MetalTypes, t,
       zip(MetalReads(lhs_l),
           IF t = rhs_t THEN MetalReads(rhs_l) ELSE [k \in 1 .. elem_count(lhs_l.dims) |-> Garbage]))

metal_binary_impl(t, rhs_t, lhs_l, rhs_l) == metal_binary(t, rhs_t, lhs_l, rhs_l)

metal_cmp(t, rhs_t, lhs_l, rhs_l) ==
  [metal_binary(t, rhs_t, lhs_l, rhs_l) EXCEPT !.t = IF t \in MetalTypes THEN "U8" ELSE "none"]

metal_where_cond(cond_t, l, t, t_l, rhs_t, f_l) ==
  LET reads == <<MetalReads(l), MetalReads(t_l), MetalReads(f_l)>>
      named == (cond_t = "U8" /\ t \in MetalTypes) \/ <<cond_t, t>> = <<"U32", "F32">>
  IN  Only(t = rhs_t /\ named, t,
           [k \in 1 .. elem_count(t_l.dims) |-> <<reads[1][k], reads[2][k], reads[3][k]>>])

-----------------------------------------------------------------------------
(* Copies.                                                                 *)

\* The buffer of the original, which both storages hold.
metal_try_clone(t, storage) == Done(t, storage)

metal_to_cpu_storage(t, storage) == Only(t \notin Dummies, t, storage)

\* A blit of the elements, or the kernel for the dtype of src.
metal_copy_strided_src(t, dst_t, src, dst, dst_offset, l) ==
  LET at == MetalReads(l)
      blit == is_contiguous(l) /\ t = dst_t
  IN  CASE ~blit /\ elem_count(l.dims) = 0 -> Done(dst_t, dst)
        [] blit \/ elem_count(l.dims) # 0 ->
             Only(blit \/ t \in MetalTypes, dst_t,
                  [i \in DOMAIN dst |-> IF i - dst_offset \in DOMAIN at
                                        THEN src[at[i - dst_offset] + 1] ELSE dst[i]])

metal_copy2d(t, dst_t, src, dst, d1, d2, src_s, dst_s, src_o, dst_o) ==
  LET r == cuda_copy2d(t, t, src, dst, d1, d2, src_s, dst_s, src_o, dst_o)
      blit == src_s = d2 /\ dst_s = d2
  IN  CASE t # dst_t -> Failed
        [] t = dst_t /\ blit -> Done(t, [i \in DOMAIN dst |->
             IF i > dst_o /\ i <= dst_o + d1 * d2 THEN src[src_o + i - dst_o] ELSE dst[i]])
        [] t = dst_t /\ ~blit ->
             IF d1 * d2 = 0 \/ t \in MetalTypes THEN Done(t, r.val) ELSE Failed

metal_const_set(t, s_t, storage, l, s) ==
  Only(t = s_t /\ t \in MetalTypes, t,
       [i \in DOMAIN storage |-> IF i - 1 \in ToSet(MetalReads(l)) THEN s ELSE storage[i]])

-----------------------------------------------------------------------------
(* Reductions, indexes, products.                                          *)

\* The dimensions that go are put last; if they were, and nothing is strided,
\* the kernel for contiguous rows reads rows that follow each other.
metal_reduce_op(op, t, l, sum_dims) ==
  LET order == SelectSeq([d \in DOMAIN l.dims |-> d], LAMBDA d : ~Contains(sum_dims, d)) \o sum_dims
      dims == [i \in DOMAIN order |-> l.dims[order[i]]]
      stride == [i \in DOMAIN order |-> l.stride[order[i]]]
      whole == is_contiguous(l) /\ is_contiguous(Layout(dims, stride, 0))
      dst_el == CountBefore(dims, Len(order) - Len(sum_dims) + 1)
      info == [some |-> ~whole, dims |-> dims, strides |-> <<stride>>]
  IN  IF t \in MetalTypes /\ (op # "sum" => elem_count(l.dims) # 0)
      THEN Done(IF op \in {"argmin", "argmax"} THEN "U32" ELSE t,
                reduce_kernel(dst_el, IF dst_el = 0 THEN 0 ELSE elem_count(l.dims) \div dst_el,
                              info, buffer_o(l)))
      ELSE Failed

\* The strides of the tensor are not passed on, nor looked at.
metal_gather(t, l, ids_t, ids, ids_l, dim) ==
  LET at == IdsInOrder(ids, ids_l)
      named == ids_t \in CudaIds /\ t \in (IF ids_t = "U8" THEN MetalTypes ELSE MetalTypes \ {"U8"})
  IN  Only(is_contiguous(ids_l) /\ named, t,
           gather_kernel(elem_count(ids_l.dims), at, buffer_o(l), l.dims[dim], ids_l.dims[dim],
                         CountAfter(l.dims, dim)))

\* scatter_set and scatter_add_set; the dtype of the source is not looked at.
ScatterKernels(ids_t, t, adds) ==
  ids_t \in CudaIds /\ (t \in MetalFloats \/ (~adds /\ ids_t = "U32" /\ t = "U32"))

metal_scatter_set(t, l, ids_t, ids, ids_l, src_l, dim) ==
  Only(AllWhole({l, ids_l, src_l}) /\ ScatterKernels(ids_t, t, FALSE), t,
       LastOnes(cuda_scatter_kernel(l, IdsInOrder(ids, ids_l), ids_l, src_l, dim)))

metal_scatter_add_set(t, l, ids_t, ids, ids_l, src_l, dim) ==
  Only(AllWhole({l, ids_l, src_l}) /\ ScatterKernels(ids_t, t, TRUE), t,
       cuda_scatter_kernel(l, IdsInOrder(ids, ids_l), ids_l, src_l, dim))

\* A tensor that is not contiguous is read by its strides.
metal_index_select(t, l, ids_t, ids, ids_l, dim) ==
  LET right_size == CountAfter(l.dims, dim)
      n == elem_count(ids_l.dims)
      at == index_select_kernel(CountBefore(l.dims, dim) * n * right_size, IdsInOrder(ids, ids_l), 0,
                                l.dims[dim], n, right_size)
      info == params_from_layout(l)
  IN  Only(is_contiguous(ids_l) /\ ids_t \in CudaIds /\ t \in MetalTypes, t,
           [p \in DOMAIN at |-> buffer_o(l) + ElementAt(info, 1, at[p])])

\* On a copy without gaps, from its begin.
metal_index_add(t, l, ids_t, ids, ids_l, src_l, dim) ==
  Only(AllWhole({ids_l, src_l}) /\ ids_t \in CudaIds /\ t \in MetalTypes, t,
       AddedTo(MetalReads(l),
               index_add_kernel(elem_count(src_l.dims), IdsInOrder(ids, ids_l), elem_count(l.dims),
                                l.dims[dim], src_l.dims[dim], CountAfter(src_l.dims, dim)),
               buffer_o(src_l)))

\* The product call_mlx_gemm, taken to accept the operands that cuBLAS accepts;
\* the dtype of rhs is not looked at.
metal_matmul(t, lhs_l, rhs_l) ==
  IF t \in MetalFloats THEN cuda_gemm(t, lhs_l, rhs_l) ELSE Failed

-----------------------------------------------------------------------------
(* Windows and convolutions.                                               *)

\* avg_pool2d and max_pool2d: the kernel gets the buffer without an offset.
metal_pool2d(t, l, size, stride) ==
  Only(t \in ImageTypes, t, PoolWindows([l EXCEPT !.start_offset = 0], size, stride))

metal_upsample_nearest(t, l, target) ==
  IF Len(target) = 1 THEN Failed ELSE Only(t \in ImageTypes, t, UpsampleNearest(l, target))

metal_upsample_bilinear2d(t, l, target, align_corners, factors) ==
  Only(t \in ImageTypes, t, BilinearTaps(l, target, align_corners, factors))

\* conv1d and conv2d: im2col and a product for each image, with the kernel
\* repeated.  A copy is made of a kernel that is not contiguous, and not used.
metal_conv(t, l, k_l, q) ==
  LET out == OutLens(l, k_l, q)
      b == l.dims[1]
      m == elem_count(out)
      n == k_l.dims[1]
      k == CountAfter(k_l.dims, 1)
      kernel_l == broadcast_as(transpose(contiguous_with_offset(<<1, n, k>>, k_l.start_offset), 2, 3), <<b, k, n>>)
  IN  ImagesOf(metal_matmul(t, contiguous_with_offset(<<b, m, k>>, 0), kernel_l), b, out, n,
               Im2Col(l, Spatial(k_l), q))

metal_conv1d(t, l, k_l, q) == metal_conv(t, l, k_l, q)
metal_conv2d(t, l, k_l, q) == metal_conv(t, l, k_l, q)

\* A product of the transposed images and the kernel as a matrix, and col2im1d;
\* or the kernel that goes by the strides.
metal_conv_transpose1d(t, l, k_l, q) ==
  IF can_use_col2im(k_l, q)
  THEN cuda_Col2Im1D(metal_matmul(t, transpose(l, 2, 3), kernel_l_mm(l, k_l)), l, k_l, q)
  ELSE Only(t \in ImageTypes, t, ConvTransposeDirect(l, k_l, q))

metal_conv_transpose2d(t, l, k_l, q) == Only(t \in MetalFloats, t, ConvTransposeDirect(l, k_l, q))
=============================================================================
