---------------------------- MODULE CudaStorage ----------------------------
(***************************************************************************)
(* The operations of CudaStorage (cuda_backend/mod.rs) and the traits that *)
(* choose a kernel by dtype (cuda_backend/utils.rs): what each passes to   *)
(* its kernel.  The kernels are those of the crate candle-kernels; they    *)
(* are taken to read the addresses that the kernels of RocmKernels, their  *)
(* translation to HIP, and of the CPU backend read for such arguments.     *)
(***************************************************************************)
EXTENDS RocmKernels

CudaMap1(t, val) == Only(t \notin Dummies, t, val)
CudaMap1Any(t, dst_t, val) == Only(t \notin Dummies, dst_t, val)
CudaMap2(t, rhs_t, val) == Only(t = rhs_t /\ t \notin Dummies, t, val)
CudaMap2Any(t, rhs_t, val) == Only(t = rhs_t /\ t \notin Dummies \cup {"I16", "I32"}, "U8", val)
CudaMap2InPlace(t, rhs_t) == t = rhs_t /\ t \notin Dummies

params_from_layout(l) == [some |-> ~is_contiguous(l), dims |-> l.dims, strides |-> <<l.stride>>]

\* clone_htod(&[dims, stride, ..].concat()): without a look at the layouts.
InfoOf(l, strides) == [some |-> TRUE, dims |-> l.dims, strides |-> strides]

\* A launch over the elements of l, from its start offset.
LaunchUnary(l) == unary_kernel(elem_count(l.dims), params_from_layout(l), l.start_offset)

-----------------------------------------------------------------------------
(* Element by element.                                                     *)

cuda_affine(t, l) == CudaMap1(t, LaunchUnary(l))
cuda_elu(t, l) == CudaMap1(t, LaunchUnary(l))
cuda_powf(t, l) == CudaMap1(t, LaunchUnary(l))
cuda_unary_impl(t, l) == CudaMap1(t, LaunchUnary(l))

cuda_to_dtype(t, l, dtype) ==
  Only(t \notin Dummies /\ dtype \notin Dummies \cup {"I16", "I32"}, dtype, LaunchUnary(l))

LaunchBinary(lhs_l, rhs_l) ==
  binary_kernel(elem_count(lhs_l.dims), upload_binary_info(lhs_l, rhs_l),
                lhs_l.start_offset, rhs_l.start_offset)

cuda_binary_impl(t, rhs_t, lhs_l, rhs_l) == CudaMap2(t, rhs_t, LaunchBinary(lhs_l, rhs_l))
cuda_cmp(t, rhs_t, lhs_l, rhs_l) == CudaMap2Any(t, rhs_t, LaunchBinary(lhs_l, rhs_l))

CudaIds == {"U8", "U32", "I64"}

cuda_where_cond(cond_t, l, t, t_l, rhs_t, f_l) ==
  LET info == InfoOf(l, <<l.stride, t_l.stride, f_l.stride>>)
      At(n, x, k) == x.start_offset + ElementAt(info, n, k - 1)
  IN  IF cond_t \in CudaIds
      THEN CudaMap2(t, rhs_t, [k \in 1 .. elem_count(l.dims) |-> <<At(1, l, k), At(2, t_l, k), At(3, f_l, k)>>])
      ELSE Failed

-----------------------------------------------------------------------------
(* Copies.                                                                 *)

\* The whole slice, whatever the layout.
cuda_try_clone(t, storage) == CudaMap1(t, storage)

\* The dummy types are looked for among the slices of bytes, where they are not.
transfer_to_device(t, storage) == Only(t \notin Dummies, t, storage)
cuda_to_cpu_storage(t, storage) == Only(t \notin Dummies, t, storage)

\* What src and dst have beyond their offsets, the shorter of them.
slice_src_and_dst(src, l, dst, dst_offset) ==
  LET Rest(n, o) == IF n > o THEN n - o ELSE 0
  IN  Smaller(Rest(Len(dst), dst_offset), Rest(Len(src), l.start_offset))

\* A contiguous source is copied up to the end of src or dst, beyond its own
\* elements too.
cuda_copy_strided_src(t, dst_t, src, dst, dst_offset, l) ==
  LET n == IF is_contiguous(l) THEN slice_src_and_dst(src, l, dst, dst_offset) ELSE elem_count(l.dims)
      at == IF is_contiguous(l) THEN Block(l.start_offset, n) ELSE LaunchUnary(l)
  IN  IF elem_count(l.dims) = 0 THEN Done(dst_t, dst)
      ELSE Only(t = dst_t /\ t \notin Dummies, t,
                [i \in DOMAIN dst |->
                  IF i > dst_offset /\ i - dst_offset <= n THEN src[at[i - dst_offset] + 1] ELSE dst[i]])

cuda_copy2d(t, dst_t, src, dst, d1, d2, src_s, dst_s, src_o, dst_o) ==
  LET Place(k) == dst_o + ((k - 1) \div d2) * dst_s + ((k - 1) % d2)
      Value(k) == src[src_o + ((k - 1) \div d2) * src_s + ((k - 1) % d2) + 1]
      At(i) == {k \in 1 .. d1 * d2 : Place(k) = i - 1}
  IN  CASE d1 * d2 = 0 -> Done(dst_t, dst)
        [] OTHER -> Only(t = dst_t /\ t \notin Dummies \ {"F8E8M0"}, t,
                         [i \in DOMAIN dst |->
                           IF At(i) = {} THEN dst[i] ELSE Value(CHOOSE k \in At(i) : TRUE)])

cuda_const_set(t, storage, l, s) ==
  Only(t \notin Dummies, t,
       [i \in DOMAIN storage |-> IF i - 1 \in ToSet(LaunchUnary(l)) THEN s ELSE storage[i]])

-----------------------------------------------------------------------------
(* Reductions, indexes.                                                    *)

\* FastReduce: the dimensions that stay, then the others in the order in which
\* they were asked for.
cuda_reduce_op(op, t, l, sum_dims) ==
  LET order == SelectSeq([d \in DOMAIN l.dims |-> d], LAMBDA d : ~Contains(sum_dims, d)) \o sum_dims
      info == [some |-> TRUE, dims |-> [i \in DOMAIN order |-> l.dims[order[i]]],
               strides |-> <<[i \in DOMAIN order |-> l.stride[order[i]]]>>]
      dst_el == CountBefore(info.dims, Len(order) - Len(sum_dims) + 1)
  IN  CASE dst_el = 0 \/ (op # "sum" /\ elem_count(l.dims) = 0) -> Failed
        [] OTHER -> CudaMap1Any(t, IF op \in {"argmin", "argmax"} THEN "U32" ELSE t,
                                reduce_kernel(dst_el, elem_count(l.dims) \div dst_el, info, l.start_offset))

\* Indexes that are read through their layout.
IdsThrough(ids, ids_l) ==
  LET at == unary_kernel(elem_count(ids_l.dims), InfoOf(ids_l, <<ids_l.stride>>), ids_l.start_offset)
  IN  [k \in DOMAIN at |-> ids[at[k] + 1]]

\* And without it.
IdsInOrder(ids, ids_l) == [k \in 1 .. elem_count(ids_l.dims) |-> ids[ids_l.start_offset + k]]

cuda_index_select(t, l, ids_t, ids, ids_l, dim) ==
  LET right_size == CountAfter(l.dims, dim)
      n == elem_count(ids_l.dims)
  IN  IF ids_t \in CudaIds /\ is_contiguous(l)
      THEN CudaMap1(t, index_select_kernel(CountBefore(l.dims, dim) * n * right_size, IdsThrough(ids, ids_l),
                                           l.start_offset, l.dims[dim], n, right_size))
      ELSE Failed

cuda_gather(t, l, ids_t, ids, ids_l, dim) ==
  IF ids_t \in CudaIds /\ is_contiguous(ids_l) /\ is_contiguous(l)
  THEN CudaMap1(t, gather_kernel(elem_count(ids_l.dims), IdsInOrder(ids, ids_l), l.start_offset,
                                 l.dims[dim], ids_l.dims[dim], CountAfter(l.dims, dim)))
  ELSE Failed

AllWhole(ls) == \A x \in ls : is_contiguous(x)

\* A thread for each place beside dim goes through the source along dim.
cuda_scatter_kernel(dst_l, ids, ids_l, src_l, dim) ==
  LET right == CountAfter(src_l.dims, dim)
      dst_i(k) == ((k - 1) \div (right * src_l.dims[dim])) * dst_l.dims[dim] * right
                    + ids[k] * right + ((k - 1) % right)
      src_at(k) == src_l.start_offset + k - 1
      mine(p) == SelectSeq([k \in 1 .. elem_count(src_l.dims) |-> k], LAMBDA k : dst_i(k) = p - 1)
  IN  [p \in 1 .. elem_count(dst_l.dims) |-> [j \in DOMAIN mine(p) |-> src_at(mine(p)[j])]]

cuda_scatter_set(t, l, ids_t, ids, ids_l, src_l, dim) ==
  Only(ids_t \in CudaIds /\ CudaMap2InPlace(t, t) /\ AllWhole({l, ids_l, src_l}),
       t, LastOnes(cuda_scatter_kernel(l, IdsInOrder(ids, ids_l), ids_l, src_l, dim)))

cuda_scatter_add_set(t, l, ids_t, ids, ids_l, src_l, dim) ==
  Only(ids_t \in CudaIds /\ CudaMap2InPlace(t, t) /\ AllWhole({l, ids_l, src_l}),
       t, cuda_scatter_kernel(l, IdsInOrder(ids, ids_l), ids_l, src_l, dim))

\* IndexAdd on a copy of the tensor.  The copy begins at 0 but is sliced at the
\* offsets of the tensor: what lies beyond it panics.
cuda_index_add(t, l, ids_t, ids, ids_l, src_l, dim) ==
  LET n == elem_count(l.dims)
      base == IF is_contiguous(l) THEN Block(l.start_offset, n) ELSE LaunchUnary(l)
      taken == index_add_kernel(elem_count(src_l.dims), IdsInOrder(ids, ids_l), n, l.dims[dim],
                                src_l.dims[dim], CountAfter(src_l.dims, dim))
  IN  Only(/\ ids_t \in CudaIds /\ CudaMap2InPlace(t, t) /\ AllWhole({l, ids_l, src_l})
           /\ l.start_offset + n <= Len(base),
           t, AddedTo(base, taken, src_l.start_offset))

-----------------------------------------------------------------------------
(* Products.                                                               *)

CudaGemmTypes == {"BF16", "F16", "F32", "F64"}

\* Mutant: any rows of one element may be transposed.
CudaOperand_any(l, rows, cols) ==
  LET m1 == l.stride[Len(l.stride)]
      m2 == l.stride[Len(l.stride) - 1]
      plain == (m1 = 1 \/ cols = 1) /\ (m2 = cols \/ rows = 1)
  IN  [ok |-> plain \/ m1 = rows \/ m2 = 1, ld |-> IF plain THEN cols ELSE rows, trans |-> ~plain]

\* lda and transa, or ldb and transb, of an operand with rows of cols elements;
\* not ok is Err(MatMulNonContiguous).
CudaOperand(l, rows, cols) ==
  LET m1 == l.stride[Len(l.stride)]
      m2 == l.stride[Len(l.stride) - 1]
      plain == (m1 = 1 \/ cols = 1) /\ (m2 = cols \/ rows = 1)
      turned == (m1 = rows \/ cols = 1) /\ (m2 = 1 \/ rows = 1)
  IN  [ok |-> plain \/ turned, ld |-> IF plain THEN cols ELSE rows, trans |-> ~plain]

\* stride_a or stride_b: as BatchSkip.
gemm_config(lhs_l, rhs_l) ==
  LET r == Len(lhs_l.dims)
      m == lhs_l.dims[r - 1]
      k == lhs_l.dims[r]
      n == rhs_l.dims[r]
      a == CudaOperand(rhs_l, k, n)
      b == CudaOperand(lhs_l, m, k)
  IN  [ok |-> a.ok /\ b.ok /\ BatchSkip(lhs_l, 0) # None /\ BatchSkip(rhs_l, 0) # None,
       batch |-> CountBefore(lhs_l.dims, r - 1), m |-> n, n |-> m, k |-> k, a |-> a, b |-> b,
       stride_a |-> BatchSkip(rhs_l, n * k), stride_b |-> BatchSkip(lhs_l, m * k)]

\* gemm_strided_batched of a configuration on rhs and lhs from their offsets.
cuda_gemm_strided_batched(cfg, rhs, lhs) ==
  FlattenSeq([s \in 1 .. cfg.batch |->
    Swapped(gemm(cfg.a.trans, cfg.b.trans, cfg.m, cfg.n, cfg.k, rhs + (s - 1) * cfg.stride_a, cfg.a.ld,
                 lhs + (s - 1) * cfg.stride_b, cfg.b.ld, cfg.m))])

cuda_gemm(t, lhs_l, rhs_l) ==
  LET Of(cfg) == IF cfg.ok THEN Done(t, cuda_gemm_strided_batched(cfg, rhs_l.start_offset, lhs_l.start_offset))
                 ELSE Failed
  IN  Of(gemm_config(lhs_l, rhs_l))

\* cublasLt, with the same configuration, where it has an algorithm.
gemm_fp8_to_bf16(lhs_l, rhs_l, available) == IF available THEN cuda_gemm("BF16", lhs_l, rhs_l) ELSE Failed

\* The addresses, before the cast, of the elements of a storage that was cast.
CastOf(t, l) == IF t = "F8E4M3" THEN [some |-> TRUE, at |-> LaunchUnary(l)] ELSE [some |-> FALSE, at |-> <<>>]

BeforeCast(cast, a) ==
  CASE ~cast.some -> a
    [] cast.some /\ a < Len(cast.at) -> cast.at[a + 1]
    [] OTHER -> Garbage

Recast(product, lhs, rhs) ==
  Only(product.ok, product.t,
       [p \in DOMAIN product.val |->
         {[q \in DOMAIN s |-> <<BeforeCast(lhs, s[q][1]), BeforeCast(rhs, s[q][2])>>] : s \in product.val[p]}])

\* A product of operands of which those of F8E4M3 have been cast: the cast
\* leaves no gaps, but the layouts are those from before it.
cuda_cast_matmul(t, rhs_t, wide, lhs_l, rhs_l) ==
  Recast(cuda_gemm(wide, lhs_l, rhs_l), CastOf(t, lhs_l), CastOf(rhs_t, rhs_l))

OrElse(r, other) == IF r.ok THEN r ELSE other

cuda_matmul(t, rhs_t, lhs_l, rhs_l, available) ==
  CASE t = rhs_t /\ t \in CudaGemmTypes -> cuda_gemm(t, lhs_l, rhs_l)
    [] t = "F8E4M3" /\ rhs_t = "F8E4M3" ->
         OrElse(gemm_fp8_to_bf16(lhs_l, rhs_l, available), cuda_cast_matmul(t, rhs_t, "BF16", lhs_l, rhs_l))
    [] {t, rhs_t} \in {{"F8E4M3", "BF16"}, {"F8E4M3", "F16"}} ->
         cuda_cast_matmul(t, rhs_t, IF t = "F8E4M3" THEN rhs_t ELSE t, lhs_l, rhs_l)
    [] OTHER -> Failed

-----------------------------------------------------------------------------
(* Windows and convolutions.                                               *)

\* avg_pool2d and max_pool2d.
cuda_pool2d(t, l, size, stride) == CudaMap1(t, PoolWindows(l, size, stride))

\* upsample_nearest1d is not supported.
cuda_upsample_nearest(t, l, target) ==
  IF Len(target) = 1 THEN Failed ELSE CudaMap1(t, UpsampleNearest(l, target))

cuda_upsample_bilinear2d(t, l, target, align_corners, factors) ==
  CudaMap1(t, BilinearTaps(l, target, align_corners, factors))

\* The product of columns, in which the channels come last, with those first;
\* the zeros of the padding add nothing.
ChannelsFirst(from, res, col) ==
  [p \in DOMAIN from |->
    {SelectSeq([j \in DOMAIN s |-> <<col[s[j][1] + 1], s[j][2]>>], LAMBDA x : x[1] # None) :
       s \in res[from[p] + 1]}]

ImagesOf(res, b, out, n, col) ==
  LET channels_last == contiguous_with_offset(<<b>> \o out \o <<n>>, 0)
      res_l == permute(channels_last, <<1, Len(out) + 2>> \o [d \in 1 .. Len(out) |-> d + 1])
  IN  Only(res.ok, res.t, ChannelsFirst(LaunchUnary(res_l), res.val, col))

\* conv1d and conv2d: Im2Col1D or Im2Col and one product for the whole batch.
\* A copy is made of a kernel that is not contiguous, and not used.
Im2ColMatMul(t, k_t, l, k_l, q) ==
  LET out == OutLens(l, k_l, q)
      b == l.dims[1]
      m == elem_count(out)
      n == k_l.dims[1]
      k == CountAfter(k_l.dims, 1)
  IN  ImagesOf(cuda_matmul(t, k_t, contiguous_with_offset(<<b * m, k>>, 0),
                           transpose(contiguous_with_offset(<<n, k>>, k_l.start_offset), 1, 2), TRUE),
               b, out, n, Im2Col(l, Spatial(k_l), q))

cuda_conv1d(t, k_t, l, k_l, q) == Im2ColMatMul(t, k_t, l, k_l, q)
cuda_conv2d(t, k_t, l, k_l, q) == Im2ColMatMul(t, k_t, l, k_l, q)

\* Conv1D and Conv2D, and cuDNN: the products by the strides of image and kernel.
Conv1D(l, k_l, q) ==
  LET n == Spatial(l)
      ker == Spatial(k_l)
      out_dims == <<l.dims[1], k_l.dims[1]>> \o OutLens(l, k_l, q)
      rounds == <<l.dims[2]>> \o ker
      Term(i, r) ==
        LET s == Under(SubSeq(i, 3, Len(i)), Tail(r), q)
        IN  IF Outside(s, n, q) THEN <<None, None>>
            ELSE <<ReadAt(l, <<i[1], r[1]>> \o [d \in DOMAIN s |-> s[d] - q.padding]),
                   ReadAt(k_l, <<i[2]>> \o r)>>
  IN  [p \in 1 .. elem_count(out_dims) |->
        {SelectSeq([j \in 1 .. elem_count(rounds) |-> Term(Counters(p, out_dims), Counters(j, rounds))],
                   LAMBDA x : x[1] # None)}]

Conv2D(l, k_l, q) == Conv1D(l, k_l, q)

\* conv1d with the feature cudnn: cuDNN for kernels that are contiguous.
CudnnTypes == {"U8"} \cup CudaGemmTypes

\* create_4d_tensor: the strides of an image that is not contiguous, those of a
\* contiguous one, and a filter without gaps, from their offsets.
launch_conv1d(l, k_l, q) ==
  LET x == IF is_contiguous(l) THEN contiguous_with_offset(l.dims, l.start_offset) ELSE l
      w == contiguous_with_offset(k_l.dims, k_l.start_offset)
  IN  Conv1D(x, w, q)

launch_conv2d(l, k_l, q) == launch_conv1d(l, k_l, q)

cudnn_conv1d(t, k_t, l, k_l, q) ==
  IF is_contiguous(k_l) THEN Only(t = k_t /\ t \in CudnnTypes, t, launch_conv1d(l, k_l, q))
  ELSE CudaMap2(t, k_t, Conv1D(l, k_l, q))

cudnn_conv2d(t, k_t, l, k_l, q) ==
  IF is_contiguous(k_l) THEN Only(t = k_t /\ t \in CudnnTypes, t, launch_conv2d(l, k_l, q))
  ELSE CudaMap2(t, k_t, Conv2D(l, k_l, q))

\* Col2Im1D, which is one of the kernels.
cuda_Col2Im1D(col, l, k_l, q) ==
  Only(col.ok, col.t, Columns(col.val, Col2Im1D(l.dims[1], l.dims[3], k_l.dims[2], k_l.dims[3], q.stride)))

\* A product of the transposed image and the kernel as a matrix, and Col2Im1D.
cuda_conv_transpose1d(t, k_t, l, k_l, q) ==
  IF can_use_col2im(k_l, q)
  THEN cuda_Col2Im1D(cuda_matmul(t, k_t, transpose(l, 2, 3), kernel_l_mm(l, k_l), TRUE), l, k_l, q)
  ELSE CudaMap2(t, k_t, ConvTransposeDirect(l, k_l, q))

cuda_conv_transpose2d(t, k_t, l, k_l, q) == CudaMap2(t, k_t, ConvTransposeDirect(l, k_l, q))
=============================================================================
