----------------------------- MODULE CudaViews -----------------------------
(***************************************************************************)
(* The operations of CudaStorage on the tensors that the view operations   *)
(* make, as those of RocmStorage in DeviceViews.                           *)
(***************************************************************************)
EXTENDS DeviceViews, CudaStorage

Real(t) == t \notin Dummies

CudaUnaryExact ==
  \A t \in SomeTypes :
    /\ \A r \in {cuda_affine(t, layout), cuda_elu(t, layout), cuda_powf(t, layout),
                 cuda_unary_impl(t, layout)} : Gives(r, Real(t), t, RM)
    /\ \A dtype \in SomeTypes :
         Gives(cuda_to_dtype(t, layout, dtype), Real(t) /\ Real(dtype) /\ dtype # "I16", dtype, RM)

CudaBinaryExact ==
  \A r \in Others(dims), t \in SomeTypes :
    LET pairs == PairsOf(r)
    IN  /\ Gives(cuda_binary_impl(t, t, layout, r), Real(t), t, pairs)
        /\ Gives(cuda_cmp(t, t, layout, r), Real(t) /\ t # "I16", "U8", pairs)
        /\ \A cond_t \in {"U8", "U32", "I16"} :
             Gives(cuda_where_cond(cond_t, layout, t, r, t, layout), Real(t) /\ cond_t # "I16", t,
                   TriplesOf(r))

\* What a copy leaves of dst: before it, its elements, and after it, unless the
\* source is contiguous.
Kept(dst, at, r) ==
  /\ SubSeq(r, 1, at) = SubSeq(dst, 1, at)
  /\ is_contiguous(layout) \/ LET n == at + Size(dims) IN SubSeq(r, n + 1, Len(dst)) = SubSeq(dst, n + 1, Len(dst))

\* Copies one after the other, as cat makes them of contiguous arguments: a copy
\* that goes too far is made good by the next one.
Appended(t, first, second) ==
  LET n == Size(dims)
      one == cuda_copy_strided_src(t, t, data, Blank(2 * n), first, layout)
      two == cuda_copy_strided_src(t, t, data, one.val, second, layout)
  IN  one.ok /\ two.ok => two.val = Values(RM \o RM, data)

CudaCopyExact ==
  \A t \in SomeTypes :
    /\ Gives(cuda_try_clone(t, data), Real(t), t, data)
    /\ Real(t) => Elements(cuda_try_clone(t, data).val, layout) = Values(RM, data)
    /\ Appended(t, 0, Size(dims))
    /\ \A offset \in 0 .. 2 :
         LET dst == Blank(offset + Size(dims) + 1)
             r == cuda_copy_strided_src(t, t, data, dst, offset, layout)
         IN  /\ r.ok <=> Real(t) \/ Size(dims) = 0
             /\ r.ok => /\ SubSeq(r.val, offset + 1, offset + Size(dims)) = Values(RM, data)
                        /\ Kept(dst, offset, r.val)
    /\ Gives(cuda_const_set(t, data, layout, None), Real(t), t, Blanked(data))

CudaCopy2dExact ==
  \A t \in SomeTypes, d1, d2, gap, o \in 0 .. 2 :
    (d1 - 1) * d2 + d2 <= Len(data) =>
      LET dst == Blank(o + d1 * (d2 + gap))
          Given(i) == {k \in (0 .. d1 - 1) \X (0 .. d2 - 1) : o + k[1] * (d2 + gap) + k[2] = i - 1}
      IN  Gives(cuda_copy2d(t, t, data, dst, d1, d2, d2, d2 + gap, 0, o), TRUE, t,
                [i \in DOMAIN dst |-> IF Given(i) = {} THEN None
                                      ELSE LET k == CHOOSE k \in Given(i) : TRUE
                                           IN  data[k[1] * d2 + k[2] + 1]])

\* On CUDA, maps, casts, comparisons, binary operations, choices and copies take
\* the elements of equal indexes, in row-major order, whether a kernel is given
\* the strides of its operands or none.  A copy of a contiguous tensor may go on
\* beyond its elements; copies that are made one after the other repair that.
CudaElementsExact == CudaUnaryExact /\ CudaBinaryExact /\ CudaCopyExact /\ CudaCopy2dExact

-----------------------------------------------------------------------------
(* Reductions, indexes, products.                                          *)

\* Dimensions are asked for in ascending order or in descending order.
CudaReduceExact ==
  \A ds \in SUBSET (1 .. rank) \ {{}}, t \in SomeTypes :
    LET up == SetToSortSeq(ds, <)
        sums(order) == cuda_reduce_op("sum", t, layout, order)
        Bags(rows) == [p \in DOMAIN rows |-> ToBag(rows[p])]
    IN  /\ Gives(sums(up), Real(t), t, Reduced(ds))
        /\ Gives(cuda_reduce_op("argmax", t, layout, up), Real(t), "U32", Reduced(ds))
        /\ Real(t) => Bags(sums(Reverse(up)).val) = Bags(Reduced(ds))

\* Where the indexes are all of elements; others are up to the kernels.
Known(ids, size) == \A k \in DOMAIN ids : ids[k] < size

CudaGatherReads(ids_dims, dim) ==
  LET x == contiguous_with_offset(ids_dims, 1)
  IN  \A ids \in IdPatterns(Size(ids_dims), dims[dim]), t \in SomeTypes :
        Known(ids, dims[dim]) =>
          Gives(cuda_gather(t, layout, "U32", IdStorage(ids, x), x, dim), Real(t) /\ is_contiguous(layout), t,
                [k \in DOMAIN ids |-> At([AtPosition(k - 1, ids_dims) EXCEPT ![dim] = ids[k]])])

CudaIndexSelectReads(n, dim) ==
  LET shape == [dims EXCEPT ![dim] = n]
  IN  \A ids \in IdPatterns(n, dims[dim]), x \in IdLayouts(n), t \in SomeTypes :
        Known(ids, dims[dim]) =>
          Gives(cuda_index_select(t, layout, "U32", IdStorage(ids, x), x, dim),
                Real(t) /\ is_contiguous(layout), t,
                [k \in 1 .. Size(shape) |->
                  LET i == AtPosition(k - 1, shape) IN At([i EXCEPT ![dim] = ids[i[dim] + 1]])])

CudaTakes(src_dims, dim) ==
  LET n == src_dims[dim]
      row == contiguous_with_offset(<<n>>, 1)
      x == contiguous_with_offset(src_dims, 1)
      src_l == contiguous_with_offset(src_dims, 2)
      From(p, Ids(_)) == FromSource(Taken(p, src_dims, dim, Ids))
  IN  \A t \in SomeTypes :
        /\ \A ids \in IdPatterns(n, dims[dim]) :
             Known(ids, dims[dim]) =>
               Gives(cuda_index_add(t, layout, "U32", IdStorage(ids, row), row, src_l, dim),
                     Real(t) /\ is_contiguous(layout) /\ layout.start_offset = 0, t,
                     [p \in 1 .. Size(dims) |->
                       [base |-> At(AtPosition(p - 1, dims)), added |-> From(p, LAMBDA k : ids[AtPosition(k - 1, src_dims)[dim] + 1])]])
        /\ \A ids \in IdPatterns(Size(src_dims), dims[dim]) :
             Known(ids, dims[dim]) =>
               LET ok == Real(t) /\ is_contiguous(layout)
                   stored == IdStorage(ids, x)
                   added == [p \in 1 .. Size(dims) |-> From(p, LAMBDA k : ids[k])]
               IN  /\ Gives(cuda_scatter_add_set(t, layout, "U32", stored, x, src_l, dim), ok, t, added)
                   /\ Gives(cuda_scatter_set(t, layout, "U32", stored, x, src_l, dim), ok, t,
                            [p \in 1 .. Size(dims) |-> IF added[p] = <<>> THEN <<>> ELSE <<Last(added[p])>>])

\* index_add copies the tensor first; of one with an offset, which it slices the
\* copy with, it panics where others of its kind do not.
CudaIndexedExact ==
  \A dim \in 1 .. rank, n \in 1 .. 2 :
    LET shape == [dims EXCEPT ![dim] = n]
    IN  CudaGatherReads(shape, dim) /\ CudaIndexSelectReads(n, dim) /\ CudaTakes(shape, dim)

\* The dtypes of the two operands and of the result.
MatMulTypePairs ==
  {<<"F32", "F32", "F32">>, <<"F8E4M3", "F8E4M3", "BF16">>, <<"BF16", "F8E4M3", "BF16">>,
   <<"F8E4M3", "F16", "F16">>}

\* A cast operand is read with the layout from before the cast: right if there
\* are no gaps before or between its elements.
CastFits(t, l) == t = "F8E4M3" => is_contiguous(l) /\ l.start_offset = 0

CudaMatMulOf(f, ts, available) ==
  LET Of(r) == /\ NeverWrong(r, ts[3], ProductOf(f[1], f[2]))
               /\ is_contiguous(f[1]) /\ is_contiguous(f[2]) => r.ok
  IN  Of(cuda_matmul(ts[1], ts[2], f[1], f[2], available))

CudaMatMulExact ==
  \A f \in Factors, ts \in MatMulTypePairs, available \in BOOLEAN :
    LET cast == ts[1] # ts[2] \/ ~available
    IN  (Accepted(f) /\ (cast => CastFits(ts[1], f[1]) /\ CastFits(ts[2], f[2]))) => CudaMatMulOf(f, ts, available)

\* "Mixed BF16 x FP8 - cast FP8 side to BF16, then BF16 matmul."
\* (cuda_backend/mod.rs:2521), as nn::Linear has it, "x.matmul(&w.t())"
\* (cuda_backend/mod.rs:2500).
CudaMixedMatMul ==
  \A f \in Factors : Accepted(f) => CudaMatMulOf(f, <<"BF16", "F8E4M3", "BF16">>, TRUE)

\* On CUDA, reductions, operations with indexes and products combine the elements
\* that they are documented to combine, or fail: the dimensions that go first,
\* leading dimensions, transposes and the steps between matrices fit together.
CudaCombinesExact == Size(dims) > 0 => CudaReduceExact /\ CudaIndexedExact /\ CudaMatMulExact

-----------------------------------------------------------------------------
(* Images.                                                                 *)

HasSums(r, sums) == r.ok /\ SameSums(r.val, sums)

\* By im2col kernels must be contiguous, for they are not copied; cuDNN takes
\* those and leaves the others to kernels of its own.
CudaConvExact ==
  \A k_l \in Kernels(2, dims[2]), q \in Params :
    Fits(layout, k_l, q) =>
      LET sums == Sums(conv_dims(layout, k_l, q), LAMBDA x : ResultSum(layout, k_l, x, q))
      IN  /\ is_contiguous(k_l) =>
               HasSums(IF rank = 3 THEN cuda_conv1d("F32", "F32", layout, k_l, q)
                       ELSE cuda_conv2d("F32", "F32", layout, k_l, q), sums)
          /\ HasSums(IF rank = 3 THEN cudnn_conv1d("F32", "F32", layout, k_l, q)
                     ELSE cudnn_conv2d("F32", "F32", layout, k_l, q), sums)

CudaConvTransposeExact ==
  \A k_l \in Kernels(dims[2], 2), q \in TransposeParams :
    (\A d \in DOMAIN Spatial(layout) : out_len_transpose(Spatial(layout)[d], Spatial(k_l)[d], q) > 0) =>
      LET n == Spatial(layout)
          out == [d \in DOMAIN n |-> out_len_transpose(n[d], Spatial(k_l)[d], q)]
          Of(r) ==
            /\ is_contiguous(layout) => r.ok
            /\ SumsIfAny(r, "F32", Sums(<<dims[1], k_l.dims[2]>> \o out, LAMBDA x : ImageSum(layout, k_l, x, q)))
      IN  Of(IF rank = 3 THEN cuda_conv_transpose1d("F32", "F32", layout, k_l, q)
             ELSE cuda_conv_transpose2d("F32", "F32", layout, k_l, q))

CudaResizeExact ==
  /\ \A scale \in 1 .. 3 :
       LET target == [d \in DOMAIN Spatial(layout) |-> 1 + (dims[d + 2] * scale) \div 2]
       IN  Gives(cuda_upsample_nearest("F32", layout, target), rank = 4, "F32", Nearest(target))
  /\ rank = 4 => \A size, stride \in WindowSizes :
       (\A d \in 1 .. 2 : dims[d + 2] >= size[d]) =>
         Gives(cuda_pool2d("F32", layout, size, stride), TRUE, "F32", Windowed(size, stride))
  /\ rank = 4 => \A r \in Resizes, align_corners \in BOOLEAN :
       Interpolates(cuda_upsample_bilinear2d("F32", layout, r.target, align_corners, r.factors).val,
                    r.target, align_corners, r.factors)

\* On CUDA, convolutions by one product for the whole batch, by cuDNN and by
\* the columns of a transposed product, poolings and upsamplings read what their
\* definitions name, on images of any layout that is not refused.
CudaImagesExact == Image({3, 4}) => CudaConvExact /\ CudaConvTransposeExact /\ CudaResizeExact

\* Every method of CudaStorage combines the elements that its definition by
\* indexes names, on whatever layout it takes.
CudaExact == CudaElementsExact /\ CudaCombinesExact /\ CudaImagesExact
=============================================================================
