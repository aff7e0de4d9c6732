---------------------------- MODULE DeviceViews ----------------------------
(***************************************************************************)
(* The operations of the storages of the devices on the tensors that the   *)
(* view operations make.  An operation either fails or gives what it is    *)
(* documented to give, whichever of its ways - a kernel for contiguous     *)
(* elements, a strided one, a detour over the CPU - dtype and layout pick. *)
(***************************************************************************)
EXTENDS ConvViews, RocmStorage

\* Bound: one dtype for each of the ways in which the code treats them.
SomeTypes == {"F32", "F16", "BF16", "F64", "I16", "F8E8M0"}

\* The dtypes that the CPU backend computes with and that come down from the GPU.
Served(t) == t \in Downloaded \ Dummies

\* A result where it is served, a failure where it is not.
Gives(result, served, t, val) == result = Only(served, t, val)

\* Never a wrong result.
NeverWrong(result, t, val) == result \in {Failed, Done(t, val)}

Values(addresses, s) == [k \in DOMAIN addresses |-> s[addresses[k] + 1]]

\* Second operands of the same shape: with an offset, transposed, repeated.
Others(shape) ==
  LET r == Len(shape)
  IN  {contiguous_with_offset(shape, 2), broadcast_as(contiguous_with_offset(<<>>, 1), shape)}
        \cup (IF r < 2 THEN {}
              ELSE {transpose(contiguous_with_offset(Swap(shape, 1, r), 1), 1, r)})

\* The elements of equal indexes of the tensor and of r; and those of the tensor
\* again.
PairsOf(r) ==
  [k \in 1 .. Size(dims) |-> LET i == AtPosition(k - 1, dims) IN <<At(i), Address(r, i)>>]

TriplesOf(r) ==
  [k \in 1 .. Size(dims) |-> LET i == AtPosition(k - 1, dims) IN <<At(i), Address(r, i), At(i)>>]

-----------------------------------------------------------------------------
(* Element by element.                                                     *)

UnaryExact ==
  \A t \in SomeTypes :
    /\ \A r \in {rocm_affine(t, layout), rocm_unary_impl(t, layout)} : Gives(r, Served(t), t, RM)
    /\ \A r \in {rocm_powf(t, layout), rocm_elu(t, layout)} :
         Gives(r, Served(t) /\ t \in Floats, t, RM)
    /\ \A dtype \in SomeTypes \cup {"U8", "I64"} : dtype # t =>
         Gives(rocm_to_dtype(t, data, layout, dtype), Served(t) /\ dtype \notin Dummies, dtype, RM)

\* What rocm_binary_impl gets right: the kernel for BF16 and F32 has no strides
\* for its right operand, and F32 and BF16 are added up from what is not a copy.
MixedFits(op, t, rhs_t, rhs_l) ==
  /\ <<t, rhs_t>> # <<"F32", "BF16">>
  /\ <<t, rhs_t>> = <<"BF16", "F32">> /\ op \in Mixed => is_contiguous(rhs_l)

\* A comparison of BF16 fails: the detour expects a result of F32.
BinaryExact ==
  \A r \in Others(dims) :
    LET pairs == PairsOf(r)
    IN  \A t, rhs_t \in SomeTypes :
          /\ t = rhs_t =>
               /\ Gives(rocm_cmp(t, t, layout, r), Served(t) /\ t # "BF16", "U8", pairs)
               /\ Gives(rocm_binary_impl("mul", t, t, layout, r), Served(t), t, pairs)
          /\ \A op \in {"mul", "div"} : MixedFits(op, t, rhs_t, r) =>
               NeverWrong(rocm_binary_impl(op, t, rhs_t, layout, r), t, pairs)

\* "mul, add, sub" of BF16 and F32 (storage.rs:1014) with any layouts.
BinaryMixed ==
  \A r \in Others(dims) :
    NeverWrong(rocm_binary_impl("mul", "BF16", "F32", layout, r), "BF16", PairsOf(r))

\* On the GPU a condition is taken to be U8.
WhereExact ==
  \A r \in Others(dims), cond_t \in {"U8", "U32"}, t \in {"F32", "F64"} :
    (t = "F32" /\ is_contiguous(layout) /\ is_contiguous(r) => cond_t = "U8") =>
      Gives(rocm_where_cond(cond_t, layout, t, r, t, layout), Served(t), t,
            TriplesOf(r))

-----------------------------------------------------------------------------
(* Copies.                                                                 *)

\* The layouts that a clone, which Tensor::copy gives the layout of the
\* original, can be read through.
CloneFits(t) == IF is_contiguous(layout) THEN layout.start_offset = 0 ELSE t \notin Strided

CloneReads(t) ==
  LET clone == rocm_try_clone(t, data, layout)
      stored == IF is_contiguous(layout) \/ t \in Strided THEN Values(clone.val, data) ELSE clone.val
  IN  clone.ok /\ Size(dims) > 0 => Elements(stored, layout) = Values(RM, data)

\* "Compared to clone, this copies the actual storage" (tensor.rs:2333): the copy
\* has the elements of the original.
CloneAnyView == \A t \in SomeTypes : CloneReads(t)

Blank(n) == [i \in 1 .. n |-> None]

\* dst with the elements of the tensor from offset on.
PutAt(dst, offset) ==
  [i \in DOMAIN dst |->
    IF i - offset \in 1 .. Size(dims) THEN data[At(AtPosition(i - offset - 1, dims)) + 1] ELSE None]

Blanked(storage) ==
  LET at == ToSet(RM) IN [i \in DOMAIN storage |-> IF i - 1 \in at THEN None ELSE storage[i]]

CopyExact ==
  \A t \in SomeTypes :
    /\ CloneFits(t) => CloneReads(t)
    /\ \A offset \in 0 .. 2 :
         LET dst == Blank(offset + Size(dims) + 1)
         IN  Gives(rocm_copy_strided_src(t, t, data, dst, offset, layout), t \in Downloaded, t,
                   PutAt(dst, offset))
    /\ Gives(rocm_const_set(t, t, data, layout, None), Served(t), t, Blanked(data))

\* Blocks of rows between places of different row lengths, as cat makes them.
Copy2dExact ==
  \A t \in SomeTypes, d1, d2, gap, o \in 0 .. 2 :
    (d1 - 1) * d2 + d2 <= Len(data) =>
      LET dst == Blank(o + d1 * (d2 + gap))
          Given(i) == {k \in (0 .. d1 - 1) \X (0 .. d2 - 1) : o + k[1] * (d2 + gap) + k[2] = i - 1}
      IN  Gives(rocm_copy2d(t, t, data, dst, d1, d2, d2, d2 + gap, 0, o), t \in Downloaded, t,
                [i \in DOMAIN dst |-> IF Given(i) = {} THEN None
                                      ELSE LET k == CHOOSE k \in Given(i) : TRUE
                                           IN  data[k[1] * d2 + k[2] + 1]])

\* On ROCm, maps, casts, comparisons, binary operations, choices and copies take
\* the elements of equal indexes, in row-major order, and put them where they
\* belong, or fail: kernels with and without an info buffer, for whichever of
\* their operands it is needed, mixed dtypes and the detour over the CPU agree.
RocmElementsExact == UnaryExact /\ BinaryExact /\ WhereExact /\ CopyExact /\ Copy2dExact
-----------------------------------------------------------------------------
(* Reductions, indexes, products.                                          *)

\* What is kept of a row: the index of a best element.
KeepsBest(row, use_min) ==
  LET i == arg_kernel(row, use_min) + 1
  IN  i \in DOMAIN row /\ \A k \in DOMAIN row : IF use_min THEN row[i] <= row[k] ELSE row[i] >= row[k]

\* The detour takes one dimension at a time for minima and maxima, and not a
\* repeated one of size 1.
RocmReduceOf(ds) ==
  LET rows == Reduced(ds)
      OneByOne == \A d \in ds : ds = {d} /\ ~(DividesByStride(layout, d) /\ layout.stride[d] = 0)
      AsF32IfHalved(t) == IF t \in Halved THEN "F32" ELSE t
  IN  /\ \A t \in SomeTypes :
           /\ Gives(rocm_reduce_op("sum", t, layout, ds), Served(t), AsF32IfHalved(t), rows)
           /\ t \in Halved \/ OneByOne =>
                /\ Gives(rocm_reduce_op("min", t, layout, ds), Served(t), AsF32IfHalved(t), rows)
                /\ Gives(rocm_reduce_op("argmin", t, layout, ds), Served(t), "U32", rows)
      /\ \A p \in DOMAIN rows, use_min \in BOOLEAN : KeepsBest(Values(rows[p], data), use_min)

RocmReduceExact == \A ds \in SUBSET (1 .. rank) \ {{}} : RocmReduceOf(ds)

\* n indexes from the second place of a storage on, or in every second place.
IdLayouts(n) == {contiguous_with_offset(<<n>>, 1), Layout(<<n>>, <<2>>, 0)}

IdStorage(ids, ids_l) ==
  LET a == RowMajor(ids_l)
      Held(i) == {k \in DOMAIN a : a[k] = i - 1}
  IN  [i \in 1 .. 2 * Len(ids) + 1 |-> IF Held(i) = {} THEN 0 ELSE ids[CHOOSE k \in Held(i) : TRUE]]

\* A result is right if it is one; where the operation is on the CPU, or every
\* index is one of an element, it is a result.
Indexed(result, on_gpu, t, ids, size, val) ==
  LET known == \A k \in DOMAIN ids : ids[k] < size
  IN  /\ known \/ (~on_gpu /\ InRange(ids, size)) => NeverWrong(result, t, val)
      /\ known /\ t \in {"F32", "F64"} => result.ok
      /\ ~on_gpu /\ ~InRange(ids, size) => ~result.ok

RocmGatherReads(ids_dims, dim) ==
  LET x == contiguous_with_offset(ids_dims, 1)
  IN  \A ids \in IdPatterns(Size(ids_dims), dims[dim]), t \in SomeTypes :
        Indexed(rocm_gather(t, layout, "U32", IdStorage(ids, x), x, dim), t = "F32", t, ids, dims[dim],
                [k \in DOMAIN ids |->
                  IF ids[k] = max_value THEN None
                  ELSE At([AtPosition(k - 1, ids_dims) EXCEPT ![dim] = ids[k]])])

RocmIndexSelectReads(n, dim) ==
  LET shape == [dims EXCEPT ![dim] = n]
  IN  \A ids \in IdPatterns(n, dims[dim]), x \in IdLayouts(n), t \in SomeTypes :
        Indexed(rocm_index_select(t, layout, "U32", IdStorage(ids, x), x, dim),
                t \in Halved /\ is_contiguous(x), t, ids, dims[dim],
                [k \in 1 .. Size(shape) |->
                  LET i == AtPosition(k - 1, shape)
                  IN  IF ids[i[dim] + 1] = max_value THEN None
                      ELSE At([i EXCEPT ![dim] = ids[i[dim] + 1]])])

\* The source is contiguous and has an offset.
FromSource(taken) == [j \in DOMAIN taken |-> 2 + taken[j] - 1]

RocmIndexAddTakes(src_dims, dim) ==
  LET n == src_dims[dim]
      x == contiguous_with_offset(<<n>>, 1)
  IN  \A ids \in IdPatterns(n, dims[dim]), t \in SomeTypes :
        Indexed(rocm_index_add(t, data, layout, "U32", IdStorage(ids, x), x,
                               contiguous_with_offset(src_dims, 2), dim),
                t = "F32" /\ is_contiguous(layout), t, ids, dims[dim],
                [p \in 1 .. Size(dims) |->
                  [base |-> At(AtPosition(p - 1, dims)),
                   added |-> FromSource(Taken(p, src_dims, dim,
                                              LAMBDA k : ids[AtPosition(k - 1, src_dims)[dim] + 1]))]])

\* A scatter that fails leaves the tensor as it was.
RocmScatterTakes(src_dims, dim) ==
  LET x == contiguous_with_offset(src_dims, 1)
      src_l == contiguous_with_offset(src_dims, 2)
  IN  \A ids \in IdPatterns(Size(src_dims), dims[dim]), t \in SomeTypes :
        LET ok == Served(t) /\ is_contiguous(layout) /\ InRange(ids, dims[dim])
            From(p) == FromSource(Taken(p, src_dims, dim, LAMBDA k : ids[k]))
            stored == IdStorage(ids, x)
        IN  /\ rocm_scatter_add_set(t, layout, "U32", stored, x, src_l, dim) =
                 [ok |-> ok, t |-> t, val |-> [p \in 1 .. Size(dims) |-> IF ok THEN From(p) ELSE <<>>]]
            /\ rocm_scatter_set(t, layout, "U32", stored, x, src_l, dim) =
                 [ok |-> ok, t |-> t, val |-> [p \in 1 .. Size(dims) |->
                   IF ok /\ From(p) # <<>> THEN <<Last(From(p))>> ELSE <<>>]]

RocmIndexedExact ==
  \A dim \in 1 .. rank, n \in 1 .. 2 :
    LET shape == [dims EXCEPT ![dim] = n]
    IN  /\ is_contiguous(layout) => RocmGatherReads(shape, dim) /\ RocmIndexSelectReads(n, dim)
        /\ RocmScatterTakes(shape, dim) /\ RocmIndexAddTakes(shape, dim)

\* What the GPU multiplies correctly if not both operands are contiguous: the
\* left operand is, and the right one, of F16, begins at the begin of its
\* storage.
MatMulFits(t, l, r) ==
  CASE is_contiguous(l) /\ is_contiguous(r) -> TRUE
    [] t \in {"F16", "BF16"} /\ ~(is_contiguous(l) /\ is_contiguous(r)) ->
         t = "F16" /\ is_contiguous(l) /\ r.start_offset = 0
    [] OTHER -> MergeFits(l, r)

RocmMatMulOf(t, f) ==
  LET Of(r) == NeverWrong(r, t, ProductOf(f[1], f[2])) /\ (t = "F32" => r.ok)
  IN  Of(rocm_matmul(t, t, f[1], f[2]))

RocmMatMulExact ==
  \A f \in Factors, t \in SomeTypes :
    Accepted(f) /\ MatMulFits(t, f[1], f[2]) /\ (t = "F64" => MergeFits(f[1], f[2])) =>
      RocmMatMulOf(t, f)

\* "Handle F16 matmul with non-contiguous layouts by copying to contiguous GPU
\* buffers." (rocm_backend/storage.rs:2496)
MatMulByCopies == \A f \in Factors : Accepted(f) => RocmMatMulOf("F16", f)

\* On ROCm, reductions, operations with indexes and products combine the
\* elements that they are documented to combine: the dimensions are reordered
\* for a kernel, threads keep the best of a part of a row, a product of row-major
\* matrices is one of column-major ones in the opposite order.
RocmCombinesExact ==
  Size(dims) > 0 => RocmReduceExact /\ RocmIndexedExact /\ RocmMatMulExact

\* The products that the features mkl and accelerate hand to a BLAS are right or
\* refused, for transposed and repeated operands too, and never refused for
\* contiguous ones.
BlasExact ==
  \A f \in Factors :
    Accepted(f) =>
      \A r \in {mkl_matmul("F32", "F32", f[1], f[2]), accelerate_matmul("F32", "F32", f[1], f[2])} :
        /\ NeverWrong(r, "F32", ProductOf(f[1], f[2]))
        /\ is_contiguous(f[1]) /\ is_contiguous(f[2]) => r.ok
-----------------------------------------------------------------------------
(* Images.                                                                 *)

\* im2col is right for one image, without dilation, and for conv1d, whose
\* images are taken for those of one row, without padding; the detour is right
\* where the CPU is.
RocmConvFits(t, l, k_l, q) ==
  /\ ConvFits(l, k_l, q)
  /\ t \in Strided /\ is_contiguous(l) /\ is_contiguous(k_l) =>
       /\ l.dims[1] = 1
       /\ IF Len(l.dims) = 4 THEN q.dilation = 1 ELSE q.dilation = 1 => q.padding = 0

\* A result has the sums of the definition.
SumsIfAny(r, t, sums) == r.ok => r.t = t /\ SameSums(r.val, sums)

RocmConvOf(t, l, k_l, q) ==
  SumsIfAny(IF Len(l.dims) = 3 THEN rocm_conv1d(t, t, l, k_l, Extent(k_l), q)
            ELSE rocm_conv2d(t, t, l, k_l, Extent(k_l), q),
            t, Sums(conv_dims(l, k_l, q), LAMBDA x : ResultSum(l, k_l, x, q)))

RocmConvExact ==
  \A k_l \in Kernels(2, dims[2]), q \in Params :
    Fits(layout, k_l, q) /\ RocmConvFits("F32", layout, k_l, q) => RocmConvOf("F32", layout, k_l, q)

\* "(N, C, H, W) -> (N, C*Kh*Kw, H_out*W_out)" (src/kernels/conv2d.hip:7): the
\* images of a batch have columns of their own.
ConvOfBatch ==
  Image({4}) => \A k_l \in Kernels(2, dims[2]), q \in Params :
    Fits(layout, k_l, q) /\ q.dilation = 1 /\ ConvFits(layout, k_l, q) => RocmConvOf("F32", layout, k_l, q)

\* The addresses under a window.
Windowed(size, stride) ==
  LET shape == SubSeq(dims, 1, 2) \o [d \in 1 .. 2 |-> (dims[d + 2] - size[d]) \div stride[d] + 1]
      window == Places(size)
  IN  [p \in 1 .. Size(shape) |-> [w \in DOMAIN window |->
        LET i == AtPosition(p - 1, shape)
        IN  At(<<i[1], i[2], i[3] * stride[1] + window[w][1], i[4] * stride[2] + window[w][2]>>)]]

\* Every place of the result takes the place of the image in the same share of it.
Nearest(target) ==
  LET shape == SubSeq(dims, 1, 2) \o target
  IN  [p \in 1 .. Size(shape) |->
        LET i == AtPosition(p - 1, shape)
        IN  At([d \in DOMAIN i |-> IF d <= 2 THEN i[d] ELSE (i[d] * dims[d]) \div shape[d]])]

RocmResizeExact ==
  \A t \in {"F32", "F64"} :
    /\ \A scale \in 1 .. 3 :
         LET target == [d \in DOMAIN Spatial(layout) |-> 1 + (dims[d + 2] * scale) \div 2]
         IN  Gives(rocm_upsample_nearest(t, layout, target), TRUE, t, Nearest(target))
    /\ rank = 4 => \A size, stride \in WindowSizes :
         (\A d \in 1 .. 2 : dims[d + 2] >= size[d]) =>
           Gives(rocm_pool2d(t, layout, size, stride), TRUE, t, Windowed(size, stride))
    /\ rank = 4 => \A r \in Resizes, align_corners \in BOOLEAN :
         r.target # Spatial(layout) \/ (is_contiguous(layout) /\ Len(data) = Size(dims)) =>
           Interpolates(rocm_upsample_bilinear2d(t, Len(data), layout, r.target, align_corners, r.factors).val,
                        r.target, align_corners, r.factors)

\* On ROCm, convolutions, pooling and upsampling read what their definitions
\* name, by im2col and one product, by a kernel, or by the detour: the places
\* that the threads write, and the rows of the product, follow the layout of
\* the result.
RocmImagesExact == Image({3, 4}) => RocmConvExact /\ RocmResizeExact

\* Every method of RocmStorage combines the elements that its definition by
\* indexes names, or fails where the other devices do not either.
RocmExact == RocmElementsExact /\ RocmCombinesExact /\ RocmImagesExact
=============================================================================
