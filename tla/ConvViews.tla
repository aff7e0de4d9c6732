----------------------------- MODULE ConvViews -----------------------------
(***************************************************************************)
(* Pooling, upsampling and convolutions on the images that the view        *)
(* operations make, and the gradients that backward derives for them.      *)
(***************************************************************************)
EXTENDS KernelViews, ConvKernels

\* Bounds: images have eight elements at most and are tried before a second
\* operation; kernels have two places at most, and two channels of their own.
Image(r) == ops <= 1 /\ rank \in r /\ Size(dims) \in 1 .. 8

Params ==
  {[padding |-> 0, stride |-> 1, dilation |-> 1], [padding |-> 1, stride |-> 1, dilation |-> 2],
   [padding |-> 0, stride |-> 2, dilation |-> 1], [padding |-> 1, stride |-> 2, dilation |-> 1]}

KernelDims(n) == IF n = 1 THEN {<<1>>, <<2>>} ELSE {<<1, 1>>, <<1, 2>>, <<2, 1>>}

\* Kernels of c1 by c2 channels: contiguous, and transposed, new and a part of a
\* larger tensor.
Kernels(c1, c2) ==
  UNION {{contiguous_with_offset(<<c1, c2>> \o ker, 1),
          transpose(contiguous_with_offset(<<c2, c1>> \o ker, 0), 1, 2),
          transpose(narrow(contiguous_with_offset(<<c2, c1 + 1>> \o ker, 0), 2, 1, c1), 1, 2)} :
           ker \in KernelDims(rank - 2)}

\* The least storage that a layout fits in.
Extent(l) == 1 + Address(l, [d \in DOMAIN l.dims |-> l.dims[d] - 1])

Fits(l, k_l, q) == \A d \in DOMAIN Spatial(l) : out_fits(Spatial(l)[d], Spatial(k_l)[d], q)

\* The definition of a convolution: place k of the kernel lies over place i of
\* the image when the window is at place o of the result.
Over(o, k, i, q) == \A d \in DOMAIN o : o[d] * q.stride + k[d] * q.dilation = i[d] + q.padding

\* The places of a space, in row-major order.
Places(space) == [p \in 1 .. Size(space) |-> AtPosition(p - 1, space)]

\* Sums are compared as bags of products.
SameSums(result, sums) ==
  /\ DOMAIN result = DOMAIN sums
  /\ \A p \in DOMAIN sums : \E terms \in result[p] : result[p] = {terms} /\ ToBag(terms) = ToBag(sums[p])

\* A convolution connects an image (b, c_in, i), a kernel (c_out, c_in, k) and a
\* result (b, c_out, o).  For the element x of one of them: the pairs of
\* elements of the other two that belong together.
ResultSum(image_l, kernel_l, x, q) ==
  LET n == Spatial(image_l)
      r == Len(n)
      space == Places(<<image_l.dims[2]>> \o n \o Spatial(kernel_l))
      Mine(y) == Over(SubSeq(x, 3, r + 2), SubSeq(y, r + 2, 2 * r + 1), SubSeq(y, 2, r + 1), q)
      Pair(y) == <<Address(image_l, <<x[1], y[1]>> \o SubSeq(y, 2, r + 1)),
                   Address(kernel_l, <<x[2], y[1]>> \o SubSeq(y, r + 2, 2 * r + 1))>>
      mine == SelectSeq(space, Mine)
  IN  [j \in DOMAIN mine |-> Pair(mine[j])]

ImageSum(result_l, kernel_l, x, q) ==
  LET n == Spatial(result_l)
      r == Len(n)
      space == Places(<<result_l.dims[2]>> \o n \o Spatial(kernel_l))
      Mine(y) == Over(SubSeq(y, 2, r + 1), SubSeq(y, r + 2, 2 * r + 1), SubSeq(x, 3, r + 2), q)
      Pair(y) == <<Address(result_l, <<x[1], y[1]>> \o SubSeq(y, 2, r + 1)),
                   Address(kernel_l, <<y[1], x[2]>> \o SubSeq(y, r + 2, 2 * r + 1))>>
      mine == SelectSeq(space, Mine)
  IN  [j \in DOMAIN mine |-> Pair(mine[j])]

KernelSum(image_l, result_l, x, q) ==
  LET n == Spatial(result_l)
      r == Len(n)
      space == Places(<<result_l.dims[1]>> \o n \o Spatial(image_l))
      Mine(y) == Over(SubSeq(y, 2, r + 1), SubSeq(x, 3, r + 2), SubSeq(y, r + 2, 2 * r + 1), q)
      Pair(y) == <<Address(image_l, <<y[1], x[2]>> \o SubSeq(y, r + 2, 2 * r + 1)),
                   Address(result_l, <<y[1], x[1]>> \o SubSeq(y, 2, r + 1))>>
      mine == SelectSeq(space, Mine)
  IN  [j \in DOMAIN mine |-> Pair(mine[j])]

Sums(shape, Sum(_)) == [p \in 1 .. Size(shape) |-> Sum(AtPosition(p - 1, shape))]

-----------------------------------------------------------------------------
(* Convolutions.                                                           *)

\* The arguments for which the algorithm that is chosen is right: conv1d reads
\* a kernel that is contiguous; conv2d_im2col_gemm one that is, or begins at
\* the begin of its storage; conv2d_tiled an image that it copies.
ConvFits(l, k_l, q) ==
  CASE Len(l.dims) = 3 -> is_contiguous(k_l)
    [] Len(l.dims) = 4 /\ Spatial(k_l) = <<1, 1>> -> is_contiguous(k_l) \/ k_l.start_offset = 0
    [] Len(l.dims) = 4 /\ Spatial(k_l) # <<1, 1>> -> ~layout_is_valid(l)

\* The sums of a convolution are those of its definition.
ConvOf(l, k_l, q) ==
  SameSums(conv(l, k_l, Extent(k_l), q),
           Sums(conv_dims(l, k_l, q), LAMBDA x : ResultSum(l, k_l, x, q)))

\* conv1d and conv2d sum up the products that the definition of a convolution
\* names, by each of their algorithms, on images and kernels of any layout
\* for which these are right, with any padding, stride and dilation.
ConvForwardExact ==
  Image({3, 4}) =>
    \A k_l \in Kernels(2, dims[2]), q \in Params :
      Fits(layout, k_l, q) /\ ConvFits(layout, k_l, q) => ConvOf(layout, k_l, q)

\* "Make contiguous input copy if needed." (cpu_backend/conv2d.rs:142):
\* conv2d does not depend on the strides of the image.
ConvCopies ==
  Image({4}) => \A k_l \in Kernels(2, dims[2]), q \in Params :
    Fits(layout, k_l, q) /\ k_l.start_offset = 0 => ConvOf(layout, k_l, q)

\* A transposed convolution exchanges the image and the result.
TransposeParams ==
  {[output_padding |-> n] @@ q : q \in Params, n \in 0 .. 1}

TransposeFits(l, k_l, t) ==
  /\ \A d \in DOMAIN Spatial(l) : out_len_transpose(Spatial(l)[d], Spatial(k_l)[d], t) > 0
  /\ Len(l.dims) = 3 /\ can_use_col2im(k_l, t) =>
       MergeFits(transpose(l, 2, 3), kernel_l_mm(l, k_l))

TransposeOf(l, k_l, t) ==
  LET n == Spatial(l)
      out == [d \in DOMAIN n |-> out_len_transpose(n[d], Spatial(k_l)[d], t)]
  IN  SameSums(IF Len(n) = 1 THEN conv_transpose1d(l, k_l, t) ELSE conv_transpose2d(l, k_l, t),
               Sums(<<l.dims[1], k_l.dims[2]>> \o out, LAMBDA x : ImageSum(l, k_l, x, t)))

\* conv_transpose1d and conv_transpose2d sum up the products that belong
\* together in the convolution they transpose, on every layout; unless
\* conv_transpose1d takes its image for one big matrix (MergeFits).
ConvTransposeExact ==
  Image({3, 4}) =>
    \A k_l \in Kernels(dims[2], 2), t \in TransposeParams :
      TransposeFits(layout, k_l, t) => TransposeOf(layout, k_l, t)

\* A convolution and the transposed one name the same products, whichever
\* algorithm is chosen for either.
ConvExact == ConvForwardExact /\ ConvTransposeExact

-----------------------------------------------------------------------------
(* Gradients of convolutions.                                              *)

\* The rest that out_padding stands for is the same in both dimensions.
SameRest(l, k_l, q) ==
  \A d \in DOMAIN Spatial(l) :
    LET Rest(e) == (Spatial(l)[e] + 2 * q.padding - q.dilation * (Spatial(k_l)[e] - 1) - 1) % q.stride
    IN  Rest(d) = Rest(1)

ConvArgGrad(l, k_l, q) ==
  LET grad_l == Grad(conv_dims(l, k_l, q))
  IN  SameSums(conv_arg_grad(l, k_l, q), Sums(l.dims, LAMBDA x : ImageSum(grad_l, k_l, x, q)))

ConvKernelGrad(l, k_l, q) ==
  LET grad_l == Grad(conv_dims(l, k_l, q))
  IN  SameSums(conv_kernel_grad(l, k_l, q), Sums(k_l.dims, LAMBDA x : KernelSum(l, grad_l, x, q)))

\* The convolutions that backward runs for conv2d and conv_transpose2d, with
\* batch and channels, stride and dilation exchanged, give each element of
\* the image and of the kernel the sum of the products that it is a factor of
\* in the forward pass; where they are right (ConvFits), and where one
\* out_padding does for both dimensions.
ConvBackwardExact ==
  Image({4}) =>
    /\ \A k_l \in Kernels(2, dims[2]), q \in Params :
         Fits(layout, k_l, q) =>
           /\ SameRest(layout, k_l, q) => ConvArgGrad(layout, k_l, q)
           /\ ConvFits(transpose(layout, 1, 2),
                       transpose(Grad(conv_dims(layout, k_l, q)), 1, 2), Exchanged(q)) =>
                ConvKernelGrad(layout, k_l, q)
    /\ \A k_l \in Kernels(dims[2], 2), t \in TransposeParams :
         TransposeFits(layout, k_l, t) /\ t.output_padding < t.stride =>
           LET grad_l == Grad(transpose_dims(layout, k_l, t))
           IN  /\ ConvFits(grad_l, k_l, t) =>
                    SameSums(transpose_arg_grad(layout, k_l, Extent(k_l), t),
                             Sums(dims, LAMBDA x : ResultSum(grad_l, k_l, x, t)))
               /\ ConvFits(transpose(grad_l, 1, 2), transpose(layout, 1, 2), Exchanged(t)) =>
                    SameSums(transpose_kernel_grad(layout, Extent(layout), k_l, t),
                             Sums(k_l.dims, LAMBDA x : KernelSum(grad_l, layout, x, t)))

\* "Make the kernel contiguous if not already the case." (cpu_backend/mod.rs:2750):
\* the gradient of the kernel of a conv1d is a conv1d by a gradient that is
\* transposed.
Conv1DKernelGrad ==
  Image({3}) =>
    \A k_l \in Kernels(2, dims[2]), q \in Params : Fits(layout, k_l, q) => ConvKernelGrad(layout, k_l, q)

\* A conv2d whose forward pass works has gradients.
ConvArgGradExists ==
  Image({4}) =>
    \A k_l \in Kernels(2, dims[2]), q \in Params : Fits(layout, k_l, q) => ConvArgGrad(layout, k_l, q)

-----------------------------------------------------------------------------
(* Pooling and upsampling.  Windows, and factors, are of at most two.      *)

WindowSizes == (1 .. 2) \X (1 .. 2)

Scaled(shape, scale) == [d \in DOMAIN shape |-> shape[d] * scale]

\* The windows of a pooling of whole images upsampled by the size of the window
\* consist of one element each, of every element in turn: forward and
\* backward passes undo each other.
PoolUndoesUpsample ==
  Image({4}) => \A size \in WindowSizes :
    LET target == [d \in 1 .. 2 |-> dims[d + 2] * size[d]]
        up == UpsampleNearest(layout, target)
        windows == PoolWindows(Grad(SubSeq(dims, 1, 2) \o target), size, size)
    IN  [p \in DOMAIN windows |-> {up[a + 1] : a \in ToSet(windows[p])}] =
          [p \in 1 .. Size(dims) |-> {At(AtPosition(p - 1, dims))}]

\* The share that source place s has in a position x on an axis of n places: it
\* falls linearly to 0 at the next places, beyond the ends of the axis the
\* end counts.
Share(s, x, n) ==
  LET at == IF x.num > (n - 1) * x.den THEN (n - 1) * x.den ELSE IF x.num < 0 THEN 0 ELSE x.num
      away == IF at > s * x.den THEN at - s * x.den ELSE s * x.den - at
  IN  IF away > x.den THEN 0 ELSE x.den - away

\* The position on the source axis: the corners, or else the borders, of the
\* axes coincide, or else the factor is as given.
AxisPosition(o, n, m, align_corners, factor) ==
  CASE align_corners -> IF m = 1 THEN Ratio(0, 1) ELSE Ratio(o * (n - 1), m - 1)
    [] ~align_corners /\ factor = NoFactor -> Ratio((2 * o + 1) * n - m, 2 * m)
    [] ~align_corners /\ factor # NoFactor -> Ratio((2 * o + 1) * factor.den - factor.num, 2 * factor.num)

\* Targets with and without a factor, which is NoFactor or a Ratio.
Resizes ==
  {[target |-> t, factors |-> <<NoFactor, NoFactor>>] : t \in {<<1, 3>>, <<5, 4>>, Spatial(layout)}}
    \cup {r \in {[target |-> [d \in 1 .. 2 |-> (dims[d + 2] * f.num) \div f.den],
                   factors |-> <<f, f>>] : f \in {Ratio(5, 2), Ratio(1, 2), Ratio(3, 2)}} :
             0 \notin ToSet(r.target) /\ r.target # Spatial(layout)}

\* The weights that the result gives to an address are the shares that the
\* elements stored there have in the position of the result.
Interpolates(result, target, align_corners, factors) ==
  LET shape == SubSeq(dims, 1, 2) \o target
      n == Spatial(layout)
      Weight(terms, a) ==
        FoldLeft(LAMBDA w, t : w + (IF t.at = a THEN t.weight ELSE 0), 0, terms)
      Whole(terms) == FoldLeft(LAMBDA w, t : w + t.weight, 0, terms)
      X(i, d) == AxisPosition(i[d + 2], n[d], target[d], align_corners, factors[d])
      ShareOf(i, a) ==
        FoldLeft(+, 0, [k \in 1 .. Size(dims) |->
          LET s == AtPosition(k - 1, dims)
          IN  IF s[1] = i[1] /\ s[2] = i[2] /\ At(s) = a
              THEN Share(s[3], X(i, 1), n[1]) * Share(s[4], X(i, 2), n[2]) ELSE 0])
  IN  /\ Len(result) = Size(shape)
      /\ \A p \in DOMAIN result : \A a \in ToSet(RM) :
           LET i == AtPosition(p - 1, shape)
           IN  Weight(result[p], a) * X(i, 1).den * X(i, 2).den = ShareOf(i, a) * Whole(result[p])

BilinearOf(r, align_corners) ==
  Interpolates(UpsampleBilinear2D(layout, Len(data), r.target, align_corners, r.factors),
               r.target, align_corners, r.factors)

\* Upsampling and pooling agree, and bilinear interpolation gives each place of
\* the source the weight that linear interpolation on both axes gives it, for
\* every layout; of a size that does not change, for a tensor that is the
\* whole of its storage.
ResizeExact ==
  /\ PoolUndoesUpsample
  /\ Image({4}) => \A r \in Resizes, align_corners \in BOOLEAN :
       r.target # Spatial(layout) \/ (is_contiguous(layout) /\ Len(data) = Size(dims)) =>
         BilinearOf(r, align_corners)

\* "Bilinear interpolation to resize the input tensor to the specified size."
\* (tensor.rs:1222): of every tensor, to every size.
BilinearAnyView == Image({4}) => \A r \in Resizes, align_corners \in BOOLEAN : BilinearOf(r, align_corners)

\* An element has a share in the gradient of a window exactly if it is in it.
AvgPoolGrad(size) ==
  LET windows == PoolWindows(Grad(dims), size, size)
      grad == avg_pool_grad(layout, size)
  IN  \A p \in 1 .. Size(dims), w \in DOMAIN windows : grad[p] = w - 1 <=> Contains(windows[w], p - 1)

Covered(size) == \A d \in 1 .. 2 : dims[d + 2] % size[d] = 0

\* The gradients of avg_pool2d, for windows that cover the image, and of
\* upsampling give an element what the elements that it went into had: the
\* transposes of the forward kernels.
PoolBackwardExact ==
  /\ Image({4}) => \A size \in WindowSizes : Covered(size) => AvgPoolGrad(size)
  /\ Image({3, 4}) => \A scale \in 1 .. 3 :
       LET up == UpsampleNearest(Grad(dims), Scaled(Spatial(layout), scale))
           grad == upsample_grad(layout, scale)
           Into(p) == SelectSeq([w \in DOMAIN up |-> w - 1], LAMBDA w : up[w + 1] = p - 1)
       IN  \A p \in 1 .. Size(dims) : \E terms \in grad[p] :
             grad[p] = {terms} /\ ToBag([j \in DOMAIN terms |-> terms[j][1]]) = ToBag(Into(p))

\* What backward gives to the argument of a convolution, transposed or not, of
\* pooling and of upsampling, is the transpose of the forward pass.
ImagesBackExact == ConvBackwardExact /\ PoolBackwardExact

\* "we scale the gradient for this case" (backprop.rs:370), where several
\* elements of a window are its maximum: the shares add up to one.
MaxPoolShares ==
  Image({4}) => \A size \in WindowSizes :
    LET windows == PoolWindows(Grad(dims), size, size)
        grad == max_pool_grad(layout, data, size)
        Shares(window) == FoldLeft(LAMBDA n, a : n + grad[a + 1].num, 0, window)
    IN  Covered(size) => \A w \in DOMAIN windows : Shares(windows[w]) = elem_count(size)

\* The same for windows that leave a border out.
AvgPoolBorder ==
  Image({4}) =>
    \A size \in WindowSizes : (\A d \in 1 .. 2 : dims[d + 2] >= size[d]) => AvgPoolGrad(size)
=============================================================================
