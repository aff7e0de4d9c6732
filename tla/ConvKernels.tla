---------------------------- MODULE ConvKernels ----------------------------
(***************************************************************************)
(* The kernels of the CPU backend that slide a window over images:         *)
(* pooling, upsampling (cpu_backend/mod.rs) and the convolutions, of which *)
(* several algorithms exist (cpu_backend/mod.rs, cpu_backend/conv2d.rs).   *)
(*                                                                         *)
(* As in CpuKernels an element of a result is given by the addresses it is *)
(* computed from; a sum of products by a sequence of pairs of addresses.   *)
(* Images have the dimensions batch, channel and then one or two others,   *)
(* kernels output channel (for the transposed ones: input channel), input  *)
(* channel, and as many.  Groups are left out.                             *)
(***************************************************************************)
EXTENDS CpuKernels

TILE_SIZE == 3   \* bound: 512 in the code

\* The counters, from 0, in the k-th round of loops nested in the order of dims.
Counters(k, dims) == [d \in DOMAIN dims |-> ((k - 1) \div CountAfter(dims, d)) % dims[d]]

\* start_offset and the counters times the strides.
ReadAt(l, i) == l.start_offset + FoldLeft(+, 0, [d \in DOMAIN i |-> i[d] * l.stride[d]])

\* The dimensions after batch and channel.
Spatial(l) == SubSeq(l.dims, 3, Len(l.dims))

-----------------------------------------------------------------------------
(* Pooling and upsampling.                                                 *)

\* AvgPool2D and MaxPool2D.
PoolDims(l, size, stride) ==
  SubSeq(l.dims, 1, 2) \o [d \in 1 .. 2 |-> (l.dims[d + 2] - size[d]) \div stride[d] + 1]

PoolWindows(l, size, stride) ==
  LET out == PoolDims(l, size, stride)
      In(i, o) == <<i[1], i[2]>> \o [d \in 1 .. 2 |-> stride[d] * i[d + 2] + o[d]]
  IN  [p \in 1 .. elem_count(out) |->
        [w \in 1 .. elem_count(size) |-> ReadAt(l, In(Counters(p, out), Counters(w, size)))]]

Smaller(m, n) == IF m < n THEN m ELSE n

\* src_idxs; the products of an index and a ratio are exact here.
nearest(idx, src_sz, dst_sz) == Smaller(src_sz - 1, (idx * src_sz) \div dst_sz)

\* UpsampleNearest1D and UpsampleNearest2D.
UpsampleNearest(l, target) ==
  LET out == SubSeq(l.dims, 1, 2) \o target
  IN  [p \in 1 .. elem_count(out) |->
        LET i == Counters(p, out)
        IN  ReadAt(l, [d \in DOMAIN i |-> IF d <= 2 THEN i[d] ELSE nearest(i[d], l.dims[d], out[d])])]

\* A rational number.
Ratio(num, den) == [num |-> num, den |-> den]

NoFactor == Ratio(0, 0)   \* scale_h_factor, scale_w_factor: None

\* Input size over output size, or the inverse of a scale factor.
bilinear_scale(n_in, n_out, align_corners, scale_factor) ==
  CASE align_corners -> IF n_out > 1 THEN Ratio(n_in - 1, n_out - 1) ELSE Ratio(0, 1)
    [] ~align_corners /\ scale_factor # NoFactor -> Ratio(scale_factor.den, scale_factor.num)
    [] OTHER -> Ratio(n_in, n_out)

\* Mutant: the centers of the pixels are not aligned.
bilinear_pos_corner(o, scale, align_corners) == Ratio(scale.num * o, scale.den)

\* src_h_clamped, src_w_clamped.
bilinear_pos(o, scale, align_corners) ==
  IF align_corners THEN Ratio(scale.num * o, scale.den)
  ELSE LET num == scale.num * (2 * o + 1) - scale.den
       IN  Ratio(IF num < 0 THEN 0 ELSE num, 2 * scale.den)

\* The entries of h_indices, w_indices: two neighbours and the weight, over the
\* denominator of the position, of the second.
bilinear_index(pos, n_in) ==
  LET i0 == pos.num \div pos.den
  IN  [i0 |-> i0, i1 |-> Smaller(i0 + 1, n_in - 1), weight |-> pos.num % pos.den, den |-> pos.den]

\* For each element four addresses with their weights.
FourTaps(l, i, h, w) ==
  LET Tap(y, x, weight) == [at |-> ReadAt(l, <<i[1], i[2], y, x>>), weight |-> weight]
  IN  <<Tap(h.i0, w.i0, (h.den - h.weight) * (w.den - w.weight)),
        Tap(h.i0, w.i1, (h.den - h.weight) * w.weight),
        Tap(h.i1, w.i0, h.weight * (w.den - w.weight)),
        Tap(h.i1, w.i1, h.weight * w.weight)>>

BilinearTaps(l, target, align_corners, factors) ==
  LET out == SubSeq(l.dims, 1, 2) \o target
      Index(d, o) ==
        bilinear_index(bilinear_pos(o, bilinear_scale(l.dims[d], out[d], align_corners, factors[d - 2]),
                                    align_corners), l.dims[d])
      Four(i) ==
        FourTaps(l, i, Index(3, i[3]), Index(4, i[4]))
  IN  [p \in 1 .. elem_count(out) |-> Four(Counters(p, out))]

\* UpsampleBilinear2D: of a size that does not change the whole storage.
UpsampleBilinear2D(l, storage_len, target, align_corners, factors) ==
  IF Spatial(l) = target
  THEN [p \in 1 .. storage_len |-> <<[at |-> p - 1, weight |-> 1]>>]
  ELSE BilinearTaps(l, target, align_corners, factors)

-----------------------------------------------------------------------------
(* Convolutions.  q has padding, stride and dilation.                      *)

\* l_out, out_h, out_w, hw_out; a window that is too large underflows.
out_fits(n, k, q) == n + 2 * q.padding >= q.dilation * (k - 1) + 1
out_len(n, k, q) == (n + 2 * q.padding - q.dilation * (k - 1) - 1) \div q.stride + 1

OutLens(inp_l, k_l, q) ==
  [d \in DOMAIN Spatial(inp_l) |-> out_len(Spatial(inp_l)[d], Spatial(k_l)[d], q)]

\* The place in the image, before padding is subtracted, that place o of the
\* window reads for place i of the result.
Under(i, o, q) == [d \in DOMAIN i |-> i[d] * q.stride + o[d] * q.dilation]

Outside(s, n, q) == \E d \in DOMAIN s : s[d] < q.padding \/ s[d] >= n[d] + q.padding

\* Im2Col1D and Im2Col: a matrix for each image, a row for each place of the
\* result.  None stands for the zero of the padding.
Im2Col(l, ker, q) ==
  LET n == Len(ker)
      out == [d \in 1 .. n |-> out_len(Spatial(l)[d], ker[d], q)]
      col_dims == <<l.dims[1]>> \o out \o <<l.dims[2]>> \o ker
  IN  [j \in 1 .. elem_count(col_dims) |->
        LET i == Counters(j, col_dims)
            s == Under(SubSeq(i, 2, n + 1), SubSeq(i, n + 3, 2 * n + 2), q)
        IN  IF q.padding # 0 /\ Outside(s, Spatial(l), q) THEN None
            ELSE ReadAt(l, <<i[1], i[n + 2]>> \o [d \in 1 .. n |-> s[d] - q.padding])]

\* What a gemm on lhs and rhs, given as the addresses their elements are from,
\* sums up; the zeros of the padding add nothing.
Products(terms, lhs, rhs) ==
  {SelectSeq([t \in DOMAIN w |-> <<lhs[w[t][1] + 1], rhs[w[t][2] + 1]>>], LAMBDA x : x[1] # None) :
     w \in terms}

\* The elements of a product at the addresses from.
ProductsAt(from, res, lhs, rhs) == [p \in DOMAIN from |-> Products(res[from[p] + 1], lhs, rhs)]

\* Of a product of the operands in the other order.
Exchange(S) == {[t \in DOMAIN w |-> <<w[t][2], w[t][1]>>] : w \in S}

Storage(n) == [a \in 1 .. n |-> a - 1]

\* conv1d, and conv2d_im2col_gemm, of which only the latter uses the copy that
\* it makes of a kernel that is not contiguous.
ConvIm2Col(inp_l, k_l, k_len, q) ==
  LET b == inp_l.dims[1]
      n == k_l.dims[1]
      k == CountAfter(k_l.dims, 1)
      out == OutLens(inp_l, k_l, q)
      m == elem_count(out)
      copied == Len(out) = 2 /\ ~is_contiguous(k_l)
      \* What lies beyond a copy is not there: slicing it panics.
      kernel == IF copied THEN unary_map(k_l) \o [i \in 1 .. k_len |-> None] ELSE Storage(k_len)
      kernel_l == broadcast_as(
        transpose(contiguous_with_offset(<<1, n, k>>, k_l.start_offset), 2, 3), <<b, k, n>>)
  IN  ProductsAt(strided_index(transpose(contiguous_with_offset(<<b, m, n>>, 0), 2, 3)),
                 MatMul(contiguous_with_offset(<<b, m, k>>, 0), kernel_l),
                 Im2Col(inp_l, Spatial(k_l), q), kernel)

\* conv2d_1x1: one product of matrices for each image.
conv2d_1x1(inp_l, k_l) ==
  LET c_out == k_l.dims[1]
      c_in == k_l.dims[2]
      spatial == elem_count(Spatial(inp_l))
      k_reshaped ==
        [j \in 1 .. c_out * c_in |-> ReadAt(k_l, <<(j - 1) \div c_in, (j - 1) % c_in>>)]
      inp_reshaped(b) ==
        [j \in 1 .. c_in * spatial |-> ReadAt(inp_l, <<b>> \o Counters(j, Tail(inp_l.dims)))]
      res == MatMul(contiguous_with_offset(<<c_out, c_in>>, 0),
                    contiguous_with_offset(<<c_in, spatial>>, 0))
  IN  [p \in 1 .. inp_l.dims[1] * c_out * spatial |->
        LET b == (p - 1) \div (c_out * spatial)
        IN  Products(Exchange(res[((p - 1) % (c_out * spatial)) + 1]), inp_reshaped(b), k_reshaped)]

\* layout_is_valid: the input is used as it is if its strides are those of a
\* copy whose dimensions are batch, height, width, channel.
layout_is_valid(l) ==
  l.stride = <<CountAfter(l.dims, 1), l.dims[4] * l.dims[2], l.dims[2], 1>>

\* conv2d_tiled.
conv2d_tiled(inp_l, k_l, q) ==
  LET c_out == k_l.dims[1]
      c_in == k_l.dims[2]
      ker == Spatial(k_l)
      n == Spatial(inp_l)
      k_size == c_in * elem_count(ker)
      out == OutLens(inp_l, k_l, q)
      total == elem_count(out)
      inp_cont(b, y, x, c) ==
        IF layout_is_valid(inp_l)
        THEN inp_l.start_offset + ((b * n[1] + y) * n[2] + x) * c_in + c
        ELSE ReadAt(inp_l, <<b, c, y, x>>)
      k_flat ==
        [j \in 1 .. c_out * k_size |->
          LET i == Counters(j, <<c_out, ker[1], ker[2], c_in>>)
          IN  ReadAt(k_l, <<i[1], i[4], i[2], i[3]>>)]
      \* The columns of the tile that starts at output place from.
      Patch(b, from, size) ==
        [j \in 1 .. k_size * size |->
          LET i == Counters(j, <<ker[1], ker[2], c_in, size>>)
              s == Under(Counters(from + i[4] + 1, out), <<i[1], i[2]>>, q)
          IN  IF Outside(s, n, q) THEN None
              ELSE inp_cont(b, s[1] - q.padding, s[2] - q.padding, i[3])]
      Element(b, c, idx) ==
        LET from == (idx \div TILE_SIZE) * TILE_SIZE
            size == Smaller(TILE_SIZE, total - from)
            res == MatMul(contiguous_with_offset(<<c_out, k_size>>, 0),
                          contiguous_with_offset(<<k_size, size>>, 0))
        IN  Products(Exchange(res[(c * size) + (idx % TILE_SIZE) + 1]), Patch(b, from, size), k_flat)
  IN  [p \in 1 .. inp_l.dims[1] * c_out * total |->
        LET i == Counters(p, <<inp_l.dims[1], c_out, total>>)
        IN  Element(i[1], i[2], i[3])]

\* The choice made by Conv2D.
conv2d(inp_l, k_l, k_len, q) ==
  LET one_by_one == Spatial(k_l) = <<1, 1>>
      plain == q.stride = 1 /\ q.padding = 0 /\ q.dilation = 1
  IN  CASE one_by_one /\ plain -> conv2d_1x1(inp_l, k_l)
        [] one_by_one /\ ~plain -> ConvIm2Col(inp_l, k_l, k_len, q)
        [] OTHER -> conv2d_tiled(inp_l, k_l, q)

-----------------------------------------------------------------------------
(* Transposed convolutions.                                                *)

\* l_out, out_h, out_w; as integers (the code underflows before it adds).
out_len_transpose(n, k, q) ==
  (n - 1) * q.stride + q.dilation * (k - 1) + q.output_padding + 1 - 2 * q.padding

\* The order in which ConvTranspose1D and 2D go through kernel and image, and
\* what each round adds to the place of the result that it falls on.
ConvTransposeDirect(inp_l, k_l, q) ==
  LET ker == Spatial(k_l)
      n == Spatial(inp_l)
      out == [d \in DOMAIN n |-> out_len_transpose(n[d], ker[d], q)]
      c_in == inp_l.dims[2]
      rounds == ker \o n
      Target(i) == Under(SubSeq(i, Len(n) + 1, 2 * Len(n)), SubSeq(i, 1, Len(n)), q)
      Dot(b, c, i) ==
        [c_in_idx \in 1 .. c_in |->
          <<ReadAt(inp_l, <<b, c_in_idx - 1>> \o SubSeq(i, Len(n) + 1, 2 * Len(n))),
            ReadAt(k_l, <<c_in_idx - 1, c>> \o SubSeq(i, 1, Len(n)))>>]
      dst_dims == <<inp_l.dims[1], k_l.dims[2]>> \o out
  IN  [p \in 1 .. elem_count(dst_dims) |->
        LET at == Counters(p, dst_dims)
            Hits(r) == Target(Counters(r, rounds)) = [d \in DOMAIN n |-> at[d + 2] + q.padding]
            mine == SelectSeq([r \in 1 .. elem_count(rounds) |-> r], Hits)
        IN  {FlattenSeq([j \in DOMAIN mine |-> Dot(at[1], at[2], Counters(mine[j], rounds))])}]

\* The kernel as a matrix, repeated over the batch.
kernel_l_mm(l, k_l) ==
  LET n == CountAfter(k_l.dims, 1)
  IN  Layout(<<l.dims[1], l.dims[2], n>>, <<0, n, 1>>, k_l.start_offset)

\* The places of the columns that each place of the result adds up.
Col2Im1D(b, l_in, c_out, k_size, stride) ==
  LET dst_dims == <<b, c_out, (l_in - 1) * stride + k_size>>
      Rounds(at) == SelectSeq([r \in 1 .. l_in * k_size |-> Counters(r, <<l_in, k_size>>)],
                              LAMBDA i : i[1] * stride + i[2] = at[3])
      Src(at, i) == ((at[1] * l_in + i[1]) * c_out + at[2]) * k_size + i[2]
      Of(at, rounds) == [j \in DOMAIN rounds |-> Src(at, rounds[j])]
  IN  [p \in 1 .. elem_count(dst_dims) |->
        LET at == Counters(p, dst_dims) IN Of(at, Rounds(at))]

\* Sums of sums, of which each has one value.
AddedUp(sums) ==
  IF \A j \in DOMAIN sums : \E t \in sums[j] : sums[j] = {t}
  THEN {FlattenSeq([j \in DOMAIN sums |-> CHOOSE t \in sums[j] : TRUE])}
  ELSE {}

Columns(col, im) == [p \in DOMAIN im |-> AddedUp([j \in DOMAIN im[p] |-> col[im[p][j] + 1]])]

\* The product and Col2Im1D.
ConvTransposeCol2Im(l, k_l, q) ==
  Columns(MatMul(transpose(l, 2, 3), kernel_l_mm(l, k_l)),
          Col2Im1D(l.dims[1], l.dims[3], k_l.dims[2], k_l.dims[3], q.stride))

\* Mutant: padding is not looked at.
can_use_col2im_padded(k_l, q) == is_contiguous(k_l) /\ q.dilation = 1 /\ q.output_padding = 0

can_use_col2im(k_l, q) ==
  is_contiguous(k_l) /\ q.dilation = 1 /\ q.padding = 0 /\ q.output_padding = 0

conv_transpose1d(l, k_l, q) ==
  IF can_use_col2im(k_l, q) THEN ConvTransposeCol2Im(l, k_l, q)
  ELSE ConvTransposeDirect(l, k_l, q)

conv_transpose2d(l, k_l, q) == ConvTransposeDirect(l, k_l, q)

-----------------------------------------------------------------------------
(* The arms of Tensor::backward (backprop.rs) for pooling, upsampling and  *)
(* convolutions: which kernels they call, and with which arguments.        *)
(*                                                                         *)
(* grad is contiguous, as it is when it is a sum.  A gradient is given for *)
(* each element of the argument in row-major order, in the form that the   *)
(* kernels return; Err is an addition to a gradient of another shape.      *)
(* Sizes are integers: a difference that is negative on the way wraps      *)
(* around and back in a build that does not check.                         *)

Grad(dims) == contiguous_with_offset(dims, 0)

\* The element c of the first dimension and d of the second, exchanged in the
\* result, then narrowed to the dimensions ker.
TransposedNarrowed(res, res_dims, dims) ==
  [p \in 1 .. elem_count(dims) |->
    LET i == Counters(p, dims)
        j == Swap(i, 1, 2)
    IN  res[1 + FoldLeft(+, 0, [d \in DOMAIN j |-> j[d] * CountAfter(res_dims, d)])]]

\* Mutant: stride and dilation keep their places.
NotExchanged(q) == q

\* padding, dilation, stride where padding, stride, dilation are asked for.
Exchanged(q) == [q EXCEPT !.stride = q.dilation, !.dilation = q.stride]

conv(inp_l, k_l, k_len, q) ==
  IF Len(inp_l.dims) = 3 THEN ConvIm2Col(inp_l, k_l, k_len, q) ELSE conv2d(inp_l, k_l, k_len, q)

conv_dims(inp_l, k_l, q) == <<inp_l.dims[1], k_l.dims[1]>> \o OutLens(inp_l, k_l, q)

\* The convolution over the batch that gives the gradient of a kernel.
KernelGrad(inp_l, k_l, k_len, q, dims) ==
  LET a == transpose(inp_l, 1, 2)
      k == transpose(k_l, 1, 2)
      e == Exchanged(q)
  IN  TransposedNarrowed(conv(a, k, k_len, e), conv_dims(a, k, e), dims)

\* What out_padding is the rest of; of the first dimension of the image alone.
out_size(grad_l, k_l, q) ==
  (grad_l.dims[3] - 1) * q.stride + q.dilation * (k_l.dims[3] - 1) + 1 - 2 * q.padding

\* Op::Conv1D and Op::Conv2D.
conv_arg_grad(arg_l, k_l, q) ==
  LET grad_l == Grad(conv_dims(arg_l, k_l, q))
      t == [output_padding |-> arg_l.dims[3] - out_size(grad_l, k_l, q)] @@ q
      n == Spatial(grad_l)
      dims == [d \in DOMAIN n |-> out_len_transpose(n[d], Spatial(k_l)[d], t)]
  IN  CASE dims # Spatial(arg_l) -> Err
        [] dims = Spatial(arg_l) /\ Len(n) = 1 -> conv_transpose1d(grad_l, k_l, t)
        [] dims = Spatial(arg_l) /\ Len(n) = 2 -> conv_transpose2d(grad_l, k_l, t)

conv_kernel_grad(arg_l, k_l, q) ==
  LET dims == conv_dims(arg_l, k_l, q)
  IN  KernelGrad(arg_l, Grad(dims), elem_count(dims), q, k_l.dims)

\* Op::ConvTranspose2D; Op::ConvTranspose1D has no gradient.
transpose_dims(arg_l, k_l, q) ==
  <<arg_l.dims[1], k_l.dims[2]>>
    \o [d \in 1 .. 2 |-> out_len_transpose(Spatial(arg_l)[d], Spatial(k_l)[d], q)]

transpose_arg_grad(arg_l, k_l, k_len, q) ==
  LET grad_l == Grad(transpose_dims(arg_l, k_l, q))
  IN  IF conv_dims(grad_l, k_l, q) # <<arg_l.dims[1], arg_l.dims[2]>> \o Spatial(arg_l) THEN Err
      ELSE conv2d(grad_l, k_l, k_len, q)

transpose_kernel_grad(arg_l, arg_len, k_l, q) ==
  KernelGrad(Grad(transpose_dims(arg_l, k_l, q)), arg_l, arg_len, q, k_l.dims)

-----------------------------------------------------------------------------
(* Pooling and upsampling.                                                 *)

\* Op::AvgPool2D, of windows that do not overlap: the element of grad whose
\* share an element of arg takes.
avg_pool_grad(arg_l, size) ==
  UpsampleNearest(Grad(PoolDims(arg_l, size, size)), Spatial(arg_l))

\* Op::MaxPool2D, likewise, for the elements with the given values: the share of
\* grad is num / den.
max_pool_grad(arg_l, values, size) ==
  LET value(a) == values[a + 1]
      windows == PoolWindows(arg_l, size, size)
      node == [p \in DOMAIN windows |->
                CHOOSE v \in {value(a) : a \in ToSet(windows[p])} :
                  \A a \in ToSet(windows[p]) : value(a) <= v]
      up == UpsampleNearest(Grad(PoolDims(arg_l, size, size)), Spatial(arg_l))
      arg == strided_index(arg_l)
      mask == [p \in DOMAIN arg |-> value(arg[p]) = node[up[p] + 1]]
      mask_windows == PoolWindows(Grad(arg_l.dims), size, size)
      avg == [p \in DOMAIN mask_windows |->
               Ratio(Len(SelectSeq(mask_windows[p], LAMBDA a : mask[a + 1])), elem_count(size))]
  IN  [p \in DOMAIN arg |->
        [at |-> up[p], num |-> IF mask[p] THEN avg[up[p] + 1].num ELSE 0, den |-> elem_count(size)]]

\* cat(groups, 1), of groups of one channel each.
Concatenated(dims, group) ==
  [p \in 1 .. elem_count(dims) |->
    LET i == Counters(p, dims)
    IN  group[i[2] + 1][1 + i[1] * CountAfter(dims, 2) + ((p - 1) % CountAfter(dims, 2))]]

\* Op::UpsampleNearest1D and 2D: a convolution by ones with a group for each
\* channel, the groups then being concatenated.
upsample_grad(arg_l, scale) ==
  LET n == Len(Spatial(arg_l))
      c == arg_l.dims[2]
      grad_l == Grad(<<arg_l.dims[1], c>> \o [d \in 1 .. n |-> Spatial(arg_l)[d] * scale])
      ones == contiguous_with_offset(<<c, 1>> \o [d \in 1 .. n |-> scale], 0)
      q == [padding |-> 0, stride |-> scale, dilation |-> 1]
  IN  Concatenated(arg_l.dims,
        [g \in 1 .. c |-> conv(narrow(grad_l, 2, g - 1, 1), narrow(ones, 1, g - 1, 1),
                               elem_count(ones.dims), q)])
=============================================================================
