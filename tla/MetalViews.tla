----------------------------- MODULE MetalViews -----------------------------
(***************************************************************************)
(* The operations of MetalStorage on the tensors that the view operations  *)
(* make, as those of CudaStorage in CudaViews.                             *)
(***************************************************************************)
EXTENDS CudaViews, MetalStorage

MetalSome == {"F32", "I64", "F64"}

MetalElementsExact ==
  /\ \A t \in MetalSome :
       /\ Gives(metal_affine(t, layout), t # "F64", t, RM)
       /\ \A r \in {metal_powf(t, layout), metal_elu(t, layout), metal_unary_impl("uexp", t, layout)} :
            Gives(r, t = "F32", t, RM)
       /\ \A dtype \in MetalSome \ {t} : Gives(metal_to_dtype(t, layout, dtype), "F64" \notin {t, dtype}, dtype, RM)
       /\ \A r \in Others(dims) :
            LET pairs == PairsOf(r)
            IN  /\ Gives(metal_binary_impl(t, t, layout, r), t # "F64", t, pairs)
                /\ Gives(metal_cmp(t, t, layout, r), t # "F64", "U8", pairs)
                /\ Gives(metal_where_cond("U8", layout, t, r, t, layout), t # "F64", t,
                         TriplesOf(r))
       /\ Gives(metal_const_set(t, t, data, layout, None), t # "F64", t, Blanked(data))
  /\ \A t, dst_t \in MetalSome, offset \in 0 .. 2 :
       LET dst == Blank(offset + Size(dims) + 1)
           served == Size(dims) = 0 \/ t # "F64" \/ (t = dst_t /\ is_contiguous(layout))
       IN  Gives(metal_copy_strided_src(t, dst_t, data, dst, offset, layout), served, dst_t,
                 PutAt(dst, offset))

MetalCopy2dExact ==
  \A d1, d2, gap, o \in 0 .. 2 :
    (d1 - 1) * d2 + d2 <= Len(data) =>
      LET dst == Blank(o + d1 * (d2 + gap))
          Given(i) == {k \in (0 .. d1 - 1) \X (0 .. d2 - 1) : o + k[1] * (d2 + gap) + k[2] = i - 1}
      IN  Gives(metal_copy2d("F32", "F32", data, dst, d1, d2, d2, d2 + gap, 0, o), TRUE, "F32",
                [i \in DOMAIN dst |-> IF Given(i) = {} THEN None
                                      ELSE LET k == CHOOSE k \in Given(i) : TRUE
                                           IN  data[k[1] * d2 + k[2] + 1]])

-----------------------------------------------------------------------------
(* Reductions, indexes, products.                                          *)

MetalReduceExact ==
  \A ds \in SUBSET (1 .. rank) \ {{}} :
    LET up == SetToSortSeq(ds, <)
        sums(order) == metal_reduce_op("sum", "F32", layout, order)
        Bags(rows) == [p \in DOMAIN rows |-> ToBag(rows[p])]
    IN  /\ Gives(sums(up), TRUE, "F32", Reduced(ds))
        /\ Gives(metal_reduce_op("argmax", "F32", layout, up), TRUE, "U32", Reduced(ds))
        /\ Bags(sums(Reverse(up)).val) = Bags(Reduced(ds))

\* What gather takes from where the index says; of a tensor that is not
\* contiguous it is not (the CPU and CUDA refuse those).
MetalGatherReads(ids_dims, dim) ==
  LET x == contiguous_with_offset(ids_dims, 1)
  IN  \A ids \in IdPatterns(Size(ids_dims), dims[dim]) :
        Known(ids, dims[dim]) =>
          Gives(metal_gather("F32", layout, "U32", IdStorage(ids, x), x, dim), TRUE, "F32",
                [k \in DOMAIN ids |-> At([AtPosition(k - 1, ids_dims) EXCEPT ![dim] = ids[k]])])

MetalIndexSelectReads(n, dim) ==
  LET shape == [dims EXCEPT ![dim] = n]
  IN  \A ids \in IdPatterns(n, dims[dim]), x \in IdLayouts(n) :
        Known(ids, dims[dim]) =>
          Gives(metal_index_select("F32", layout, "U32", IdStorage(ids, x), x, dim),
                is_contiguous(x), "F32",
                [k \in 1 .. Size(shape) |->
                  LET i == AtPosition(k - 1, shape) IN At([i EXCEPT ![dim] = ids[i[dim] + 1]])])

MetalTakes(src_dims, dim) ==
  LET n == src_dims[dim]
      row == contiguous_with_offset(<<n>>, 1)
      x == contiguous_with_offset(src_dims, 1)
      src_l == contiguous_with_offset(src_dims, 2)
      From(p, Ids(_)) == FromSource(Taken(p, src_dims, dim, Ids))
  IN  /\ \A ids \in IdPatterns(n, dims[dim]) :
           Known(ids, dims[dim]) =>
             Gives(metal_index_add("F32", layout, "U32", IdStorage(ids, row), row, src_l, dim), TRUE, "F32",
                   [p \in 1 .. Size(dims) |->
                     [base |-> At(AtPosition(p - 1, dims)), added |-> From(p, LAMBDA k : ids[AtPosition(k - 1, src_dims)[dim] + 1])]])
      /\ \A ids \in IdPatterns(Size(src_dims), dims[dim]) :
           Known(ids, dims[dim]) =>
             LET stored == IdStorage(ids, x)
                 added == [p \in 1 .. Size(dims) |-> From(p, LAMBDA k : ids[k])]
             IN  /\ Gives(metal_scatter_add_set("F32", layout, "U32", stored, x, src_l, dim),
                          is_contiguous(layout), "F32", added)
                 /\ Gives(metal_scatter_set("F32", layout, "U32", stored, x, src_l, dim),
                          is_contiguous(layout), "F32",
                          [p \in 1 .. Size(dims) |-> IF added[p] = <<>> THEN <<>> ELSE <<Last(added[p])>>])

MetalIndexedExact ==
  \A dim \in 1 .. rank, n \in 1 .. 2 :
    LET shape == [dims EXCEPT ![dim] = n]
    IN  /\ is_contiguous(layout) => MetalGatherReads(shape, dim)
        /\ MetalIndexSelectReads(n, dim) /\ MetalTakes(shape, dim)

MetalMatMulExact ==
  \A f \in Factors : Accepted(f) => NeverWrong(metal_matmul("F32", f[1], f[2]), "F32", ProductOf(f[1], f[2]))

\* A gather on Metal reads the elements that it names, of any view.
MetalGatherAnyView ==
  Size(dims) > 0 => \A dim \in 1 .. rank : MetalGatherReads([dims EXCEPT ![dim] = 1], dim)

-----------------------------------------------------------------------------
(* Images.                                                                 *)

\* A kernel that is not contiguous is read as if it were.
MetalConvExact ==
  \A k_l \in Kernels(2, dims[2]), q \in Params :
    Fits(layout, k_l, q) /\ is_contiguous(k_l) =>
      HasSums(IF rank = 3 THEN metal_conv1d("F32", layout, k_l, q) ELSE metal_conv2d("F32", layout, k_l, q),
              Sums(conv_dims(layout, k_l, q), LAMBDA x : ResultSum(layout, k_l, x, q)))

MetalConvTransposeExact ==
  \A k_l \in Kernels(dims[2], 2), q \in TransposeParams :
    (\A d \in DOMAIN Spatial(layout) : out_len_transpose(Spatial(layout)[d], Spatial(k_l)[d], q) > 0) =>
      LET n == Spatial(layout)
          out == [d \in DOMAIN n |-> out_len_transpose(n[d], Spatial(k_l)[d], q)]
          Of(r) ==
            /\ is_contiguous(layout) => r.ok
            /\ SumsIfAny(r, "F32", Sums(<<dims[1], k_l.dims[2]>> \o out, LAMBDA x : ImageSum(layout, k_l, x, q)))
      IN  Of(IF rank = 3 THEN metal_conv_transpose1d("F32", layout, k_l, q)
             ELSE metal_conv_transpose2d("F32", layout, k_l, q))

\* The poolings read from the begin of the buffer.
MetalResizeExact ==
  /\ \A scale \in 1 .. 3 :
       LET target == [d \in DOMAIN Spatial(layout) |-> 1 + (dims[d + 2] * scale) \div 2]
       IN  Gives(metal_upsample_nearest("F32", layout, target), rank = 4, "F32", Nearest(target))
  /\ rank = 4 /\ layout.start_offset = 0 => \A size, stride \in WindowSizes :
       (\A d \in 1 .. 2 : dims[d + 2] >= size[d]) =>
         Gives(metal_pool2d("F32", layout, size, stride), TRUE, "F32", Windowed(size, stride))

\* A pooling on Metal reads the windows of its image, of any view.
MetalPoolAnyView ==
  Image({4}) => \A size, stride \in WindowSizes :
    (\A d \in 1 .. 2 : dims[d + 2] >= size[d]) =>
      Gives(metal_pool2d("F32", layout, size, stride), TRUE, "F32", Windowed(size, stride))

=============================================================================
