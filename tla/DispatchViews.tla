--------------------------- MODULE DispatchViews ---------------------------
(***************************************************************************)
(* Storages of any devices and dtypes, on the tensors that the view        *)
(* operations make: an operation on storages of different devices fails,   *)
(* and one that two devices both have gives the same elements on both.     *)
(***************************************************************************)
EXTENDS MetalViews, StorageDispatch

\* Bound: two devices for one GPU and one for another.
Dev(kind, gpu, id) == [kind |-> kind, gpu |-> gpu, id |-> id]
Devices ==
  {Dev("Cpu", 0, 0), Dev("Cuda", 0, 1), Dev("Cuda", 0, 2), Dev("Cuda", 1, 3), Dev("Metal", 0, 4),
   Dev("Metal", 0, 5), Dev("Rocm", 0, 6), Dev("Rocm", 0, 7), Dev("Rocm", 1, 8)}

On(d, t) == [on |-> d, t |-> t]

\* One device of each kind.
Kinds == {Dev("Cpu", 0, 0), Dev("Cuda", 0, 1), Dev("Metal", 0, 4), Dev("Rocm", 0, 6)}

-----------------------------------------------------------------------------
(* Two storages.                                                           *)

\* An operation that gives a result had its arguments on one GPU, on Metal in
\* one of its devices; on one device it gives a result.
OneDevice(result, d, e) ==
  /\ result.ok => location(d) = location(e) /\ (d.kind = "Metal" => d = e)
  /\ d = e => result.ok

\* The dtype that two operands meet in.
Met(t, u) == IF t = "F8E4M3" THEN u ELSE t

\* What the backends take care of.  Metal does not look at the dtype of rhs; see
\* MixedFits for ROCm; a cast operand is read with the layout from before it.
PairFits(d, t, u, r) ==
  /\ t # u /\ "F8E4M3" \notin {t, u} => /\ d.kind # "Metal"
                                        /\ d.kind = "Rocm" => MixedFits("mul", t, u, r)
  /\ t # u => CastFits(t, layout) /\ CastFits(u, r)

PairTypes == {"F32", "BF16", "F8E4M3"}

\* Between any devices, with a repeated operand.
OneDeviceEach ==
  LET r == broadcast_as(contiguous_with_offset(<<>>, 1), dims)
  IN  \A d, e \in Devices :
        /\ OneDevice(binary_impl(On(d, "F32"), On(e, "F32"), data, data, layout, r), d, e)
        /\ OneDevice(where_cond(On(d, "U8"), On(e, "F32"), On(e, "F32"), layout, layout, r), d, e)
        /\ storage_copy(On(d, "F32"), On(e, "F32"), data, Blank(Size(dims)), 0, layout).ok <=> d.kind = e.kind

DtypesMeet ==
  \A r \in Others(dims), t, u \in PairTypes, d \in Kinds :
    /\ PairFits(d, t, u, r) =>
         NeverWrong(binary_impl(On(d, t), On(d, u), data, data, layout, r), Met(t, u), PairsOf(r))
    /\ t # u => ~cmp(On(d, t), On(d, u), layout, r).ok

\* "Let each device backend handle dtype mismatches internally" (storage.rs:481):
\* elements of another dtype are cast or refused.
DtypesHandled ==
  \A r \in Others(dims), d \in Kinds :
    LET product == binary_impl(On(d, "F32"), On(d, "F16"), data, data, layout, r)
    IN  NeverWrong(product, "F32", PairsOf(r))

\* "Auto-cast FP8 operands for binary ops" (storage.rs:469), of any layouts.
AutoCast ==
  \A r \in Others(dims), d \in Kinds :
    NeverWrong(binary_impl(On(d, "F32"), On(d, "F8E4M3"), data, data, layout, r), "F32", PairsOf(r))

-----------------------------------------------------------------------------
(* One program on each kind of device.                                     *)

\* Results of the same elements.
Agree(Result(_)) ==
  LET given == {x \in {Result(d) : d \in Kinds} : x.ok} IN Cardinality(given) <= 1

\* What is added up in different orders.
AgreeInSums(Result(_)) ==
  LET InBags(x) == Only(x.ok, x.t, [p \in DOMAIN x.val |-> ToBag(x.val[p])])
  IN  Agree(LAMBDA d : InBags(Result(d)))

AgreeElements(t) ==
  /\ \A dtype \in SomeTypes \ {t} : Agree(LAMBDA d : to_dtype(On(d, t), data, layout, dtype))
  /\ Agree(LAMBDA d : affine(On(d, t), layout))
  /\ Agree(LAMBDA d : powf(On(d, t), layout))
  /\ Agree(LAMBDA d : elu(On(d, t), layout))
  /\ Agree(LAMBDA d : unary_impl(On(d, t), layout))

\* ROCm gives F32 for sums and best elements of F16 and BF16.
AgreeReductions(t) ==
  \A dim \in 1 .. rank :
    /\ t \notin {"F16", "BF16"} => AgreeInSums(LAMBDA d : reduce_op("sum", On(d, t), layout, dim))
    /\ ~(DividesByStride(layout, dim) /\ layout.stride[dim] = 0) =>
         AgreeInSums(LAMBDA d : reduce_op("argmax", On(d, t), layout, dim))

AgreeIndexed(t) ==
  \A dim \in 1 .. rank :
    LET shape == [dims EXCEPT ![dim] = 2]
        x == contiguous_with_offset(shape, 1)
        row == contiguous_with_offset(<<2>>, 1)
        src_l == contiguous_with_offset(shape, 2)
    IN  /\ \A ids \in IdPatterns(Size(shape), dims[dim]) : Known(ids, dims[dim]) =>
             LET stored == IdStorage(ids, x)
             IN  /\ is_contiguous(layout) =>
                      Agree(LAMBDA d : gather(On(d, t), On(d, "U32"), layout, stored, x, dim))
                 /\ Agree(LAMBDA d : scatter_set(On(d, t), On(d, "U32"), On(d, t), layout, stored, x, src_l, dim))
                 /\ Agree(LAMBDA d : scatter_add(On(d, t), On(d, "U32"), On(d, t), layout, stored, x, src_l, dim))
        /\ \A ids \in IdPatterns(2, dims[dim]) : Known(ids, dims[dim]) =>
             LET stored == IdStorage(ids, row)
             IN  /\ Agree(LAMBDA d : index_select(On(d, t), On(d, "U32"), layout, stored, row, dim))
                 /\ Agree(LAMBDA d : index_add(On(d, t), On(d, "U32"), On(d, t), data, layout, stored, row, src_l, dim))

AgreeProducts(t) ==
  \A f \in Factors : Accepted(f) /\ MatMulFits(t, f[1], f[2]) /\ MergeFits(f[1], f[2]) =>
    Agree(LAMBDA d : matmul(On(d, t), On(d, t), f[1], f[2]))

AgreeImages ==
  \A size, stride \in WindowSizes :
    rank = 4 /\ layout.start_offset = 0 /\ (\A i \in 1 .. 2 : dims[i + 2] >= size[i]) =>
      Agree(LAMBDA d : pool2d(On(d, "F32"), layout, size, stride))

\* What softmax and the norm of rows with weights are made of, place by place.
RowsMeant(weights, eps) ==
  LET n == Last(dims)
      Element(p) == At(AtPosition(p - 1, dims))
  IN  [p \in 1 .. Size(dims) |->
        [row |-> [c \in 1 .. n |-> Element(((p - 1) \div n) * n + c)], at |-> Element(p),
         weight |-> IF weights = <<>> THEN None ELSE weights[((p - 1) % n) + 1], eps |-> eps]]

SoftmaxExact(t) ==
  LET fwd == Done(t, RowsMeant(<<>>, 0))
  IN  \A d \in Kinds :
        NeverWrong(apply_op1(On(d, t), layout, [name |-> "softmax-last-dim", on |-> {"Cuda"}], fwd), t, fwd.val)

NormExact(t, eps) ==
  \A weights_l \in {contiguous_with_offset(<<Last(dims)>>, 2), Layout(<<Last(dims)>>, <<2>>, 1)} :
    LET fwd == Done(t, RowsMeant(RowMajor(weights_l), eps))
    IN  \A d \in Kinds :
          NeverWrong(apply_op2(On(d, t), On(d, t), layout, weights_l,
                               [name |-> "rms-norm", on |-> {"Metal"}], fwd), t, fwd.val)

\* The eps of an operation is the one it is computed with.
NormOfAnyEps == rank > 0 /\ Size(dims) > 0 => NormExact("F32", 5)

\* A program that runs on two kinds of devices computes from the same elements
\* on both: CPU loops, strided and contiguous kernels, casts and detours.
DevicesAgree ==
  /\ \A t \in {"F32", "F16", "I64"} :
       /\ AgreeElements(t)
       /\ Size(dims) > 0 => AgreeReductions(t) /\ AgreeIndexed(t) /\ AgreeProducts(t)
  /\ Image({4}) => AgreeImages
  /\ rank > 0 /\ Size(dims) > 0 => \A t \in PairTypes : SoftmaxExact(t) /\ NormExact(t, KernelEps)

\* Storages only meet on one device, in dtypes that the backend of that device
\* reads as they are; and what one device computes any other computes too, with
\* each of the libraries for products of matrices that the CPU may have
\* (storage.rs; cpu_backend/mod.rs, MatMul::f).
DispatchExact == OneDeviceEach /\ DtypesMeet /\ DevicesAgree /\ BlasExact
=============================================================================
