-------------------------- MODULE StorageDispatch --------------------------
(***************************************************************************)
(* The enum Storage (storage.rs) and Device (device.rs): every operation   *)
(* checks that its arguments are on one device, some of them that they are *)
(* of one dtype, and goes to the backend of that device.  An argument is a *)
(* record of its device and dtype; what is in it are addresses, as in the  *)
(* modules of the backends.                                                *)
(***************************************************************************)
EXTENDS MetalStorage, RocmStorage

\* A device: which kind, which GPU, and which of the devices made for that GPU.
location(d) == <<d.kind, d.gpu>>

\* Device::same_device, which CUDA and Metal devices decide by their ids.
device_same(d, e) ==
  IF d.kind \in {"Cuda", "Metal"} THEN d = e ELSE location(d) = location(e)

\* Storage::same_device.
same_device(a, b) ==
  IF a.on.kind = "Metal" THEN device_same(a.on, b.on) ELSE location(a.on) = location(b.on)

same_dtype(a, b, op) ==
  a.t = b.t \/ (op = "matmul" /\ a.t = "BF16" /\ b.t \in {"U32", "I64"})

\* match self: the result of the backend of the device.
Backend(d, cpu, cuda, metal, rocm) ==
  CASE d.kind = "Cpu" -> cpu
    [] d.kind = "Cuda" -> cuda
    [] d.kind = "Metal" -> metal
    [] d.kind = "Rocm" -> rocm

-----------------------------------------------------------------------------
(* Of one argument.                                                        *)

affine(s, l) ==
  Backend(s.on, cpu_affine(s.t, l), cuda_affine(s.t, l), metal_affine(s.t, l), rocm_affine(s.t, l))

powf(s, l) ==
  Backend(s.on, cpu_powf(s.t, l), cuda_powf(s.t, l), metal_powf(s.t, l), rocm_powf(s.t, l))

elu(s, l) == Backend(s.on, cpu_elu(s.t, l), cuda_elu(s.t, l), metal_elu(s.t, l), rocm_elu(s.t, l))

unary_impl(s, l) ==
  Backend(s.on, cpu_unary_impl(s.t, l), cuda_unary_impl(s.t, l), metal_unary_impl("uexp", s.t, l),
          rocm_unary_impl(s.t, l))

to_dtype(s, data, l, dtype) ==
  Backend(s.on, cpu_to_dtype(s.t, l, dtype), cuda_to_dtype(s.t, l, dtype), metal_to_dtype(s.t, l, dtype),
          rocm_to_dtype(s.t, data, l, dtype))

try_clone(s, data, l) ==
  Backend(s.on, Done(s.t, cpu_try_clone(data)), cuda_try_clone(s.t, data), metal_try_clone(s.t, data),
          rocm_try_clone(s.t, data, l))

\* Of one dimension, which is where all backends have all of op.
reduce_op(op, s, l, dim) ==
  Backend(s.on,
    IF op = "sum" THEN cpu_reduce_sum(s.t, l, {dim})
    ELSE cpu_reduce_min_max(s.t, l, {dim}, op \in {"argmin", "argmax"}),
    cuda_reduce_op(op, s.t, l, <<dim>>), metal_reduce_op(op, s.t, l, <<dim>>),
    rocm_reduce_op(op, s.t, l, {dim}))

\* avg_pool2d and max_pool2d.
pool2d(s, l, size, stride) ==
  Backend(s.on, cpu_pool2d(s.t, l, size, stride), cuda_pool2d(s.t, l, size, stride),
          metal_pool2d(s.t, l, size, stride), rocm_pool2d(s.t, l, size, stride))

\* upsample_nearest1d and upsample_nearest2d.
upsample_nearest(s, l, target) ==
  Backend(s.on, cpu_upsample_nearest(s.t, l, target), cuda_upsample_nearest(s.t, l, target),
          metal_upsample_nearest(s.t, l, target), rocm_upsample_nearest(s.t, l, target))

-----------------------------------------------------------------------------
(* Of several.                                                             *)

cmp(a, b, a_l, b_l) ==
  IF same_device(a, b) /\ same_dtype(a, b, "cmp")
  THEN Backend(a.on, cpu_cmp(a.t, b.t, a_l, b_l), cuda_cmp(a.t, b.t, a_l, b_l),
               metal_cmp(a.t, b.t, a_l, b_l), rocm_cmp(a.t, b.t, a_l, b_l))
  ELSE Failed

\* The dtypes are for the backends to look at.
backend_binary(a, b, a_l, b_l) ==
  Backend(a.on, cpu_binary_impl(a.t, b.t, a_l, b_l, TRUE), cuda_binary_impl(a.t, b.t, a_l, b_l),
          metal_binary_impl(a.t, b.t, a_l, b_l), rocm_binary_impl("mul", a.t, b.t, a_l, b_l))

\* Whether the first of two storages is cast to the dtype of the other one.
IsCast(s, other) == s.t = "F8E4M3" /\ other.t # "F8E4M3"

Widened(s, other) == [s EXCEPT !.t = IF IsCast(s, other) THEN other.t ELSE s.t]

\* What is read at an address of the original's layout from what it was cast
\* to, which has the elements of that layout without gaps.
FromCast(cast, a) == IF a \in 0 .. Len(cast.val) - 1 THEN cast.val[a + 1] ELSE Garbage

\* The result r for operands of which the left or the right one is cast.
WithCast(r, cast, left) ==
  Only(cast.ok /\ r.ok, r.t,
       [k \in DOMAIN r.val |-> IF left THEN <<FromCast(cast, r.val[k][1]), r.val[k][2]>>
                               ELSE <<r.val[k][1], FromCast(cast, r.val[k][2])>>])

\* Mutant: the operand that is read as cast is always the right one.
binary_impl_other(a, b, a_data, b_data, a_l, b_l) ==
  LET r == backend_binary(Widened(a, b), Widened(b, a), a_l, b_l)
  IN  IF ~same_device(a, b) THEN Failed
      ELSE IF ~IsCast(a, b) /\ ~IsCast(b, a) THEN r
      ELSE WithCast(r, to_dtype(b, b_data, b_l, a.t), FALSE)

\* An operand of F8E4M3 is cast to the dtype of the other one; the layout goes
\* with it as it is.
binary_impl(a, b, a_data, b_data, a_l, b_l) ==
  LET Of(r) ==
        CASE ~IsCast(a, b) /\ ~IsCast(b, a) -> r
          [] IsCast(a, b) -> WithCast(r, to_dtype(a, a_data, a_l, b.t), TRUE)
          [] IsCast(b, a) -> WithCast(r, to_dtype(b, b_data, b_l, a.t), FALSE)
  IN  IF same_device(a, b) THEN Of(backend_binary(Widened(a, b), Widened(b, a), a_l, b_l)) ELSE Failed

where_cond(s, a, b, l, a_l, b_l) ==
  IF same_device(s, a) /\ same_device(s, b) /\ same_dtype(a, b, "where")
  THEN Backend(s.on, cpu_where_cond(s.t, l, a.t, a_l, b.t, b_l), cuda_where_cond(s.t, l, a.t, a_l, b.t, b_l),
               metal_where_cond(s.t, l, a.t, a_l, b.t, b_l), rocm_where_cond(s.t, l, a.t, a_l, b.t, b_l))
  ELSE Failed

\* ids: the indexes and the storage they are in.
gather(a, x, l, ids, ids_l, dim) ==
  IF same_device(a, x)
  THEN Backend(a.on, cpu_gather(a.t, l, x.t, ids, ids_l, dim), cuda_gather(a.t, l, x.t, ids, ids_l, dim),
               metal_gather(a.t, l, x.t, ids, ids_l, dim), rocm_gather(a.t, l, x.t, ids, ids_l, dim))
  ELSE Failed

index_select(a, x, l, ids, ids_l, dim) ==
  IF same_device(a, x)
  THEN Backend(a.on, cpu_index_select(a.t, l, x.t, ids, ids_l, dim), cuda_index_select(a.t, l, x.t, ids, ids_l, dim),
               metal_index_select(a.t, l, x.t, ids, ids_l, dim), rocm_index_select(a.t, l, x.t, ids, ids_l, dim))
  ELSE Failed

\* scatter_set, in place: only of one dtype does it arrive at a kernel, but on Metal.
scatter_set(a, x, src, l, ids, ids_l, src_l, dim) ==
  IF same_device(a, x) /\ same_device(a, src) /\ (a.t = src.t \/ a.on.kind = "Metal")
  THEN Backend(a.on, cpu_scatter_set(a.t, l, x.t, ids, ids_l, src_l, dim),
               cuda_scatter_set(a.t, l, x.t, ids, ids_l, src_l, dim),
               metal_scatter_set(a.t, l, x.t, ids, ids_l, src_l, dim),
               rocm_scatter_set(a.t, l, x.t, ids, ids_l, src_l, dim))
  ELSE Failed

scatter_add(a, x, src, l, ids, ids_l, src_l, dim) ==
  IF same_device(a, x) /\ same_device(a, src) /\ (a.t = src.t \/ a.on.kind = "Metal")
  THEN Backend(a.on, cpu_scatter_add_set(a.t, l, x.t, ids, ids_l, src_l, dim),
               cuda_scatter_add_set(a.t, l, x.t, ids, ids_l, src_l, dim),
               metal_scatter_add_set(a.t, l, x.t, ids, ids_l, src_l, dim),
               rocm_scatter_add_set(a.t, l, x.t, ids, ids_l, src_l, dim))
  ELSE Failed

index_add(a, x, src, data, l, ids, ids_l, src_l, dim) ==
  IF same_device(a, x) /\ same_device(a, src) /\ (a.t = src.t \/ a.on.kind = "Metal")
  THEN Backend(a.on, cpu_index_add(a.t, l, x.t, ids, ids_l, src_l, dim),
               cuda_index_add(a.t, l, x.t, ids, ids_l, src_l, dim),
               metal_index_add(a.t, l, x.t, ids, ids_l, src_l, dim),
               rocm_index_add(a.t, data, l, x.t, ids, ids_l, src_l, dim))
  ELSE Failed

\* Pairs of F8E4M3 and a half are let through for CUDA to cast.
matmul(a, b, a_l, b_l) ==
  LET fp8_mixed == {a.t, b.t} \in {{"F8E4M3", "BF16"}, {"F8E4M3", "F16"}}
  IN  IF same_device(a, b) /\ (fp8_mixed \/ same_dtype(a, b, "matmul"))
      THEN Backend(a.on, cpu_matmul(a.t, b.t, a_l, b_l), cuda_matmul(a.t, b.t, a_l, b_l, TRUE),
                   metal_matmul(a.t, a_l, b_l), rocm_matmul(a.t, b.t, a_l, b_l))
      ELSE Failed

storage_conv(a, k, l, k_l, k_len, q) ==
  LET one == Len(l.dims) = 3
  IN  IF same_device(a, k) /\ same_dtype(a, k, "conv")
      THEN Backend(a.on,
             IF one THEN cpu_conv1d(a.t, k.t, l, k_l, k_len, q) ELSE cpu_conv2d(a.t, k.t, l, k_l, k_len, q),
             IF one THEN cuda_conv1d(a.t, k.t, l, k_l, q) ELSE cuda_conv2d(a.t, k.t, l, k_l, q),
             IF one THEN metal_conv1d(a.t, l, k_l, q) ELSE metal_conv2d(a.t, l, k_l, q),
             IF one THEN rocm_conv1d(a.t, k.t, l, k_l, k_len, q) ELSE rocm_conv2d(a.t, k.t, l, k_l, k_len, q))
      ELSE Failed

\* Copies are refused between the kinds of devices, not between devices of a kind.
storage_copy(src, dst, data, dst_data, dst_offset, l) ==
  IF src.on.kind # dst.on.kind THEN Failed
  ELSE Backend(src.on, cpu_copy_strided_src(src.t, dst.t, data, dst_data, dst_offset, l),
               cuda_copy_strided_src(src.t, dst.t, data, dst_data, dst_offset, l),
               metal_copy_strided_src(src.t, dst.t, data, dst_data, dst_offset, l),
               rocm_copy_strided_src(src.t, dst.t, data, dst_data, dst_offset, l))

\* Where the rows of blocks go, as in cat.
storage_copy2d(src, dst, data, dst_data, d1, d2, src_s, dst_s, src_o, dst_o) ==
  IF src.on.kind # dst.on.kind THEN Failed
  ELSE Backend(src.on, cpu_copy2d(src.t, dst.t, data, dst_data, d1, d2, src_s, dst_s, src_o, dst_o),
               cuda_copy2d(src.t, dst.t, data, dst_data, d1, d2, src_s, dst_s, src_o, dst_o),
               metal_copy2d(src.t, dst.t, data, dst_data, d1, d2, src_s, dst_s, src_o, dst_o),
               rocm_copy2d(src.t, dst.t, data, dst_data, d1, d2, src_s, dst_s, src_o, dst_o))

-----------------------------------------------------------------------------
(* Operations of other crates.  c has the name of one, its eps, and the     *)
(* kinds of GPUs that it has an implementation for; what an implementation *)
(* gives is fwd.  On ROCm two names are known, and a fused kernel is taken *)
(* whatever else the operation may have been made with.                    *)

NotFused == [some |-> FALSE, result |-> Failed]
Fused(result) == [some |-> TRUE, result |-> result]

\* For each element of the result: its row, its place, its weight and eps.
RowsFrom(l, weights, eps) ==
  LET n == Last(l.dims)
      Row(p) == l.start_offset + ((p - 1) \div n) * n
  IN  [p \in 1 .. elem_count(l.dims) |->
        [row |-> [c \in 1 .. n |-> Row(p) + c - 1], at |-> Row(p) + ((p - 1) % n),
         weight |-> IF weights = <<>> THEN None ELSE weights[((p - 1) % n) + 1], eps |-> eps]]

custom_op1_gpu(t, l, name) ==
  IF name = "softmax-last-dim" /\ t \in {"F32", "F16"} /\ is_contiguous(l)
  THEN Fused(Done(t, RowsFrom(l, <<>>, 0)))
  ELSE NotFused

KernelEps == 6   \* 1e-6

\* The eps of the operation does not reach the kernel.
custom_op2_gpu(t, rhs_t, l, rhs_l, name) ==
  LET kernels == {<<"F32", "F32">>, <<"BF16", "F32">>, <<"BF16", "BF16">>, <<"F16", "F32">>, <<"F16", "F16">>}
  IN  IF /\ name = "rms-norm" /\ is_contiguous(l) /\ is_contiguous(rhs_l) /\ Len(l.dims) >= 2
         /\ <<t, rhs_t>> \in kernels
      THEN Fused(Done(t, RowsFrom(l, Block(rhs_l.start_offset, elem_count(rhs_l.dims)), KernelEps)))
      ELSE NotFused

\* An error of rocm_fwd is not looked at: the CPU takes over.
apply_op1(s, l, c, fwd) ==
  LET gpu == custom_op1_gpu(s.t, l, c.name)
  IN  Backend(s.on, fwd, IF "Cuda" \in c.on THEN fwd ELSE Failed, IF "Metal" \in c.on THEN fwd ELSE Failed,
        CASE gpu.some -> gpu.result
          [] ~gpu.some /\ "Rocm" \in c.on /\ fwd.ok -> fwd
          [] ~gpu.some /\ ~("Rocm" \in c.on /\ fwd.ok) -> cpu_fallback(s.t, fwd))

\* Of operands of one dtype; F8E4M3 is cast as in binary_impl.
apply_op2(a, b, l, rhs_l, c, fwd) ==
  LET gpu == custom_op2_gpu(a.t, b.t, l, rhs_l, c.name)
  IN  IF ~same_device(a, b) THEN Failed
      ELSE Backend(a.on, fwd, IF "Cuda" \in c.on THEN fwd ELSE Failed, IF "Metal" \in c.on THEN fwd ELSE Failed,
                   IF gpu.some THEN gpu.result ELSE cpu_fallback_ternary({a.t, b.t}, fwd))

-----------------------------------------------------------------------------
(* Device.                                                                 *)

to_cpu_storage(s, data) ==
  Backend(s.on, Done(s.t, data), cuda_to_cpu_storage(s.t, data), metal_to_cpu_storage(s.t, data),
          cpu_fallback(s.t, Done(s.t, data)))

\* storage_from_cpu_storage, which Metal refuses for some dtypes.
Uploaded(t, d, data) == Only(d.kind = "Metal" => t \notin Dummies, t, data)

\* Tensor::to_device: between the CPU and a GPU, or between two CUDA devices.
to_device(s, data, d) ==
  CASE device_same(s.on, d) -> Done(s.t, data)
    [] ~device_same(s.on, d) /\ d.kind = "Cpu" -> to_cpu_storage(s, data)
    [] ~device_same(s.on, d) /\ d.kind # "Cpu" /\ s.on.kind = "Cpu" -> Uploaded(s.t, d, data)
    [] ~device_same(s.on, d) /\ d.kind # "Cpu" /\ s.on.kind # "Cpu" ->
         IF {s.on.kind, d.kind} = {"Cuda"} THEN transfer_to_device(s.t, data) ELSE Failed
=============================================================================
