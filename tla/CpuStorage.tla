----------------------------- MODULE CpuStorage -----------------------------
(***************************************************************************)
(* The operations of CpuStorage (cpu_backend/mod.rs) and the traits that   *)
(* choose a kernel by dtype (cpu_backend/utils.rs): which dtypes they take *)
(* and what they read of their arguments, given by addresses as in the     *)
(* kernels.  An operation returns a result or fails.                       *)
(***************************************************************************)
EXTENDS ConvKernels

Dummies == {"F6E2M3", "F6E3M2", "F4", "F8E8M0"}   \* stored as bytes
Floats == {"BF16", "F16", "F32", "F64", "F8E4M3"}
Ints == {"U8", "U32", "I16", "I32", "I64"}
DTypes == Floats \cup Ints \cup Dummies

\* A Result of a storage: its dtype and its elements.
Failed == [ok |-> FALSE, t |-> "none", val |-> <<>>]
Done(t, val) == [ok |-> TRUE, t |-> t, val |-> val]
Only(condition, t, val) == IF condition THEN Done(t, val) ELSE Failed

\* Map1; Map1Any; Map2; Map2U8.
Map1(t, val) == Only(t \notin Dummies, t, val)
Map1Any(t, dst_t, val) == Only(t \notin Dummies, dst_t, val)
Map2(t, rhs_t, val) == Only(t = rhs_t /\ t \notin Dummies, t, val)
Map2U8(t, rhs_t, val) == Only(t = rhs_t /\ t \notin Dummies, "U8", val)

\* The elements of a storage that a layout names.
Elements(s, l) == LET a == strided_index(l) IN [k \in DOMAIN a |-> s[a[k] + 1]]

-----------------------------------------------------------------------------
(* Element by element.                                                     *)

cpu_to_dtype(t, l, dtype) == Only({t, dtype} \cap Dummies = {}, dtype, unary_map(l))

cpu_unary_impl(t, l) == Map1(t, unary_map(l))
cpu_affine(t, l) == Map1(t, unary_map(l))
cpu_powf(t, l) == Only(t \in Floats, t, unary_map(l))
cpu_elu(t, l) == Only(t \in Floats, t, unary_map(l))

cpu_cmp(t, rhs_t, lhs_l, rhs_l) == Map2U8(t, rhs_t, binary_map(lhs_l, rhs_l))

\* vec: the operation has a variant on vectors for the dtype.
cpu_binary_impl(t, rhs_t, lhs_l, rhs_l, vec) ==
  Map2(t, rhs_t, BinaryReads(lhs_l, rhs_l, vec /\ t \notin {"I16", "I32", "F8E4M3"}))

\* WCond.
WCond(l, t_l, f_l) ==
  LET whole == \A x \in {l, t_l, f_l} : is_contiguous(x)
      reads == [n \in 1 .. 3 |-> LET x == <<l, t_l, f_l>>[n]
                                  IN  IF whole THEN Block(x.start_offset, elem_count(x.dims)) ELSE strided_index(x)]
  IN  [k \in 1 .. elem_count(l.dims) |-> [n \in 1 .. 3 |-> reads[n][k]]]

cpu_where_cond(cond_t, l, t, t_l, rhs_t, f_l) ==
  IF cond_t \in Ints THEN Map2(t, rhs_t, WCond(l, t_l, f_l)) ELSE Failed

-----------------------------------------------------------------------------
(* Reductions, windows, indexes, products.                                 *)

cpu_reduce_sum(t, l, reduce_dims) == Map1(t, SumRows(l, reduce_dims))

\* Err(OnlySingleDimension) for more than one dimension.
cpu_reduce_min_max(t, l, reduce_dims, return_index) ==
  IF \E d \in reduce_dims : reduce_dims = {d}
  THEN Map1Any(t, IF return_index THEN "U32" ELSE t, MinMaxRows(l, CHOOSE d \in reduce_dims : TRUE))
  ELSE Failed

cpu_pool2d(t, l, size, stride) == Map1(t, PoolWindows(l, size, stride))
cpu_upsample_nearest(t, l, target) == Map1(t, UpsampleNearest(l, target))
cpu_upsample_bilinear2d(t, l, storage_len, target, align_corners, factors) ==
  Map1(t, UpsampleBilinear2D(l, storage_len, target, align_corners, factors))

SomeIds == {"U8", "U32", "I64"}

cpu_gather(t, l, ids_t, ids, ids_l, dim) ==
  LET Of(at) == Only(/\ t \notin Dummies /\ ids_t \in SomeIds
                     /\ is_contiguous(ids_l) /\ is_contiguous(l) /\ ~AnyInvalid(at, l.dims[dim]),
                     t, Gather(l, at, ids_l.dims, dim))
  IN  Of(Elements(ids, ids_l))

cpu_index_select(t, l, ids_t, ids, ids_l, dim) ==
  LET Of(at) == Only(/\ t \notin Dummies /\ ids_t \in SomeIds
                     /\ is_contiguous(l) /\ Len(ids_l.dims) = 1 /\ ~AnyInvalid(at, l.dims[dim]),
                     t, IndexSelect(l, at, dim))
  IN  Of(Elements(ids, ids_l))

\* What the elements of the tensor take of the source; written in place, so
\* that a failure leaves what was written before it.
cpu_scatter(t, l, ids_t, ids, ids_l, src_l, dim, id_types) ==
  LET From(ks) == [j \in DOMAIN ks |-> src_l.start_offset + ks[j] - 1]
      Of(s) == [ok |-> s.ok, t |-> t, val |-> [p \in DOMAIN s.taken |-> From(s.taken[p])]]
      none == [p \in 1 .. elem_count(l.dims) |-> <<>>]
  IN  IF t \in Dummies \/ ids_t \notin id_types
           \/ \E x \in {l, ids_l, src_l} : ~is_contiguous(x)
      THEN [ok |-> FALSE, t |-> t, val |-> none]
      ELSE Of(Scatter(l.dims, Elements(ids, ids_l), ids_l.dims, dim))

\* Of those that are set, the last one stays.
LastOnes(taken) == [p \in DOMAIN taken |-> IF taken[p] = <<>> THEN <<>> ELSE <<Last(taken[p])>>]
SetTo(s) == [s EXCEPT !.val = LastOnes(s.val)]

cpu_scatter_set(t, l, ids_t, ids, ids_l, src_l, dim) ==
  SetTo(cpu_scatter(t, l, ids_t, ids, ids_l, src_l, dim, SomeIds))

cpu_scatter_add_set(t, l, ids_t, ids, ids_l, src_l, dim) ==
  cpu_scatter(t, l, ids_t, ids, ids_l, src_l, dim, Ints)

\* The address of each element, and those of the source that are added to it.
AddedTo(base, taken, start_offset) ==
  [p \in DOMAIN base |->
    [base |-> base[p], added |-> [j \in DOMAIN taken[p] |-> start_offset + taken[p][j] - 1]]]

cpu_index_add(t, l, ids_t, ids, ids_l, src_l, dim) ==
  LET Of(at) == Only(/\ t \notin Dummies /\ ids_t \in Ints
                     /\ is_contiguous(ids_l) /\ is_contiguous(src_l) /\ ~AnyInvalid(at, l.dims[dim]),
                     t, AddedTo(unary_map(l), IndexAdd(l.dims, at, src_l.dims, dim), src_l.start_offset))
  IN  Of(Elements(ids, ids_l))

MatMulTypes == {"F16", "F32", "F64"}

cpu_matmul(t, rhs_t, lhs_l, rhs_l) ==
  Only(t = rhs_t /\ t \in MatMulTypes /\ BatchSkip(lhs_l, 0) # None /\ BatchSkip(rhs_l, 0) # None,
       t, MatMul(lhs_l, rhs_l))

-----------------------------------------------------------------------------
(* The product by a BLAS, of the features mkl and accelerate.              *)

\* An operand that gemm takes as it is, or transposed, with its leading
\* dimension; it has rows of cols elements.
Operand(l, rows, cols) ==
  LET m1 == l.stride[Len(l.stride)]
      m2 == l.stride[Len(l.stride) - 1]
      plain == (m1 = 1 \/ cols = 1) /\ (m2 = cols \/ rows = 1)
  IN  [ok |-> plain \/ (m1 = rows /\ m2 = 1), ld |-> IF plain THEN cols ELSE rows, trans |-> ~plain]

\* gemm of matrices whose columns follow each other: a is m by k, b is k by n.
\* The terms of each place of c in the order of the addresses.
gemm(ta, tb, m, n, k, a, lda, b, ldb, ldc) ==
  [p \in 1 .. n * ldc |-> [q \in 1 .. k |->
    LET i == (p - 1) % ldc
        j == (p - 1) \div ldc
        t == q - 1
    IN  <<IF ta THEN a + t + i * lda ELSE a + i + t * lda,
          IF tb THEN b + j + t * ldb ELSE b + t + j * ldb>>]]

\* The products of a transposed product.
Swapped(c) == [p \in DOMAIN c |-> {[q \in DOMAIN c[p] |-> <<c[p][q][2], c[p][q][1]>>]}]

\* gemm gives the transposed product, of rhs by lhs, one for each matrix.
blas_matmul(t, rhs_t, lhs_l, rhs_l, types) ==
  LET r == Len(lhs_l.dims)
      m == lhs_l.dims[r - 1]
      k == lhs_l.dims[r]
      n == rhs_l.dims[r]
      x == Operand(rhs_l, k, n)
      y == Operand(lhs_l, m, k)
      Product(step) ==
        gemm(x.trans, y.trans, n, m, k, rhs_l.start_offset + step * BatchSkip(rhs_l, n * k), x.ld,
             lhs_l.start_offset + step * BatchSkip(lhs_l, m * k), y.ld, n)
  IN  Only(/\ t = rhs_t /\ t \in types /\ BatchSkip(lhs_l, 0) # None /\ BatchSkip(rhs_l, 0) # None
           /\ x.ok /\ y.ok,
           t, FlattenSeq([s \in 1 .. CountBefore(lhs_l.dims, r - 1) |-> Swapped(Product(s - 1))]))

mkl_matmul(t, rhs_t, lhs_l, rhs_l) == blas_matmul(t, rhs_t, lhs_l, rhs_l, {"F16", "F32", "F64"})
accelerate_matmul(t, rhs_t, lhs_l, rhs_l) == blas_matmul(t, rhs_t, lhs_l, rhs_l, {"F32", "F64"})

-----------------------------------------------------------------------------
(* Convolutions: by a product, which takes MatMulTypes only, or directly.  *)

cpu_conv1d(t, k_t, l, k_l, k_len, q) ==
  Only(t = k_t /\ t \in MatMulTypes, t, ConvIm2Col(l, k_l, k_len, q))

cpu_conv2d(t, k_t, l, k_l, k_len, q) ==
  Only(t = k_t /\ t \in MatMulTypes, t, conv2d(l, k_l, k_len, q))

cpu_conv_transpose1d(t, k_t, l, k_l, q) ==
  Only(t = k_t /\ t \notin Dummies /\ (can_use_col2im(k_l, q) => t \in MatMulTypes),
       t, conv_transpose1d(l, k_l, q))

cpu_conv_transpose2d(t, k_t, l, k_l, q) == Map2(t, k_t, conv_transpose2d(l, k_l, q))

-----------------------------------------------------------------------------
(* Copies.  A storage is a sequence of values; a failure, which the code    *)
(* makes a panic for what lies beyond a storage, leaves none.              *)

\* copy2d_: d1 rows of d2 elements.
cpu_copy2d(t, dst_t, src, dst, d1, d2, src_s, dst_s, src_o, dst_o) ==
  LET Row(a) == (a - dst_o) \div dst_s
      Within(a) == a >= dst_o /\ Row(a) < d1 /\ (a - dst_o) % dst_s < d2
  IN  Only(/\ t = dst_t
           /\ d1 * d2 > 0 => /\ src_o + (d1 - 1) * src_s + d2 <= Len(src)
                             /\ dst_o + (d1 - 1) * dst_s + d2 <= Len(dst),
           t, [i \in DOMAIN dst |->
             IF Within(i - 1) THEN src[src_o + Row(i - 1) * src_s + ((i - 1 - dst_o) % dst_s) + 1]
             ELSE dst[i]])

cpu_copy_strided_src(t, dst_t, src, dst, dst_offset, l) ==
  Only(t = dst_t, t, copy_strided_src(src, dst, dst_offset, l))

\* The whole storage, whatever the layout.
cpu_try_clone(storage) == storage

cpu_const_set(t, s_t, storage, l, s) ==
  LET b == strided_blocks(l)
      Set == {b.starts[j] + o : j \in DOMAIN b.starts, o \in 0 .. b.len - 1}
  IN  Only(t = s_t /\ t \notin Dummies,
           t, [i \in DOMAIN storage |-> IF i - 1 \in Set THEN s ELSE storage[i]])

\* concat: the storages one after the other.
cpu_concat(ts, storages) ==
  IF storages = <<>> THEN Failed ELSE Only(ToSet(ts) = {ts[1]}, ts[1], FlattenSeq(storages))
=============================================================================
