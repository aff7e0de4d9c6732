---------------------------- MODULE KernelViews ----------------------------
(***************************************************************************)
(* The kernels of the CPU backend on the tensors that the view operations  *)
(* make: each reads, for every element of its result, what the operation   *)
(* is documented to combine, whatever the layout of its arguments.         *)
(***************************************************************************)
EXTENDS TensorViews, CpuKernels

RM == RowMajor(layout)

\* The address of the element whose index is i.
At(i) == Address(layout, i)

\* The addresses that a reduction over ds combines for each element of its result.
Reduced(ds) ==
  LET shape == [d \in 1 .. rank |-> IF d \in ds THEN 1 ELSE dims[d]]
      Combined(p) ==
        LET base == AtPosition(p - 1, shape)
            Same(k) == \A d \in 1 .. rank \ ds : AtPosition(k - 1, dims)[d] = base[d]
            ks == SelectSeq([k \in 1 .. Size(dims) |-> k], Same)
        IN  [j \in DOMAIN ks |-> At(AtPosition(ks[j] - 1, dims))]
  IN  [p \in 1 .. Size(shape) |-> Combined(p)]

\* Reductions combine the elements whose indexes differ in the reduced
\* dimensions only, in row-major order: sum over any set of dimensions, min
\* and max (and the index they keep) over one.  A repeated dimension of size 1
\* is left out: see DividesByStride.
SumExact ==
  \A ds \in SUBSET (1 .. rank) : Size(dims) > 0 => SumRows(layout, ds) = Reduced(ds)

MinMaxExact ==
  \A d \in 1 .. rank :
    Size(dims) > 0 /\ ~(DividesByStride(layout, d) /\ layout.stride[d] = 0) =>
      LET shape == [dims EXCEPT ![d] = 1]
          rows == MinMaxRows(layout, d)
          Row(p) == [k \in 1 .. dims[d] |-> At([AtPosition(p - 1, shape) EXCEPT ![d] = k - 1])]
          Values(row) == [k \in DOMAIN row |-> data[row[k] + 1]]
          FirstBest(v, i, use_min) ==
            /\ \A k \in DOMAIN v : IF use_min THEN v[i + 1] <= v[k] ELSE v[i + 1] >= v[k]
            /\ \A k \in 1 .. i : v[k] # v[i + 1]
      IN  /\ rows = [p \in 1 .. Size(shape) |-> Row(p)]
          /\ \A p \in DOMAIN rows :
               LET v == Values(rows[p])
               IN  \A use_min \in BOOLEAN : FirstBest(v, KeptIndex(v, use_min), use_min)

ReduceExact == SumExact /\ MinMaxExact

-----------------------------------------------------------------------------
(* Indexes.  Every place of a tensor of n indexes is tried with every      *)
(* index below size, with max_value and with an index that is too large.   *)

IdPatterns(n, size) ==
  LET Id(k, c) == IF (k + c) % (size + 2) = size + 1 THEN max_value ELSE (k + c) % (size + 2)
  IN  {[k \in 1 .. n |-> Id(k, c)] : c \in 0 .. size + 1}

InRange(ids, size) == \A k \in DOMAIN ids : ids[k] < size \/ ids[k] = max_value

\* gather reads, at the index i of ids, the element of self whose index is i
\* with the dimension dim replaced.
GatherReads(ids_dims, dim) ==
  \A ids \in IdPatterns(Size(ids_dims), dims[dim]) :
    Gather(layout, ids, ids_dims, dim) =
      IF ~InRange(ids, dims[dim]) THEN Err
      ELSE [k \in DOMAIN ids |->
             IF ids[k] = max_value THEN None
             ELSE At([AtPosition(k - 1, ids_dims) EXCEPT ![dim] = ids[k]])]

IndexSelectReads(n, dim) ==
  \A ids \in IdPatterns(n, dims[dim]) :
    LET shape == [dims EXCEPT ![dim] = n]
    IN  IndexSelect(layout, ids, dim) =
          IF ~InRange(ids, dims[dim]) THEN Err
          ELSE [k \in 1 .. Size(shape) |->
                 LET i == AtPosition(k - 1, shape)
                 IN  IF ids[i[dim] + 1] = max_value THEN None
                     ELSE At([i EXCEPT ![dim] = ids[i[dim] + 1]])]

\* What an element of the destination takes, in row-major order of the source.
Taken(p, src_dims, dim, IdAt(_)) ==
  LET i == AtPosition(p - 1, dims)
      Mine(k) == LET j == AtPosition(k - 1, src_dims)
                 IN  /\ IdAt(k) # max_value /\ IdAt(k) = i[dim]
                     /\ \A d \in 1 .. rank \ {dim} : j[d] = i[d]
  IN  InOrder({k \in 1 .. Size(src_dims) : Mine(k)})

ScatterTakes(src_dims, dim) ==
  \A ids \in IdPatterns(Size(src_dims), dims[dim]) :
    LET s == Scatter(dims, ids, src_dims, dim)
    IN  /\ s.ok <=> InRange(ids, dims[dim])
        /\ s.ok => s.taken =
             [p \in 1 .. Size(dims) |-> Taken(p, src_dims, dim, LAMBDA k : ids[k])]

IndexAddTakes(src_dims, dim) ==
  \A ids \in IdPatterns(src_dims[dim], dims[dim]) :
    IndexAdd(dims, ids, src_dims, dim) =
      IF ~InRange(ids, dims[dim]) THEN Err
      ELSE [p \in 1 .. Size(dims) |->
             Taken(p, src_dims, dim, LAMBDA k : ids[AtPosition(k - 1, src_dims)[dim] + 1])]

\* Operations with indexes take, and combine, the elements that their indexes
\* name, along every dimension of every layout that they accept, and fail if
\* one names none.  gather and index_select refuse a tensor that is not
\* contiguous; here gather takes indexes for the whole of the other dimensions.
IndexedExact ==
  Size(dims) > 0 =>
    \A dim \in 1 .. rank, n \in 1 .. 2 :
      LET shape == [dims EXCEPT ![dim] = n]
      IN  /\ is_contiguous(layout) => GatherReads(shape, dim) /\ IndexSelectReads(n, dim)
          /\ ScatterTakes(shape, dim) /\ IndexAddTakes(shape, dim)

\* "indexes.dims()[d] <= self.dims()[d] for all dimensions d != dim"
\* (tensor.rs:1849): gather also takes indexes for a part of the tensor.
GatherOfPart ==
  is_contiguous(layout) /\ Size(dims) > 0 =>
    \A dim \in 1 .. rank, ids_dims \in TupleOf(1 .. 2, rank) :
      gather_checks(dims, ids_dims, dim) => GatherReads(ids_dims, dim)

-----------------------------------------------------------------------------
(* Products.                                                               *)

\* Layouts of a tensor of the given batch and matrix: new, transposed, with
\* the matrix repeated over the batch, in both orders.
MatrixLayouts(batch, rows, cols) ==
  LET whole == contiguous_with_offset(batch \o <<rows, cols>>, 0)
      turned == contiguous_with_offset(batch \o <<cols, rows>>, 0)
      r == Len(batch) + 2
  IN  {whole, transpose(turned, r - 1, r),
       broadcast_as(contiguous_with_offset(<<rows, cols>>, 0), batch \o <<rows, cols>>),
       broadcast_as(transpose(contiguous_with_offset(<<cols, rows>>, 0), 1, 2),
                    batch \o <<rows, cols>>)}

\* The element (i, j) of the t-th product, from 0, sums up the products of a
\* row by a column, and is written once.
ProductOf(l, r) ==
  LET k == Last(l.dims)
      n == Last(r.dims)
      m == l.dims[Len(l.dims) - 1]
      L == RowMajor(l)
      R == RowMajor(r)
      Sum(p) ==
        LET t == (p - 1) \div (m * n)
            i == ((p - 1) \div n) % m
            j == (p - 1) % n
        IN  [q \in 1 .. k |-> <<L[t * m * k + i * k + q], R[t * k * n + (q - 1) * n + j + 1]>>]
  IN  [p \in 1 .. (Size(l.dims) \div k) * n |-> {Sum(p)}]

Batches(l) == CountBefore(l.dims, Len(l.dims) - 1)

\* The operands of a product of more than one matrix in a single gemm for which
\* the code is right: the rows of the left operand are equally far apart across
\* the matrices, or it is one row and the columns of the right operand are.
MergeFits(l, r) ==
  LET rk == Len(l.dims)
      m == l.dims[rk - 1]
      k == l.dims[rk]
      n == r.dims[rk]
      a_skip == BatchSkip(l, m * k)
      b_skip == BatchSkip(r, n * k)
  IN  \/ Batches(l) = 1
      \/ b_skip = 0 /\ a_skip = m * k /\ a_skip = m * l.stride[rk - 1]
      \/ ~(b_skip = 0 /\ a_skip = m * k) /\ a_skip = 0 /\ b_skip = n * k
           /\ m = 1 /\ b_skip = n * r.stride[rk]
      \/ ~(b_skip = 0 /\ a_skip = m * k) /\ ~(a_skip = 0 /\ b_skip = n * k)

\* The products that the tensor is a factor of.
Factors ==
  IF rank < 2 \/ Size(dims) = 0 THEN {}
  ELSE LET batch == SubSeq(dims, 1, rank - 2)
       IN  {<<layout, r>> : r \in UNION {MatrixLayouts(batch, dims[rank], n) : n \in 1 .. 2}}
             \cup {<<l, layout>> : l \in UNION {MatrixLayouts(batch, m, dims[rank - 1]) : m \in 1 .. 2}}

Accepted(f) ==
  /\ matmul_checks(f[1].dims, f[2].dims)
  /\ BatchSkip(f[1], 0) # None /\ BatchSkip(f[2], 0) # None

\* matmul sums up, for each element, the products of a row by a column and
\* writes it once, for every pair of layouts that it does not refuse; unless
\* it takes operands for one big matrix that are not (MergeFits).
MatMulExact ==
  \A f \in Factors :
    Accepted(f) /\ MergeFits(f[1], f[2]) => MatMul(f[1], f[2]) = ProductOf(f[1], f[2])

\* "a_skip and c_skip should be updated but step is always 0 so it wouldn't
\* matter." (cpu_backend/mod.rs:1401): one gemm gives the same products.
MergedProduct == \A f \in Factors : Accepted(f) => MatMul(f[1], f[2]) = ProductOf(f[1], f[2])

\* max_keepdim, min_keepdim, argmax and argmin return, on every tensor that has
\* elements ("Gathers the maximum value across the selected dimension",
\* tensor.rs:1082).
ReduceReturns ==
  Size(dims) > 0 =>
    \A d \in 1 .. rank : ~(DividesByStride(layout, d) /\ layout.stride[d] = 0)
=============================================================================
