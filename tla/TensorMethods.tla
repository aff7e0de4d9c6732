--------------------------- MODULE TensorMethods ---------------------------
(***************************************************************************)
(* Methods of Tensor that are made of several operations on storages: cat  *)
(* with its three ways to copy, what is built on it, sorting, the indexes  *)
(* of IndexOp, and the arms of backward that move elements back.           *)
(*                                                                         *)
(* A tensor is a record of a storage and a layout.  Dimensions are counted *)
(* from 1 and have been checked by to_index; a method is applied where the *)
(* checks it makes hold.                                                   *)
(***************************************************************************)
EXTENDS ConvViews, CpuStorage

self == [data |-> data, layout |-> layout]

DimsOf(t) == t.layout.dims
RankOf(t) == Len(t.layout.dims)
ElementsOf(t) == Elements(t.data, t.layout)

\* A new storage.
New(shape, vals) == [data |-> vals, layout |-> contiguous_with_offset(shape, 0)]
Filled(shape, val) == New(shape, [k \in 1 .. elem_count(shape) |-> val])
Uninit(shape) == [k \in 1 .. elem_count(shape) |-> None]

\* Views, and reshape and contiguous, which copy when they have to.
ViewOf(t, l) == [t EXCEPT !.layout = l]
narrow_of(t, d, start, len) == ViewOf(t, Narrowed(t.layout, d, start, len))
transpose_of(t, d1, d2) == IF d1 = d2 THEN t ELSE ViewOf(t, transpose(t.layout, d1, d2))
contiguous_of(t) == IF is_contiguous(t.layout) THEN t ELSE New(DimsOf(t), ElementsOf(t))
reshape_of(t, shape) ==
  IF is_contiguous(t.layout) THEN ViewOf(t, contiguous_with_offset(shape, t.layout.start_offset))
  ELSE New(shape, ElementsOf(t))

Copies(x, n) == [j \in 1 .. n |-> x]

-----------------------------------------------------------------------------
(* cat.                                                                    *)

cat_checks(args, d) ==
  \A t \in ToSet(args) :
    /\ RankOf(t) = RankOf(args[1]) /\ d \in 1 .. RankOf(t)
    /\ \A i \in 1 .. RankOf(t) \ {d} : DimsOf(t)[i] = DimsOf(args[1])[i]

\* How far along d the first n arguments go.
Reach(args, d, n) == FoldLeft(+, 0, [j \in 1 .. n |-> DimsOf(args[j])[d]])

cat_dims(args, d) == With(DimsOf(args[1]), d, Reach(args, d, Len(args)))

\* Along the first dimension: one argument after the other.
cat0(args) ==
  LET shape == cat_dims(args, 1)
      Copied(dst, j) ==
        copy_strided_src(args[j].data, dst, Reach(args, 1, j - 1) * CountAfter(shape, 1), args[j].layout)
  IN  New(shape, FoldLeft(Copied, Uninit(shape), [j \in DOMAIN args |-> j]))

\* Mutant: every argument is copied to the begin of the rows.
cat_contiguous_begin(args, d) ==
  LET shape == cat_dims(args, d)
      block_size == CountAfter(shape, d)
      Copied(dst, t) ==
        cpu_copy2d("F32", "F32", t.data, dst, CountBefore(DimsOf(t), d), block_size * DimsOf(t)[d],
                   block_size * DimsOf(t)[d], block_size * shape[d], t.layout.start_offset, 0).val
  IN  New(shape, FoldLeft(Copied, Uninit(shape), args))

\* Along any: a row of every argument, then the next row.
cat_contiguous(args, d) ==
  LET shape == cat_dims(args, d)
      block_size == CountAfter(shape, d)
      Copied(dst, j) ==
        LET d2 == block_size * DimsOf(args[j])[d]
        IN  cpu_copy2d("F32", "F32", args[j].data, dst, CountBefore(shape, d), d2, d2,
                       block_size * shape[d], args[j].layout.start_offset,
                       block_size * Reach(args, d, j - 1)).val
  IN  New(shape, FoldLeft(Copied, Uninit(shape), [j \in DOMAIN args |-> j]))

cat(args, d) ==
  CASE Len(args) = 1 -> args[1]
    [] Len(args) > 1 /\ (\A t \in ToSet(args) : is_contiguous(t.layout)) -> cat_contiguous(args, d)
    [] OTHER -> transpose_of(cat0([j \in DOMAIN args |-> transpose_of(args[j], 1, d)]), 1, d)

\* d is one of rank + 1.
stack(args, d) == cat([j \in DOMAIN args |-> ViewOf(args[j], unsqueeze(args[j].layout, d))], d)

pad_with_zeros(t, d, left, right) ==
  LET Zeros(n) == IF n = 0 THEN <<>> ELSE <<Filled(With(DimsOf(t), d, n), 0)>>
  IN  cat(Zeros(left) \o <<t>> \o Zeros(right), d)

pad_with_same(t, d, left, right) ==
  cat(Copies(narrow_of(t, d, 0, 1), left) \o <<t>>
        \o Copies(narrow_of(t, d, DimsOf(t)[d] - 1, 1), right), d)

\* A count of 0 leaves a dimension as it is.
repeat(t, repeats) ==
  LET wide == IF RankOf(t) < Len(repeats)
              THEN reshape_of(t, Copies(1, Len(repeats) - RankOf(t)) \o DimsOf(t)) ELSE t
      Repeated(x, d) == IF repeats[d] > 1 THEN cat(Copies(x, repeats[d]), d) ELSE x
  IN  FoldLeft(Repeated, wide, [d \in DOMAIN repeats |-> d])

\* The dimension is not empty: the remainder panics.
roll(t, shift, d) ==
  LET size == DimsOf(t)[d]
      s == shift % size
  IN  IF s = 0 THEN t
      ELSE cat(<<narrow_of(t, d, size - s, s), narrow_of(t, d, 0, size - s)>>, d)

\* args is a sequence of two or more tensors of rank 1.
meshgrid(args, xy_indexing) ==
  LET order == IF xy_indexing THEN Reverse(args) ELSE args
      shape == [j \in DOMAIN order |-> DimsOf(order[j])[1]]
      ones == Copies(1, Len(order))
      Grid(j) == repeat(reshape_of(order[j], With(ones, j, shape[j])), With(shape, j, 1))
      grids == [j \in DOMAIN order |-> Grid(j)]
  IN  IF xy_indexing THEN Reverse(grids) ELSE grids

-----------------------------------------------------------------------------
(* Parts that are replaced.                                                *)

slice_scatter0(t, src, start) ==
  LET whole == copy_strided_src(t.data, Uninit(DimsOf(t)), 0, t.layout)
  IN  New(DimsOf(t), copy_strided_src(src.data, whole, start * CountAfter(DimsOf(src), 1), src.layout))

slice_scatter(t, src, d, start) ==
  transpose_of(slice_scatter0(transpose_of(t, 1, d), transpose_of(src, 1, d), start), 1, d)

where_cond_of(mask, on_true, on_false) ==
  LET at == WCond(mask.layout, on_true.layout, on_false.layout)
      Chosen(a) == IF mask.data[a[1] + 1] # 0 THEN on_true.data[a[2] + 1] ELSE on_false.data[a[3] + 1]
  IN  New(DimsOf(mask), [k \in DOMAIN at |-> Chosen(at[k])])

\* ranges has a start and an end for each dimension.
slice_assign(t, ranges, src) ==
  LET Padded(x, d) == pad_with_zeros(x, d, ranges[d].start, DimsOf(t)[d] - ranges[d].end)
      Whole(x) == FoldLeft(Padded, x, [d \in DOMAIN ranges |-> d])
  IN  where_cond_of(Whole(Filled(DimsOf(src), 1)), Whole(src), t)

-----------------------------------------------------------------------------
(* Indexes.                                                                *)

\* The argument is contiguous.
index_select_of(t, ids, d) ==
  New(With(DimsOf(t), d, Len(ids)), ElemsAt(t.data, IndexSelect(t.layout, ids, d)))

flip(t, ds) ==
  LET Flipped(x, d) == index_select_of(x, Reverse([k \in 1 .. DimsOf(x)[d] |-> k - 1]), d)
  IN  FoldLeft(Flipped, t, ds)

\* Tensor::index: the indexers in turn, each on the dimension that is current.
\* One is a select of n, a narrow with its bounds, where None stands for an
\* unbounded one, or an index_select of ids.
index(t, indexers) ==
  LET One(s, i) ==
        LET x == indexers[i]
            d == s.current_dim + 1
            start == IF x.left = None THEN 0 ELSE x.left
            stop == IF x.right = None THEN DimsOf(t)[i] ELSE x.right
            len == IF stop < start THEN 0 ELSE stop - start
            row == narrow_of(s.x, d, x.left, 1)
            Moved(y) == [s EXCEPT !.x = y, !.current_dim = d]
        IN  CASE x.kind = "select" -> [s EXCEPT !.x = ViewOf(row, squeeze(row.layout, d))]
              [] x.kind = "narrow" -> Moved(narrow_of(s.x, d, start, len))
              [] x.kind = "ids" -> Moved(index_select_of(s.x, x.ids, d))
  IN  FoldLeft(One, [x |-> t, current_dim |-> 0], [i \in DOMAIN indexers |-> i]).x

\* to_vec1, to_vec2, to_vec3: the rows of rows.
flat_vec(t) ==
  IF is_contiguous(t.layout) THEN ElemsAt(t.data, Run(contiguous_offsets(t.layout)))
  ELSE ElemsAt(t.data, strided_index(t.layout))

\* Mutant: the columns in place of the rows.
InColumns(v, n, len) == [i \in 1 .. n |-> [j \in 1 .. len |-> v[(j - 1) * n + i]]]

InRows(v, n, len) == [i \in 1 .. n |-> SubSeq(v, (i - 1) * len + 1, i * len)]

to_vec2(t) == InRows(flat_vec(t), DimsOf(t)[1], DimsOf(t)[2])
to_vec3(t) ==
  LET s == DimsOf(t)
      tops == InRows(flat_vec(t), s[1], s[2] * s[3])
  IN  [i \in DOMAIN tops |-> InRows(tops[i], s[2], s[3])]

-----------------------------------------------------------------------------
(* Sorting.                                                                *)

\* sort_by is stable: the index that comes at place p.
Sorted(vs, asc) ==
  LET Before(i, j) == (IF asc THEN vs[i] < vs[j] ELSE vs[i] > vs[j]) \/ (vs[i] = vs[j] /\ i < j)
      Place(i) == Cardinality({j \in DOMAIN vs : Before(j, i)})
  IN  [p \in DOMAIN vs |-> (CHOOSE i \in DOMAIN vs : Place(i) = p - 1) - 1]

\* ArgSort::asort: the rows of the storage, from its begin.  The tensor is
\* contiguous and its last dimension not 0.
arg_sort_last_dim(t, asc) ==
  LET last_dim == Last(DimsOf(t))
      n == elem_count(DimsOf(t)) \div last_dim
      rows == InRows(t.data, n, last_dim)
  IN  New(DimsOf(t), FlattenSeq([r \in 1 .. n |-> Sorted(rows[r], asc)]))

sort_last_dim(t, asc) ==
  LET asort == arg_sort_last_dim(t, asc)
  IN  New(DimsOf(t), ElemsAt(t.data, Gather(t.layout, asort.data, DimsOf(t), RankOf(t))))

-----------------------------------------------------------------------------
(* Products of batches that differ.                                        *)

\* A dimension is the same in both, or 1 in one of them; a shorter shape is
\* taken to begin with ones.
WithOnes(shape, n) == Copies(1, n - Len(shape)) \o shape

broadcast_shape_binary_op(l, r) ==
  LET n == IF Len(l) < Len(r) THEN Len(r) ELSE Len(l)
      a == WithOnes(l, n)
      b == WithOnes(r, n)
  IN  [i \in 1 .. n |-> CASE a[i] = b[i] -> a[i]
                          [] a[i] # b[i] /\ a[i] = 1 -> b[i]
                          [] a[i] # b[i] /\ a[i] # 1 /\ b[i] = 1 -> a[i]
                          [] OTHER -> None]

broadcast_shape_matmul(l, r) ==
  LET Batch(s) == SubSeq(s, 1, Len(s) - 2)
      bcast == broadcast_shape_binary_op(Batch(l), Batch(r))
  IN  [l |-> bcast \o SubSeq(l, Len(l) - 1, Len(l)), r |-> bcast \o SubSeq(r, Len(r) - 1, Len(r))]

\* An operand whose shape changes is copied.
BroadcastOperand(t, shape) ==
  IF DimsOf(t) = shape THEN t ELSE contiguous_of(ViewOf(t, broadcast_as(t.layout, shape)))

\* The pairs of elements that are multiplied, in place of those of addresses.
matmul_of(a, b) ==
  LET sums == MatMul(a.layout, b.layout)
      Values(terms) == [q \in DOMAIN terms |-> <<a.data[terms[q][1] + 1], b.data[terms[q][2] + 1]>>]
  IN  [p \in DOMAIN sums |-> {Values(terms) : terms \in sums[p]}]

broadcast_matmul(a, b) ==
  LET shapes == broadcast_shape_matmul(DimsOf(a), DimsOf(b))
  IN  matmul_of(BroadcastOperand(a, shapes.l), BroadcastOperand(b, shapes.r))

-----------------------------------------------------------------------------
(* Convolutions in groups: a part of the channels with a part of the       *)
(* kernels.  The number of groups divides both; for the kernels the code   *)
(* does not check it.                                                      *)

Blocks(l, d, groups) ==
  [g \in 1 .. groups |->
    LET b == ChunkBounds(l.dims[d], groups)[g] IN Narrowed(l, d, b.start, b.len)]

\* conv1d and conv2d.
conv_groups(l, k_l, k_len, q, groups) ==
  LET blocks == Blocks(l, 2, groups)
      kernels == Blocks(k_l, 1, groups)
      Part(g) == New(conv_dims(blocks[g], kernels[g], q), conv(blocks[g], kernels[g], k_len, q))
  IN  IF groups = 1 THEN conv(l, k_l, k_len, q) ELSE cat([g \in 1 .. groups |-> Part(g)], 2).data

conv_transpose1d_groups(l, k_l, q, groups) ==
  LET blocks == Blocks(l, 2, groups)
      kernels == Blocks(k_l, 1, groups)
      shape == <<l.dims[1], k_l.dims[2], out_len_transpose(l.dims[3], k_l.dims[3], q)>>
      Part(g) == New(shape, conv_transpose1d(blocks[g], kernels[g], q))
  IN  IF groups = 1 THEN conv_transpose1d(l, k_l, q) ELSE cat([g \in 1 .. groups |-> Part(g)], 2).data

-----------------------------------------------------------------------------
(* Arms of backward that move elements: the gradient of the argument, or   *)
(* for a sum the elements of grad that it adds up.                         *)

narrow_grad(grad, arg_dims, d, start) ==
  pad_with_zeros(grad, d, start, arg_dims[d] - start - DimsOf(grad)[d])

cat_grad(args, d, grad, j) ==
  narrow_of(grad, d, Reach(args, d, j - 1), DimsOf(args[j])[d])

slice_scatter0_lhs_grad(grad, src_dims, start) == slice_scatter0(grad, Filled(src_dims, 0), start)
slice_scatter0_rhs_grad(grad, src_dims, start) == narrow_of(grad, 1, start, src_dims[1])

\* Mutant: the permutation is not inverted.
permute_grad_again(grad, idxs) == ViewOf(grad, permute(grad.layout, idxs))

permute_grad(grad, idxs) ==
  ViewOf(grad, permute(grad.layout, [i \in DOMAIN idxs |-> CHOOSE k \in DOMAIN idxs : idxs[k] = i]))

transpose_grad(grad, d1, d2) == transpose_of(grad, d1, d2)
reshape_grad(grad, arg_dims) == reshape_of(grad, arg_dims)

\* The dimensions on the left, and those that were of size 1, are summed up.
broadcast_grad(grad, arg_dims) ==
  LET left_dims == RankOf(grad) - Len(arg_dims)
      sum_dims == {d \in 1 .. RankOf(grad) : d <= left_dims \/ DimsOf(grad)[d] # arg_dims[d - left_dims]}
      rows == SumRows(grad.layout, sum_dims)
  IN  [p \in DOMAIN rows |-> ElemsAt(grad.data, rows[p])]

index_select_grad(grad, ids, arg_dims, d) ==
  LET taken == IndexAdd(arg_dims, ids, DimsOf(grad), d)
  IN  [p \in DOMAIN taken |-> [j \in DOMAIN taken[p] |-> ElementsOf(grad)[taken[p][j]]]]

gather_grad(grad, ids, arg_dims, d) ==
  LET taken == Scatter(arg_dims, ids, DimsOf(grad), d).taken
  IN  [p \in DOMAIN taken |-> [j \in DOMAIN taken[p] |-> ElementsOf(grad)[taken[p][j]]]]

\* Products of the gradient by the other operand, by its two last dimensions exchanged.
t_of(t) == transpose_of(t, RankOf(t) - 1, RankOf(t))
matmul_lhs_grad(grad, rhs) == matmul_of(grad, t_of(rhs))
matmul_rhs_grad(grad, lhs) == matmul_of(t_of(lhs), grad)

-----------------------------------------------------------------------------
(* Properties: what a method returns, by the index of an element.          *)

Value(t, i) == t.data[Address(t.layout, i) + 1]

Is(t, shape, Val(_)) ==
  /\ DimsOf(t) = shape
  /\ ElementsOf(t) = [k \in 1 .. Size(shape) |-> Val(AtPosition(k - 1, shape))]

\* Other tensors of a shape: a part of a storage, and a transposed one.
Others(shape) ==
  LET vals == [k \in 1 .. Size(shape) + 1 |-> 100 + k]
  IN  {[data |-> vals, layout |-> contiguous_with_offset(shape, 1)]}
        \cup {[data |-> vals, layout |-> transpose(contiguous_with_offset(Swap(shape, 1, d), 1), 1, d)] :
                d \in 2 .. Len(shape)}

Resized(d, n) == With(dims, d, n)

\* The first argument that reaches beyond an index holds its element.
CatIs(t, args, d) ==
  LET Owner(i) == CHOOSE j \in DOMAIN args : Reach(args, d, j - 1) <= i[d] /\ i[d] < Reach(args, d, j)
  IN  Is(t, With(dims, d, Reach(args, d, Len(args))),
         LAMBDA i : Value(args[Owner(i)], With(i, d, i[d] - Reach(args, d, Owner(i) - 1))))

CatExact(d) ==
  \A n \in 1 .. 2 : \A other \in Others(Resized(d, n)) :
    \A args \in {<<self, other>>, <<other, self, self>>} : cat_checks(args, d) /\ CatIs(cat(args, d), args, d)

StackExact(d) ==
  \A other \in Others(dims) :
    Is(stack(<<self, other>>, d), InsertAt(dims, d, 2),
       LAMBDA i : Value(IF i[d] = 0 THEN self ELSE other, RemoveAt(i, d)))

PadExact(d) ==
  \A pad \in {<<0, 0>>, <<0, 2>>, <<1, 0>>, <<2, 1>>} :
    LET left == pad[1]
        right == pad[2]
        Inside(i) == i[d] - left \in 0 .. dims[d] - 1
        Nearest(i) == IF i[d] < left THEN 0 ELSE IF Inside(i) THEN i[d] - left ELSE dims[d] - 1
        wide == Resized(d, left + dims[d] + right)
    IN  /\ Is(pad_with_zeros(self, d, left, right), wide,
              LAMBDA i : IF Inside(i) THEN Value(self, With(i, d, i[d] - left)) ELSE 0)
        /\ Is(pad_with_same(self, d, left, right), wide, LAMBDA i : Value(self, With(i, d, Nearest(i))))

RollExact(d) ==
  \A shift \in -3 .. 3 :
    Is(roll(self, shift, d), dims, LAMBDA i : Value(self, With(i, d, (i[d] - shift) % dims[d])))

RepeatExact ==
  \A repeats \in {<<2>>, <<1, 2>>, <<2, 1, 2>>} :
    LET n == IF rank < Len(repeats) THEN Len(repeats) ELSE rank
        shape == WithOnes(dims, n)
        times == repeats \o Copies(1, n - Len(repeats))
    IN  Is(repeat(self, repeats), [d \in 1 .. n |-> shape[d] * times[d]],
           LAMBDA i : Value(self, [d \in 1 .. rank |-> i[n - rank + d] % dims[d]]))

MeshgridExact ==
  rank = 1 =>
    \A other \in Others(<<2>>), last \in Others(<<1>>), xy \in BOOLEAN :
      \A args \in {<<self, other>>, <<other, self, last>>} :
        LET n == Len(args)
            Axis(j) == IF xy THEN n + 1 - j ELSE j
            shape == [d \in 1 .. n |-> DimsOf(args[Axis(d)])[1]]
        IN  \A j \in 1 .. n : Is(meshgrid(args, xy)[j], shape, LAMBDA i : Value(args[j], <<i[Axis(j)]>>))

\* The box of src whose first corner is at the given index.
ReplacedAt(t, src, corner) ==
  Is(t, dims, LAMBDA i :
       LET j == [d \in 1 .. rank |-> i[d] - corner[d]]
       IN  IF \A d \in 1 .. rank : j[d] \in 0 .. DimsOf(src)[d] - 1 THEN Value(src, j) ELSE Value(self, i))

ReplaceExact ==
  /\ \A d \in 1 .. rank : \A n \in 1 .. dims[d] : \A src \in Others(Resized(d, n)), start \in 0 .. dims[d] - n :
       ReplacedAt(slice_scatter(self, src, d, start), src, With(Copies(0, rank), d, start))
  /\ \A corner \in Index(dims) :
       LET shape == [d \in 1 .. rank |-> IF corner[d] = 0 THEN 1 ELSE dims[d] - corner[d]]
           ranges == [d \in 1 .. rank |-> [start |-> corner[d], end |-> corner[d] + shape[d]]]
       IN  \A src \in Others(shape) : ReplacedAt(slice_assign(self, ranges, src), src, corner)

FlipExact ==
  is_contiguous(layout) =>
    \A ds \in {<<d>> : d \in 1 .. rank} \cup {<<d, e>> : d, e \in 1 .. rank} :
      Is(flip(self, ds), dims,
         LAMBDA i : Value(self, [d \in 1 .. rank |->
           IF Cardinality({k \in DOMAIN ds : ds[k] = d}) = 1 THEN dims[d] - 1 - i[d] ELSE i[d]]))

\* Indexers for dimension d; index_select is for a tensor that is contiguous.
Indexers(d) ==
  {[kind |-> "select", left |-> dims[d] - 1], [kind |-> "narrow", left |-> None, right |-> None],
   [kind |-> "narrow", left |-> dims[d] - 1, right |-> None], [kind |-> "narrow", left |-> 0, right |-> 1]}
    \cup (IF d = 1 /\ is_contiguous(layout) THEN {[kind |-> "ids", ids |-> <<dims[d] - 1, 0>>]} ELSE {})

IndexExact ==
  \A n \in 1 .. rank : \A xs \in {f \in [1 .. n -> UNION {Indexers(d) : d \in 1 .. n}] :
                                    \A d \in 1 .. n : f[d] \in Indexers(d)} :
    LET left(d) == IF xs[d].left = None THEN 0 ELSE xs[d].left
        Len1(d) == CASE xs[d].kind = "ids" -> Len(xs[d].ids)
                     [] xs[d].kind = "narrow" ->
                          (IF xs[d].right = None THEN dims[d] ELSE xs[d].right) - left(d)
        kept == SelectSeq([d \in 1 .. rank |-> d], LAMBDA d : d > n \/ xs[d].kind # "select")
        \* The index of self for the index i of the result.
        Origin(i, d) ==
          LET k == CHOOSE k \in DOMAIN kept : kept[k] = d
          IN  CASE d > n -> i[k]
                [] d <= n /\ xs[d].kind = "select" -> xs[d].left
                [] d <= n /\ xs[d].kind = "narrow" -> left(d) + i[k]
                [] d <= n /\ xs[d].kind = "ids" -> xs[d].ids[i[k] + 1]
    IN  Is(index(self, xs), [k \in DOMAIN kept |-> IF kept[k] > n THEN dims[kept[k]] ELSE Len1(kept[k])],
           LAMBDA i : Value(self, [d \in 1 .. rank |-> Origin(i, d)]))

VecExact ==
  /\ flat_vec(self) = [k \in 1 .. Size(dims) |-> Value(self, AtPosition(k - 1, dims))]
  /\ rank = 2 => to_vec2(self) = [i \in 1 .. dims[1] |-> [j \in 1 .. dims[2] |-> Value(self, <<i - 1, j - 1>>)]]
  /\ rank = 3 => to_vec3(self) =
       [i \in 1 .. dims[1] |-> [j \in 1 .. dims[2] |-> [k \in 1 .. dims[3] |->
          Value(self, <<i - 1, j - 1, k - 1>>)]]]

\* The rows are sorted, by indexes that name every element once.
SortsRows(t, asc) ==
  LET n == Last(dims)
      Rows(x) == InRows(ElementsOf(x), Size(dims) \div n, n)
      rows == Rows(t)
      ids == Rows(arg_sort_last_dim(t, asc))
      sorted == Rows(sort_last_dim(t, asc))
  IN  \A r \in DOMAIN rows :
        /\ ToSet(ids[r]) = 0 .. n - 1
        /\ sorted[r] = [k \in 1 .. n |-> rows[r][ids[r][k] + 1]]
        /\ \A k \in 1 .. n - 1 :
             IF asc THEN sorted[r][k] <= sorted[r][k + 1] ELSE sorted[r][k] >= sorted[r][k + 1]

\* The elements in another order, with equal ones.
Mixed == [self EXCEPT !.data = [k \in DOMAIN data |-> (3 * data[k]) % 4]]

\* The rows of the storage are those of the tensor if it begins at 0.
SortExact ==
  rank > 0 /\ is_contiguous(layout) /\ layout.start_offset = 0 =>
    \A asc \in BOOLEAN : SortsRows(self, asc) /\ SortsRows(Mixed, asc)

\* sort.rs:255: "Returns the indices that sort the tensor along the last
\* dimension".  Violated: asort reads the storage from its begin, which is not
\* where a tensor with an offset begins.
SortAnyView ==
  Size(dims) > 0 /\ rank > 0 /\ is_contiguous(layout) =>
    \A asc \in BOOLEAN : SortsRows(self, asc) /\ SortsRows(Mixed, asc)

\* Operands of the same inner dimension: with fewer, more and other batches.
BroadcastMatmulExact ==
  rank >= 2 =>
    \A batch \in {<<>>, <<1>>, <<2>>, SubSeq(dims, 1, rank - 2)} :
      LET shape == batch \o <<dims[rank], 2>>
          shapes == broadcast_shape_matmul(dims, shape)
          r == Len(shapes.l)
          out == With(shapes.l, r, 2)
          \* The index of an operand for a place of the batch, a row and a column.
          Back(i, s, row, column) ==
            [d \in 1 .. Len(s) - 2 |-> IF s[d] = 1 THEN 0 ELSE i[r - Len(s) + d]] \o <<row, column>>
          Sum(b, i) == [q \in 1 .. dims[rank] |-> <<Value(self, Back(i, dims, i[r - 1], q - 1)),
                                                   Value(b, Back(i, shape, q - 1, i[r]))>>]
      IN  \A b \in Others(shape) :
            LET L == BroadcastOperand(self, shapes.l).layout
                R == BroadcastOperand(b, shapes.r).layout
            IN  None \notin ToSet(shapes.l) /\ Accepted(<<L, R>>) /\ MergeFits(L, R) =>
                  broadcast_matmul(self, b) = [p \in 1 .. Size(out) |-> {Sum(b, AtPosition(p - 1, out))}]

\* An image with one more spatial dimension makes a conv2d of a conv1d.  The
\* elements of a result belong to the group that their channel is in.
GroupsExact ==
  Image({3}) /\ dims[2] = 2 =>
    \A q \in Params, wide \in BOOLEAN :
      LET Wide(l) == IF wide THEN unsqueeze(l, 3) ELSE l
          l == Wide(layout)
          inp == Blocks(l, 2, 2)
      IN  /\ \A k \in {contiguous_with_offset(<<4, 1, 2>>, 1), transpose(contiguous_with_offset(<<1, 4, 2>>, 0), 1, 2)} :
               LET k_l == Wide(k)
                   ker == Blocks(k_l, 1, 2)
               IN  Fits(l, k_l, q) /\ (\A g \in 1 .. 2 : ConvFits(inp[g], ker[g], q)) =>
                     SameSums(conv_groups(l, k_l, Extent(k_l), q, 2),
                              Sums(conv_dims(l, k_l, q), LAMBDA x :
                                ResultSum(inp[1 + x[2] \div 2], ker[1 + x[2] \div 2], With(x, 2, x[2] % 2), q)))
          /\ \A t \in TransposeParams :
               LET k_l == contiguous_with_offset(<<2, 2, 2>>, 1)
                   ker == Blocks(k_l, 1, 2)
                   out == <<dims[1], 4, out_len_transpose(dims[3], 2, t)>>
               IN  ~wide /\ (\A g \in 1 .. 2 : TransposeFits(inp[g], ker[g], t)) =>
                     SameSums(conv_transpose1d_groups(l, k_l, t, 2),
                              Sums(out, LAMBDA x :
                                ImageSum(inp[1 + x[2] \div 2], ker[1 + x[2] \div 2], With(x, 2, x[2] % 2), t)))

\* Every method returns the tensor that its documentation describes, of every
\* layout of its arguments: cat by each of its three ways, stack, padding,
\* roll, repeat, meshgrid, the replacement of a box, flip and indexes.  Views of
\* more than one operation with more than 3 elements are left out of the parts
\* that have a second argument in every position.
MethodsExact ==
  /\ Size(dims) > 0 =>
       (\A d \in 1 .. rank : RollExact(d)) /\ RepeatExact /\ MeshgridExact /\ FlipExact
  /\ Size(dims) > 0 /\ (Size(dims) <= 3 \/ ops <= 1) =>
       /\ \A d \in 1 .. rank : CatExact(d) /\ PadExact(d)
       /\ \A d \in 1 .. rank + 1 : StackExact(d)
       /\ ReplaceExact /\ IndexExact

\* The methods that take a tensor in parts return what their documentation
\* describes: the rows of vectors of vectors and of sorting, the batches of
\* products whose batches differ, the groups of channels of convolutions; and
\* the chunks that the groups are made of cover their dimension.
PartsExact ==
  /\ ChunksCover
  /\ Size(dims) > 0 => VecExact /\ SortExact /\ BroadcastMatmulExact /\ GroupsExact

-----------------------------------------------------------------------------
(* Properties of the arms of backward.                                     *)

\* A tensor whose elements are their places in it, contiguous or transposed.
Numbered(shape) == New(shape, [k \in 1 .. Size(shape) |-> k])

NumberedTransposed(shape, d) ==
  LET turned == Swap(shape, 1, d)
      Place(k) == Position(Swap(AtPosition(k - 1, turned), 1, d), shape) + 1
  IN  [data |-> [k \in 1 .. Size(shape) |-> Place(k)],
       layout |-> transpose(contiguous_with_offset(turned, 0), 1, d)]

Gradients(shape) ==
  {Numbered(shape)} \cup {NumberedTransposed(shape, d) : d \in 2 .. Len(shape)}

\* Every place of the argument gets, once each, the gradients of the places of
\* the result that it moved to.
Back(result, terms) ==
  LET from == ElementsOf(result)
  IN  /\ Len(terms) = Size(dims)
      /\ \A p \in DOMAIN terms :
           /\ ToSet(terms[p]) = {k \in DOMAIN from : from[k] = p}
           /\ IsInjective(terms[p])

\* A gradient that is a tensor has one term, or zero, in each place.
Terms(t) == [p \in DOMAIN ElementsOf(t) |-> SelectSeq(<<ElementsOf(t)[p]>>, LAMBDA g : g # 0)]

\* The method applied to the places of the argument, and its gradient.
MovedBack(method(_), arm(_)) ==
  LET result == method(Numbered(dims))
  IN  \A grad \in Gradients(DimsOf(result)) :
        LET arg == arm(grad) IN DimsOf(arg) = dims /\ Back(result, Terms(arg))

SummedBack(result, arm(_)) == \A grad \in Gradients(DimsOf(result)) : Back(result, arm(grad))

NarrowBack ==
  \A d \in 1 .. rank : \A start \in 0 .. dims[d] - 1 : \A len \in 1 .. dims[d] - start :
    MovedBack(LAMBDA t : narrow_of(t, d, start, len), LAMBDA grad : narrow_grad(grad, dims, d, start))

CatBack ==
  \A d \in 1 .. rank : \A other \in Others(Resized(d, 2)) :
    \A j \in 1 .. 2 :
      LET Args(t) == IF j = 1 THEN <<t, other>> ELSE <<other, t>>
      IN  MovedBack(LAMBDA t : cat(Args(t), d), LAMBDA grad : cat_grad(Args(self), d, grad, j))

ScatterBack ==
  rank > 0 =>
    /\ \A n \in 1 .. dims[1] : \A start \in 0 .. dims[1] - n : \A other \in Others(Resized(1, n)) :
         MovedBack(LAMBDA t : slice_scatter0(t, other, start),
                   LAMBDA grad : slice_scatter0_lhs_grad(grad, DimsOf(other), start))
    /\ \A n \in 0 .. 2 : \A start \in 0 .. n :
         LET whole == Filled(Resized(1, dims[1] + n), 0)
         IN  MovedBack(LAMBDA t : slice_scatter0(whole, t, start),
                       LAMBDA grad : slice_scatter0_rhs_grad(grad, dims, start))

TurnBack ==
  /\ \A idxs \in TupleOf(1 .. rank, rank) : is_permutation(idxs, rank) =>
       MovedBack(LAMBDA t : ViewOf(t, permute(t.layout, idxs)), LAMBDA grad : permute_grad(grad, idxs))
  /\ \A d, e \in 1 .. rank :
       MovedBack(LAMBDA t : transpose_of(t, d, e), LAMBDA grad : transpose_grad(grad, d, e))
  /\ MovedBack(LAMBDA t : reshape_of(t, <<Size(dims)>>), LAMBDA grad : reshape_grad(grad, dims))

BroadcastBack ==
  \A shape \in {<<2>> \o dims} \cup {Resized(d, 2) : d \in {e \in 1 .. rank : dims[e] = 1}} :
    SummedBack(ViewOf(Numbered(dims), broadcast_as(contiguous_with_offset(dims, 0), shape)),
               LAMBDA grad : broadcast_grad(grad, dims))

\* index_select, and gather, whose gradient is refused unless it is contiguous.
IndexBack ==
  \A d \in 1 .. rank, n \in 1 .. 2 :
    LET shape == Resized(d, n)
    IN  /\ \A ids \in TupleOf(0 .. dims[d] - 1, n) :
             SummedBack(index_select_of(Numbered(dims), ids, d),
                        LAMBDA grad : index_select_grad(grad, ids, dims, d))
        /\ \A step, first \in 0 .. 2 :
             LET ids == [k \in 1 .. Size(shape) |-> (k * step + first) % dims[d]]
                 at == Gather(contiguous_with_offset(dims, 0), ids, shape, d)
             IN  Back(New(shape, ElemsAt(Numbered(dims).data, at)),
                      gather_grad(Numbered(shape), ids, dims, d))

\* The element (i, q) of an operand was a factor of every element in its row, or
\* in its column, of the product.
MatmulBack ==
  rank >= 2 =>
    \A rhs \in Others(SubSeq(dims, 1, rank - 2) \o <<dims[rank], 2>>) :
      \A grad \in Gradients(With(dims, rank, 2)) :
        LET At2(t, i, row, column) == Value(t, SubSeq(i, 1, rank - 2) \o <<row, column>>)
            Fit(l, r) == Accepted(<<l, r>>) /\ MergeFits(l, r)
            Lhs(i) == [j \in 1 .. 2 |-> <<At2(grad, i, i[rank - 1], j - 1), At2(rhs, i, i[rank], j - 1)>>]
            Rhs(i) == [j \in 1 .. dims[rank - 1] |->
                        <<At2(self, i, j - 1, i[rank - 1]), At2(grad, i, j - 1, i[rank])>>]
            Each(shape, Sum(_)) == [p \in 1 .. Size(shape) |-> {Sum(AtPosition(p - 1, shape))}]
        IN  /\ Fit(grad.layout, t_of(rhs).layout) => matmul_lhs_grad(grad, rhs) = Each(dims, Lhs)
            /\ Fit(t_of(self).layout, grad.layout) => matmul_rhs_grad(grad, self) = Each(DimsOf(rhs), Rhs)

\* Windows of the whole dimension, of which there is one.  Violated: tensor.rs:2974
\* records Op::Reshape, whose arm has the elements in the order of the windows.
UnfoldBack ==
  ops = 0 /\ Size(dims) > 0 =>
    \A d \in 1 .. rank :
      MovedBack(LAMBDA t : ViewOf(t, unfold(t.layout, d, dims[d], 1)),
                LAMBDA grad : reshape_grad(grad, dims))

\* What backward gives to the argument of an operation that moves elements is
\* the transpose of the operation: each element collects the gradients of the
\* places it went to, each once, whatever the layout of the gradient; for a
\* product it sums up the gradients it had a part in, with their factors.  The
\* arms depend on the shape of the argument, not on its layout.
MovesBackExact ==
  ops = 0 /\ Size(dims) > 0 =>
    NarrowBack /\ CatBack /\ ScatterBack /\ TurnBack /\ BroadcastBack /\ IndexBack /\ MatmulBack
=============================================================================
