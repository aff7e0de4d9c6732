---------------------------- MODULE TensorViews ----------------------------
(***************************************************************************)
(* A tensor seen through a sequence of view operations of tensor.rs: the   *)
(* storage it points at and its layout.  A view shares the storage of its  *)
(* argument; contiguous and reshape copy into a new one when they have to. *)
(***************************************************************************)
EXTENDS LayoutOps, Indexing, FiniteSets

CONSTANTS
  BaseShapes,   \* shapes of the tensors created
  Shapes,       \* shapes asked for, with None for a hole
  Dims,         \* arguments of type Dim: integers
  Sizes,        \* arguments of type usize
  MaxRank, MaxElems, MaxOps   \* bounds: of the results, and on the operations

ASSUME ViewsAssumption ==
  /\ BaseShapes \subseteq Seq(Nat) /\ Shapes \subseteq Seq(Nat \cup {None})
  /\ Dims \subseteq Int /\ Sizes \subseteq Nat
  /\ {MaxRank, MaxElems, MaxOps} \subseteq Nat

VARIABLES
  data,     \* the storage
  layout,
  ops       \* history: the number of operations applied

vars == <<data, layout, ops>>

dims == layout.dims
rank == Len(layout.dims)

Init ==
  \E shape \in BaseShapes :
    /\ layout = contiguous_with_offset(shape, 0)
    /\ data = [i \in 1 .. elem_count(shape) |-> i]
    /\ ops = 0

-----------------------------------------------------------------------------
(* Operations.  One that fails returns an error and leaves the tensor.     *)

Bounded(l) == Len(l.dims) <= MaxRank /\ elem_count(l.dims) <= MaxElems

\* The tensor returned shares the storage.
View(l) ==
  /\ ops < MaxOps /\ Bounded(l)
  /\ layout' = l /\ data' = data /\ ops' = ops + 1

\* The tensor returned has a new storage, filled by copy_strided_src.
CopyOf(shape) ==
  /\ ops < MaxOps
  /\ data' = copy_strided_src(data, [i \in 1 .. elem_count(shape) |-> None], 0, layout)
  /\ layout' = contiguous_with_offset(shape, 0)
  /\ ops' = ops + 1

\* The layout of Tensor::narrow, for d counted from 1.
Narrowed(l, d, start, len) ==
  IF start = 0 /\ l.dims[d] = len THEN l ELSE narrow(l, d, start, len)

\* Mutant: the length is not checked.
NarrowUnchecked(dim, start, len) ==
  LET d == to_index(dim, rank)
  IN  /\ d # None /\ start <= dims[d]
      /\ View(Narrowed(layout, d, start, len))

Narrow(dim, start, len) ==
  LET d == to_index(dim, rank)
  IN  /\ d # None /\ start + len <= dims[d]
      /\ View(Narrowed(layout, d, start, len))

\* The start and the length of the chunks of a dimension.
ChunkBounds(size, chunks) ==
  LET len(i) == (size \div chunks) + (IF i <= size % chunks THEN 1 ELSE 0)
  IN  IF size < chunks THEN [i \in 1 .. size |-> [start |-> i - 1, len |-> 1]]
      ELSE [i \in 1 .. chunks |->
             [start |-> FoldLeft(+, 0, [j \in 1 .. i - 1 |-> len(j)]), len |-> len(i)]]

\* One of the tensors that chunk returns.  chunk divides by chunks unless the
\* dimension is smaller.
Chunk(dim, chunks) ==
  LET d == to_index(dim, rank)
  IN  /\ d # None /\ chunks > 0
      /\ \E b \in ToSet(ChunkBounds(dims[d], chunks)) :
           View(Narrowed(layout, d, b.start, b.len))

Transpose(dim1, dim2) ==
  LET d1 == to_index(dim1, rank)
      d2 == to_index(dim2, rank)
  IN  /\ d1 # None /\ d2 # None
      /\ View(IF d1 = d2 THEN layout ELSE transpose(layout, d1, d2))

Permute(idxs) == is_permutation(idxs, rank) /\ View(permute(layout, idxs))

BroadcastAs(shape) ==
  /\ None \notin ToSet(shape) /\ can_broadcast(layout, shape)
  /\ View(broadcast_as(layout, shape))

BroadcastLeft(shape) ==
  /\ None \notin ToSet(shape)
  /\ BroadcastAs(shape \o dims)

Squeeze(dim) ==
  LET d == to_index(dim, rank)
  IN  /\ d # None
      /\ View(IF dims[d] = 1 THEN squeeze(layout, d) ELSE layout)

Unsqueeze(dim) ==
  LET d == to_index_plus_one(dim, rank)
  IN  d # None /\ View(unsqueeze(layout, d))

Unfold(dim, size, step) ==
  LET d == to_index(dim, rank)
  IN  /\ d # None /\ size <= dims[d] /\ step > 0
      /\ View(unfold(layout, d, size, step))

\* reshape to a shape without a hole.
ReshapeTo(shape) ==
  /\ elem_count(shape) = elem_count(dims)
  /\ \/ is_contiguous(layout) /\ View(contiguous_with_offset(shape, layout.start_offset))
     \/ ~is_contiguous(layout) /\ CopyOf(shape)

Reshape(s) ==
  LET shape == into_shape(s, elem_count(dims))
  IN  None \notin ToSet(shape) /\ ReshapeTo(shape)

\* flatten, flatten_to, flatten_from, flatten_all.
Flatten(dim1, dim2) ==
  LET d1 == to_index(dim1, rank)
      d2 == to_index(dim2, rank)
  IN  IF rank = 0 THEN ReshapeTo(<<1>>)
      ELSE /\ d1 # None /\ d2 # None
           /\ \/ d1 >= d2 /\ View(layout)
              \/ /\ d1 < d2
                 /\ ReshapeTo(SubSeq(dims, 1, d1 - 1) \o <<elem_count(SubSeq(dims, d1, d2))>>
                                \o SubSeq(dims, d2 + 1, rank))

\* narrow to one index of the first dimension, then reshape without it.
Get(i) ==
  /\ rank > 0 /\ i < dims[1]
  /\ LET row == Narrowed(layout, 1, i, 1)
     IN  IF is_contiguous(row)
         THEN View(contiguous_with_offset(Tail(dims), row.start_offset))
         ELSE /\ ops < MaxOps /\ ops' = ops + 1
              /\ layout' = contiguous_with_offset(Tail(dims), 0)
              /\ data' = copy_strided_src(data, [k \in 1 .. elem_count(Tail(dims)) |-> None], 0, row)

GetOnDim(dim, i) ==
  LET d == to_index(dim, rank)
  IN  /\ d # None /\ i < dims[d]
      /\ View(squeeze(Narrowed(layout, d, i, 1), d))

\* contiguous, when it copies, and force_contiguous, make_var.
ForceContiguous == CopyOf(dims)

Next ==
  \/ \E dim \in Dims, start, len \in Sizes : Narrow(dim, start, len) \/ Unfold(dim, start, len)
  \/ \E dim \in Dims, n \in Sizes : Chunk(dim, n) \/ GetOnDim(dim, n)
  \/ \E dim1, dim2 \in Dims : Transpose(dim1, dim2) \/ Flatten(dim1, dim2)
  \/ \E idxs \in TupleOf(1 .. rank, rank) : Permute(idxs)
  \/ \E shape \in Shapes : BroadcastAs(shape) \/ BroadcastLeft(shape) \/ Reshape(shape)
  \/ \E dim \in Dims : Squeeze(dim) \/ Unsqueeze(dim)
  \/ \E i \in Sizes : Get(i)
  \/ ForceContiguous

Spec == Init /\ [][Next]_vars

-----------------------------------------------------------------------------
(* Properties.                                                             *)

\* Where an index is stored: the offset plus the strides.
Address(l, i) == l.start_offset + FoldLeft(+, 0, [d \in DOMAIN l.dims |-> i[d] * l.stride[d]])

\* The addresses of a tensor in row-major order.
RowMajor(l) == [k \in 1 .. Size(l.dims) |-> Address(l, AtPosition(k - 1, l.dims))]

elem == [i \in Index(dims) |-> data[Address(layout, i) + 1]]

\* The tensor that the storage and the layout stand for.
Abs == INSTANCE TensorValue

\* Type invariant; views of a tensor with elements stay within its storage.
TypeOK ==
  /\ layout \in [dims : Seq(Nat), stride : Seq(Nat), start_offset : Nat]
  /\ Len(layout.stride) = rank /\ ops <= MaxOps
  /\ ToSet(data) \subseteq Nat
  /\ \A k \in 1 .. Size(dims) : RowMajor(layout)[k] < Len(data)

\* Every operation returns the tensor that its documentation describes,
\* whatever views and copies were taken before it: for each of them the
\* strides, the offset, the order of a copy and the rule by which reshape
\* chooses between a view and a copy must fit together.
ViewsMean ==
  [][/\ \A dim \in Dims, start, len \in Sizes :
          LET d == to_index(dim, rank)
          IN  /\ Narrow(dim, start, len) => Abs!Slice(d, start, len)
              /\ Unfold(dim, start, len) => Abs!Windows(d, start, len)
     /\ \A dim \in Dims, n \in Sizes : GetOnDim(dim, n) => Abs!Fixed(to_index(dim, rank), n)
     /\ \A n \in Sizes : Get(n) => Abs!Fixed(1, n)
     /\ \A dim1, dim2 \in Dims :
          LET d1 == to_index(dim1, rank)
              d2 == to_index(dim2, rank)
          IN  /\ Transpose(dim1, dim2) => Abs!Permuted(Swap([d \in 1 .. rank |-> d], d1, d2))
              /\ Flatten(dim1, dim2) =>
                   Abs!Rearranged(
                     CASE rank = 0 -> <<1>>
                       [] rank > 0 /\ d1 > d2 -> dims
                       [] rank > 0 /\ d1 <= d2 ->
                            SubSeq(dims, 1, d1 - 1) \o <<Size(SubSeq(dims, d1, d2))>>
                              \o SubSeq(dims, d2 + 1, rank))
     /\ \A idxs \in TupleOf(1 .. rank, rank) : Permute(idxs) => Abs!Permuted(idxs)
     /\ \A shape \in Shapes :
          /\ BroadcastAs(shape) => Abs!Repeated(shape)
          /\ BroadcastLeft(shape) => Abs!Repeated(shape \o dims)
          /\ Reshape(shape) => Abs!Rearranged(into_shape(shape, Size(dims)))
     /\ \A dim \in Dims :
          /\ Squeeze(dim) => Abs!Rearranged(dims')
          /\ Unsqueeze(dim) => Abs!Rearranged(dims')
     /\ ForceContiguous => Abs!Rearranged(dims)]_vars

\* The iterators and the loops over one tensor read its elements in row-major
\* order, whichever block structure strided_blocks finds.
UnaryInOrder ==
  /\ strided_index(layout) = RowMajor(layout)
  /\ unary_map(layout) = RowMajor(layout)

\* Every layout of the given shape that broadcast_as makes of a new tensor.
Broadcasts(shape) ==
  {broadcast_as(contiguous_with_offset(s, 0), shape) :
     s \in {t \in UNION {[1 .. n -> ToSet(shape) \cup {1}] : n \in 0 .. Len(shape)} :
              can_broadcast(Layout(t, t, 0), shape)}}

\* The loops over two tensors combine the elements of equal indexes, with
\* either of them broadcast and whichever of the cases of binary_map and
\* binary_map_vec applies.
BinaryInOrder ==
  \A b \in Broadcasts(dims) :
    LET Pairs(l, r) == [k \in 1 .. Size(dims) |->
                          LET i == AtPosition(k - 1, dims) IN <<Address(l, i), Address(r, i)>>]
    IN  /\ binary_map(layout, b) = Pairs(layout, b)
        /\ binary_map(b, layout) = Pairs(b, layout)
        /\ binary_map_vec(layout, b) = Pairs(layout, b)
        /\ binary_map_vec(b, layout) = Pairs(b, layout)

\* The loops of the element-wise operations, over one tensor and over two.
ReadsInOrder == UnaryInOrder /\ BinaryInOrder

\* The chunks of a dimension follow each other, cover it and differ by one at most.
ChunksCover ==
  \A d \in 1 .. rank, chunks \in Sizes :
    LET size == dims[d]
        b == ChunkBounds(size, chunks)
        End(i) == b[i].start + b[i].len
    IN  chunks > 0 =>
          /\ Len(b) <= chunks
          /\ \A i \in DOMAIN b : b[i].start = IF i = 1 THEN 0 ELSE End(i - 1)
          /\ IF b = <<>> THEN size = 0 ELSE End(Len(b)) = size
          /\ \A i, j \in DOMAIN b : b[i].len <= b[j].len + 1

\* contiguous_offsets "returns the appropriate start and stop offset if the
\* data is stored in a C contiguous (aka row major) way" (layout.rs:85):
\* binary_map slices the storage with them, which panics beyond its end.
OffsetsInStorage == is_contiguous(layout) => contiguous_offsets(layout).to <= Len(data)
=============================================================================
