--------------------------- MODULE MCTensorViews ---------------------------
(* Instances of TensorViews, KernelViews, ConvViews and TensorMethods for TLC. *)
EXTENDS TensorMethods

\* Shapes up to rank 3 whose dimensions are among the given sizes.
ShapesOf(sizes) == UNION {TupleOf(sizes, n) : n \in 0 .. 3}
SmallShapes == {s \in ShapesOf({1, 2, 3}) : elem_count(s) <= 4} \cup {<<2, 3>>}
Asked == {<<6>>, <<2, 3>>, <<3, 2>>, <<None, 2>>, <<2, None>>, <<1, None, 2>>, <<2, 2>>, <<2, 1, 3>>, <<4>>, <<0, 2>>, <<2>>, <<>>}

\* Shapes up to rank 4, for kernels and images.
KernelShapes == {<<2, 3>>, <<2, 1, 2>>, <<2, 2, 2>>, <<2, 1, 1, 2>>, <<1, 1, 2, 3>>}
AskedOfKernels == {<<2, 2>>, <<None, 2>>, <<2, 2, 3>>, <<1, 2, 3>>, <<2, 2, 2>>, <<2>>, <<>>}

SomeDims == {-2, -1, 0, 1}
=============================================================================
