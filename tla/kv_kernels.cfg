SPECIFICATION Spec
CONSTANTS
  BaseShapes <- KernelShapes
  Shapes <- AskedOfKernels
  Dims <- SomeDims
  Sizes = {0, 1, 2}
  MaxRank = 4
  MaxElems = 12
  MaxOps = 2
INVARIANT ReadsInOrder
INVARIANT ReduceExact
INVARIANT IndexedExact
INVARIANT MatMulExact
INVARIANT ResizeExact
INVARIANT ConvExact
INVARIANT ImagesBackExact
CHECK_DEADLOCK FALSE
