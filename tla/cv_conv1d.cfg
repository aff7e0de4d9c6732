SPECIFICATION Spec
CONSTANTS
  BaseShapes <- KernelShapes
  Shapes <- AskedOfKernels
  Dims <- SomeDims
  Sizes = {0, 1, 2}
  MaxRank = 4
  MaxElems = 12
  MaxOps = 1
INVARIANT Conv1DKernelGrad
CHECK_DEADLOCK FALSE
