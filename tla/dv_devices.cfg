SPECIFICATION Spec
CONSTANTS
  BaseShapes <- DeviceShapes
  Shapes <- Asked
  Dims <- SomeDims
  Sizes = {0, 1, 2}
  MaxRank = 4
  MaxElems = 12
  MaxOps = 1
INVARIANT RocmExact
INVARIANT CudaExact
 
INVARIANT DispatchExact
CHECK_DEADLOCK FALSE
