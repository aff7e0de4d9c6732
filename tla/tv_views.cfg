SPECIFICATION Spec
CONSTANTS
  BaseShapes <- SmallShapes
  Shapes <- Asked
  Dims <- SomeDims
  Sizes = {0, 1, 2, 3}
  MaxRank = 3
  MaxElems = 8
  MaxOps = 2
INVARIANT TypeOK
INVARIANT MethodsExact
INVARIANT PartsExact
INVARIANT MovesBackExact
PROPERTY ViewsMean
CHECK_DEADLOCK FALSE
