SPECIFICATION Spec
CONSTANTS
  Values = {v1, v2}
  Chunks <- SmallChunks
  MaxLen = 5
INVARIANT StreamIsBatch
INVARIANT NoInternalError
