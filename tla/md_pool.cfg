SPECIFICATION Spec
CONSTANTS
  t1 = t1
  t2 = t2
  b1 = b1
  b2 = b2
  b3 = b3
  s1 = s1
  s2 = s2
  s3 = s3
  Threads <- TwoThreads
  NoThread = NoThread
  Buffers <- ThreeBuffers
  NoBuffer = NoBuffer
  Slots <- ThreeSlots
  Sizes = {2, 3}
  Seeds = {2}
  DefaultSeed = 1
  MaxCalls = 4
  SeedAnyTime = FALSE
SYMMETRY Symmetry
INVARIANT Exclusive
INVARIANT ResultsRight
CHECK_DEADLOCK FALSE
