SPECIFICATION Spec
CONSTANTS
  t1 = t1
  t2 = t2
  h1 = h1
  h2 = h2
  h3 = h3
  Threads <- TwoThreads
  Seeds = {1, 2}
  Kernels = {unary}
  Handles <- ThreeHandles
  NoHandle = NoHandle
  MaxCalls = 4
SYMMETRY Symmetry
INVARIANT ModuleFound
INVARIANT SeedCurrent
INVARIANT NoLeak
CHECK_DEADLOCK FALSE
