SPECIFICATION Spec
CONSTANTS
  t1 = t1
  t2 = t2
  Threads = {t1, t2}
  Storages = {"S1", "S2"}
  Tensors <- MCTensors
  StorageOf <- MCStorageOf
  LayoutOf <- MCLayoutOf
  Cells = {1, 2}
  Base = 4
  NoOp = NoOp
  Kinds <- AllKinds
  InitialData <- MCInitialData
  MaxCalls = 1
SYMMETRY Symmetry
CHECK_DEADLOCK FALSE
INVARIANT TypeOK
PROPERTIES StableArgs AtomicCalls
