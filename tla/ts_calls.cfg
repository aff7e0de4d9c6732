SPECIFICATION FairSpec
CONSTANTS
  t1 = t1
  t2 = t2
  t3 = t3
  Threads = {t1, t2, t3}
  Storages <- LockTensors
  Tensors <- LockTensors
  StorageOf <- LockStorageOf
  LayoutOf <- LockLayoutOf
  Cells = {1}
  Base = 1
  NoOp = NoOp
  Kinds <- OrderKinds
  InitialData <- LockData
  MaxCalls = 1
CHECK_DEADLOCK FALSE
INVARIANT DeadlocksExplained
PROPERTY EveryCallReturns
