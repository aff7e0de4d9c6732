SPECIFICATION FairSpec
CONSTANTS
  Threads = {t1, t2}
  NoThread = NoThread
  Mats = {m1, m2}
  Cpu = Cpu
  Gpus = {g1, g2}
  Rocm = {g1}
  Batches <- SomeBatches
  Shapes <- Square
  Dtypes = {"Q4_0", "Q4K"}
  NoWeight = NoWeight
  MaxCalls = 4
CHECK_DEADLOCK FALSE

INVARIANT BlocksExact
INVARIANT AnswersRight
INVARIANT WeightsKept
INVARIANT PanicsExplained
PROPERTY CallsReturn
