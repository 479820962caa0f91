SPECIFICATION FairDueSpec
CONSTANTS
  t1 = t1
  t2 = t2
  t3 = t3
  v1 = v1
  v2 = v2
  None = None
  Threads = {t1, t2, t3}
  Handles <- MCHandles
  Workloads <- Neighbours
  ListNum = 1
  MaxNodes = 2
  MaxLevel = 1
  MaxKey = 9
  VersionMod = 1
  MaxHitCount = 2
  InitHitCount = 2
CHECK_DEADLOCK FALSE
INVARIANTS Ordered Chained CountExact IterationComplete
PROPERTY CallsReturn
