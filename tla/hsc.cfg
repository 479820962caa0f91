SPECIFICATION FairHistorySpec
CONSTANTS
  c1 = c1
  v1 = v1
  v2 = v2
  Decayer = Decayer
  Compactor = Compactor
  None = None
  Threads = {c1, Decayer, Compactor}
  Handles <- MCHandles
  Workloads <- OneClient
  ListNum = 2
  MaxNodes = 4
  MaxLevel = 0
  MaxKey = 3
  VersionMod = 1
  MaxHitCount = 2
  InitHitCount = 2
  BucketNum = 1
  Capicity = 1
  LowCapacity = 1
  Delta = 1
  ColdLimit = 1
CHECK_DEADLOCK FALSE
INVARIANTS CacheTypeOK MemoryCovers SwapComplete
PROPERTIES StopJoins ClientsReturn
