SPECIFICATION HistorySpec
CONSTANTS
  v1 = v1
  v2 = v2
  Keys = {0, 1, 2, 3, 4, 6}
  Handles <- FixedHandles
  ShardNum = 2
  Capacity = 4
  EntryNum = 2
  ValueSize = 0
  DelCb = FALSE
  SizeMod = 64
  None = None
CHECK_DEADLOCK FALSE
INVARIANTS TypeOK OnlyPoppedRead UsageExact ShardBounded LeastRecentlyUsed
