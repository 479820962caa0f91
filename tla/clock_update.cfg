SPECIFICATION UpdateSpec
CONSTANTS
  t1 = t1
  t2 = t2
  t3 = t3
  k1 = k1
  k2 = k2
  k3 = k3
  k4 = k4
  v1 = v1
  v2 = v2
  None = None
  Threads = {t1, t2}
  Keys = {k1, k2, k3, k4}
  Values = {v1, v2}
  Length = 4
  Base <- MCBase
  Increment <- MCIncrement
  Capacity = 3
  OccupancyLimit = 2
  Workload <- Updater
  CounterMod = 8
  InitHitCount = 1
  MaxHitCount = 1
  MaxCountdown = 1
  StepSize = 4
  EffortCap = 30
  DecrPeriod = 5000
  HitDecrDeltaMin = 1
CHECK_DEADLOCK FALSE
INVARIANT UpdateSticks
