SPECIFICATION StalledSpec
CONSTANTS
  t1 = t1
  t2 = t2
  t3 = t3
  a1 = a1
  a2 = a2
  a3 = a3
  a4 = a4
  v1 = v1
  Threads = {t1, t2, t3}
  Addrs = {a1, a2, a3, a4}
  Values = {v1}
  VersionMod = 4
  Null = Null
  Stalled = {t1}
INVARIANTS TypeOK NoUseAfterFree VersionCountsReaders NoLeak
PROPERTIES ImplementsCell OnlyWindowsBlock
