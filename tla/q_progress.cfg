SPECIFICATION StalledSpec
CONSTANTS
  t1 = t1
  t2 = t2
  t3 = t3
  v1 = v1
  Threads = {t1, t2, t3}
  Values = {v1}
  Capicity = 2
  Nil = Nil
  MaxPush = 3
  Stalled = {t1}
PROPERTY LockFree
