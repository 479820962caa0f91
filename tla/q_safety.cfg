SPECIFICATION Spec
CONSTANTS
  t1 = t1
  t2 = t2
  t3 = t3
  v1 = v1
  v2 = v2
  Threads = {t1, t2, t3}
  Values = {v1, v2}
  Capicity = 2
  Nil = Nil
  MaxPush = 4
  Stalled = {}
SYMMETRY Symmetry
INVARIANTS TypeOK NoDataRace SizeBounds
PROPERTIES ImplementsFifo FalseIsCurrent
