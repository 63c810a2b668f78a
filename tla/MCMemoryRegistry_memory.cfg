SPECIFICATION MCSpec
CONSTANTS
  t1 = t1
  t2 = t2
  t3 = t3
  i1 = i1
  i2 = i2
  i3 = i3
  k1 = k1
  None = None
  Threads = {t1, t2, t3}
  Sweeper = t3
  Inv = {i1, i2, i3}
  Keys = {k1}
  Quota = 2
  Limit = 1
INVARIANTS
  TypeOK
  QuotaHonoured
  OneLivePerKey
PROPERTIES
  OpenIsKept
  NothingStuck
CHECK_DEADLOCK FALSE
