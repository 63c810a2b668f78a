SPECIFICATION Spec
CONSTANTS
  w1 = w1
  w2 = w2
  i1 = i1
  i2 = i2
  i3 = i3
  None = None
  Counter = Counter
  Workers = {w1, w2}
  Requesters = {w1, w2}
  Sweepers = {w1, w2}
  Reconcilers = {w1, w2}
  Inv = {i1, i2, i3}
  Keys = {}
  Quota = 1
  MaxTries = 2
  Limit = 2
  SlowOperations = FALSE
  SilentDeletes = FALSE
  MaxFaults = 0
  MaxTouches = 0
SYMMETRY SymWorkersInv
INVARIANTS
  QuotaNeverExceeded
CHECK_DEADLOCK FALSE
