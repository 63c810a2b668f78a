SPECIFICATION Spec
CONSTANTS
  w1 = w1
  i1 = i1
  i2 = i2
  i3 = i3
  k1 = k1
  None = None
  Counter = Counter
  Workers = {w1}
  Requesters = {w1}
  Sweepers = {w1}
  Reconcilers = {w1}
  Inv = {i1, i2, i3}
  Keys = {k1}
  Quota = 1
  MaxTries = 2
  Limit = 1
  SlowOperations = FALSE
  SilentDeletes = FALSE
  MaxFaults = 1
  MaxTouches = 1
SYMMETRY SymInv
PROPERTIES
  RepeatIsReplay
CHECK_DEADLOCK FALSE
