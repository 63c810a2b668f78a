SPECIFICATION Spec
CONSTANTS
  w1 = w1
  i1 = i1
  i2 = i2
  i3 = i3
  k1 = k1
  None = None
  Counter = Counter
  Workers = {w1}
  Requesters = {w1}
  Sweepers = {w1}
  Reconcilers = {w1}
  Inv = {i1, i2, i3}
  Keys = {k1}
  Quota = 2
  MaxTries = 2
  Limit = 2
  SlowOperations = FALSE
  SilentDeletes = FALSE
  MaxFaults = 0
  MaxTouches = 0
SYMMETRY SymInv
PROPERTIES
  DeniedOnlyWhenFull
CHECK_DEADLOCK FALSE
