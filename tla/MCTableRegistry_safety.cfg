SPECIFICATION Spec
CONSTANTS
  w1 = w1
  w2 = w2
  i1 = i1
  i2 = i2
  k1 = k1
  None = None
  Counter = Counter
  Workers = {w1, w2}
  Requesters = {w1, w2}
  Sweepers = {w1, w2}
  Reconcilers = {w1, w2}
  Inv = {i1, i2}
  Keys = {k1}
  Quota = 1
  MaxTries = 2
  Limit = 2
  SlowOperations = FALSE
  SilentDeletes = TRUE
  MaxFaults = 1
  MaxTouches = 0
SYMMETRY SymWorkersInv
INVARIANTS
  TypeOK
  CounterCovers
  QuotaHonoured
  KeyKeepsItsRecord
  IndInv
PROPERTIES
  DeletedOnlyWhenDone
  ReopenedOnlyInDoubt
  ImplementsLifecycle
CHECK_DEADLOCK FALSE
