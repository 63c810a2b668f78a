SPECIFICATION FairSpec
CONSTANTS
  w1 = w1
  w2 = w2
  i1 = i1
  i2 = i2
  None = None
  Counter = Counter
  Workers = {w1, w2}
  Requesters = {w1}
  Sweepers = {w2}
  Reconcilers = {w2}
  Inv = {i1, i2}
  Keys = {}
  Quota = 1
  MaxTries = 1
  Limit = 2
  SlowOperations = FALSE
  SilentDeletes = FALSE
  MaxFaults = 1
  MaxTouches = 1
INVARIANTS
  NothingSlips
PROPERTIES
  ReservationSettled
  SlotFreed
CHECK_DEADLOCK FALSE
