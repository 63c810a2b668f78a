SPECIFICATION FairSpec
CONSTANTS
  c1 = c1
  c2 = c2
  c3 = c3
  Calls = {c1, c2, c3}
  Background = {c3}
  Threshold = 2
  MaxAttempts = 2
  Permits = 2
  MaxEscapes = 1
INVARIANTS
  TypeOK
  PermitsKept
  OneProbe
  ClientInv
PROPERTIES
  CallEnds
  ReadyUnlessProbeLost
