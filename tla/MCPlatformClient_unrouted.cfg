SPECIFICATION FairSpec
CONSTANTS
  c1 = c1
  c2 = c2
  Calls = {c1, c2}
  Background = {}
  Threshold = 2
  MaxAttempts = 2
  Permits = 2
  MaxEscapes = 0
PROPERTIES
  ReadyAgain
