SPECIFICATION FairSpec
CONSTANTS
  t1 = t1
  t2 = t2
  None = None
  Threads = {t1, t2}
  MaxVersions = 1
  Refresh = 2
  Stale = 3
  MaxDelay = 1
INVARIANTS
  TypeOK
  PolicyInv
PROPERTIES
  BoundedStaleness
  PromptPropagation
  NeverBackwards
  AccessRestored
