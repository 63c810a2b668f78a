SPECIFICATION MCSpec
CONSTANTS
  q1 = q1
  q2 = q2
  r1 = r1
  r2 = r2
  None = None
  Counter = Counter
  Readers = {q1, q2}
  Replicas = {r1, r2}
  Inv = {1, 2}
  MaxPolls = 2
  MaxTries = 2
  Limit = 1
  MaxMessages = 3
  Threads <- MCThreads
  Reports <- MCReports
  Ageing = {1}
  MaxFaults = 1
  RequireToken = TRUE
INVARIANTS
  TypeOK
  EveryPollCounts
  AnswersAreRecorded
  OutcomeHasCause
  ReportIsFound
PROPERTIES
  PollsAreSpaced
  LeaseIsExclusive
  FirstOutcomeStands
  RetentionIsSetOnce
  EndedIsReconciled
  RequestEnds
CHECK_DEADLOCK FALSE
