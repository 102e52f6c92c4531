SPECIFICATION FairSpec
CONSTANTS
  Workers = {w1, w2}
  Pushers = {p1, p2}
  j1 = j1
  j2 = j2
  j3 = j3
  j4 = j4
  Jobs = {j1, j2, j3, j4}
  Priority <- MCPriority
  QueueSize = 2
  MaxLifetimes = 1
  Free = Free
  NoJob = NoJob
INVARIANTS
  TypeOK
  CountMatchesQueues
  PopFindsJob
  NoLostWakeup
PROPERTIES
  ImplementsJobPool
  QueuedJobRuns
  DestructorReturns
