SPECIFICATION Spec
CONSTANTS
  Workers = {w1, w2}
  Pushers = {p1, p2}
  j1 = j1
  j2 = j2
  j3 = j3
  j4 = j4
  Jobs = {j1, j2, j3, j4}
  Priority <- MCPriority
  QueueSize = 2
  MaxLifetimes = 2
  Free = Free
  NoJob = NoJob
INVARIANT
  CreatedThreadsWork
