SPECIFICATION FairSpec
CONSTANTS
  c1 = c1
  c2 = c2
  c3 = c3
  Clients = {c1, c2, c3}
  Workers = {w1}
  Branch <- MCBranch
  Conduct <- MCConduct
  QueueSize = 1
  MaxFd = 2
  MaxRuns = 2
  Nobody = Nobody
INVARIANTS
  TypeOK
  OneHolder
  AnswerReachesItsClient
  FailureHasCause
  GoneIsQuiet
  DescriptorsBounded
  WholeUnlessSplit
  SignalIsFinal
PROPERTIES
  RequestAnswered
  SignalEndsRun
