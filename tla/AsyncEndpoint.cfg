SPECIFICATION FairSpec
CONSTANTS
  Workers = {w1, w2}
  r1 = r1
  r2 = r2
  r3 = r3
  Requests = {r1, r2, r3}
  Awaits <- AwaitsSome
  QueueSize = 3
  FreshBool <- FreshSome
  NoRequest = NoRequest
INVARIANTS
  TypeOK
  OneDriver
  ResumeIsSound
  NoResumptionLost
PROPERTIES
  ImplementsSequential
  EveryRequestAnswered
