SPECIFICATION Spec
CONSTANTS
  Workers = {w1, w2}
  r1 = r1
  r2 = r2
  r3 = r3
  Requests = {r1, r2, r3}
  Awaits <- AwaitsAll
  QueueSize = 1
  FreshBool <- FreshFalse
  NoRequest = NoRequest
INVARIANT
  NoResumptionLost
