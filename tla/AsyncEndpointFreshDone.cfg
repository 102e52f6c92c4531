SPECIFICATION Spec
CONSTANTS
  Workers = {w1, w2}
  r1 = r1
  r2 = r2
  r3 = r3
  Requests = {r1, r2, r3}
  Awaits <- AwaitsAll
  QueueSize = 3
  FreshBool <- FreshAny
  NoRequest = NoRequest
INVARIANT
  ResponseIsFinal
