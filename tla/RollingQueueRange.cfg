SPECIFICATION Spec
CONSTANTS
  Queues = {q1}
  T = {a, b}
  N = 2
  Dead = Dead
INVARIANT
  RangeReadsLiveElements
