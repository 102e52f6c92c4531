SPECIFICATION Spec
CONSTANTS
  Queues = {q1, q2}
  T = {a, b}
  N = 2
  Dead = Dead
INVARIANT
  NoDestroyOfRawStorage
