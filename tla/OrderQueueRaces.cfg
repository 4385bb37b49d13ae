SPECIFICATION Spec
CONSTANTS
  o1 = o1
  o2 = o2
  o3 = o3
  w1 = w1
  w2 = w2
  c1 = c1
  s1 = s1
  Orders <- LocalAndManual
  Legacy = {}
  Manual <- ManualOnly
  Cancellers = {c1}
  Workers = {w1, w2}
  Syncers = {s1}
  MaxStarts = 2
SYMMETRY WorkerSymmetry
VIEW WithoutTheRecord
INVARIANTS
  NoneStranded
  ProcessedOnce
PROPERTIES
  CancelledStaysIdle
  RestartFlagsLost
CHECK_DEADLOCK FALSE
