SPECIFICATION FairSpec
VIEW WithoutHistory
CONSTANTS
  o1 = o1
  o2 = o2
  o3 = o3
  w1 = w1
  w2 = w2
  c1 = c1
  s1 = s1
  Orders <- LocalAndLegacy
  Legacy <- LegacyOnly
  Manual = {}
  Cancellers = {c1}
  Workers = {w1}
  Syncers = {s1}
  MaxStarts = 2
PROPERTIES
  QueuedEnds
CHECK_DEADLOCK FALSE
