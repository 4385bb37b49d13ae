SPECIFICATION FairSpec
CONSTANTS
  w1 = w1
  w2 = w2
  p1 = p1
  sync = sync
  junk = junk
  NoType = NoType
  Types <- MCSupported
  Supported <- MCSupported
  Producers = {}
  DefaultBudget = 2
  Budgets = {2}
  Workers <- TwoWorkers
  MaxJobs = 2
  MaxDeferrals = 1
  MaxCrashes = 0
INVARIANTS
  FailedSpentBudget
PROPERTIES
  EveryJobEnds
CHECK_DEADLOCK FALSE
