SPECIFICATION Spec
CONSTANTS
  w1 = w1
  w2 = w2
  p1 = p1
  sync = sync
  junk = junk
  NoType = NoType
  Types <- MCTypes
  Supported <- MCSupported
  Producers <- OneProducer
  DefaultBudget = 2
  Budgets = {1, 2}
  Workers <- OneWorker
  MaxJobs = 2
  MaxDeferrals = 1
  MaxCrashes = 1
INVARIANTS
  AttemptsExact
  RunningIsOwned
  IdleNotStacked
PROPERTIES
  OrphanBlocksIdle
  KeepsLedger
CHECK_DEADLOCK FALSE
