SPECIFICATION Spec
CONSTANTS
  t1 = t1
  t2 = t2
  a1 = a1
  a2 = a2
  Tokens = {t1, t2}
  Accounts = {a1, a2}
  Second = 1
  Pause = 2
  FirstCheck = 1
  Recheck = 1
  Retry = 1
  OperatorPause = 2
  MaxChecks = 2
  MaxAttempts = 2
  Prompt = FALSE
  MaxSyncs = 1
  MaxLimits = 1
  MaxEdits = 0
  MaxCrashes = 1
INVARIANTS
  ChecksBounded
  CompletedCoversReport
  NoDuplicateChildren
PROPERTIES
  KeepsLedger
CHECK_DEADLOCK FALSE
