SPECIFICATION FairSpec
CONSTANTS
  t1 = t1
  t2 = t2
  a1 = a1
  a2 = a2
  Tokens = {t1}
  Accounts = {a1}
  Second = 2
  Pause = 3
  FirstCheck = 2
  Recheck = 1
  Retry = 1
  OperatorPause = 2
  MaxChecks = 2
  MaxAttempts = 2
  Prompt = TRUE
  MaxSyncs = 2
  MaxLimits = 1
  MaxEdits = 1
  MaxCrashes = 0
INVARIANTS
  CooldownRespected
PROPERTIES
  FetchEnds
CHECK_DEADLOCK FALSE
