SPECIFICATION FairSpec
CONSTANTS
  g1 = g1
  g2 = g2
  none = none
  Groups = {g1, g2}
  NoGroup = none
  Rows <- AllRows
  LiveFills <- AllFills
  LastDay = 3
  MaxReports = 2
  Lookback = 1
  MaxActs = 2
INVARIANTS
  PageIsRight
  LatestRevisionCounts
  AggregatesCurrent
  MatchesAreHome
  CashConserved
PROPERTIES
  HandoffKeepsGroup
  NoStrayTag
  SettledLeaves
CHECK_DEADLOCK FALSE
