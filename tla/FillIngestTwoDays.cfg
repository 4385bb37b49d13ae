SPECIFICATION IngestSpec
CONSTANTS
  Rows <- TwoLots
  LastDay = 3
  MaxReports = 1
INVARIANTS
  OneSummaryPerCombo
CHECK_DEADLOCK FALSE
