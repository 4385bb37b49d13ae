SPECIFICATION PagesSpec
CONSTANTS
  JobRows = {"j"}
  OrderRows = {"o"}
  Beats = {"w"}
  Browsers = {1}
  QueueSize = 1
  MaxChanges = 3
  MaxFaults = 2
  Books = {"a"}
  Items = {"c", "d"}
  Campaigns = {g, h}
  Sizes <- MCSizes
  MaxFills = 4
  Years = {2024, 2025, 2028, 2029, 2030, 2031}
  Drift = 10
  TableRows <- MCTableRows
  MonthsAsked = {4, 5}
  MinDays = {0, 2}
  ChainLists <- MCChainLists
  Strikes = {10, 12}
  Workers = {v, w}
  Futures = {cl}
  Options = {opt}
  Fields = {iv, delta}
  Lists = {mine}
  MaxClock = 4
INVARIANTS
  ListIsCurrent
  SharesWithinBook
  FiguresAgree
  PicksRight
  BoardsRight
PROPERTY
  GreeksKept
SYMMETRY PageSymmetry
CHECK_DEADLOCK FALSE
