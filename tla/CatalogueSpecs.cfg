SPECIFICATION CatSpec
CONSTANTS
  Futures = {1, 2, 3}
  Options = {11, 12, 13}
  Expiry <- MCExpiry
  Venue <- MCVenue
  Under <- MCUnder
  FrontN = 1
  Ahead = 1
  LastMonth = 1
  MaxJobs = 3
PROPERTY OtherSpecsKept
CHECK_DEADLOCK FALSE
