SPECIFICATION RecordsSpec
CONSTANTS
  Accounts = {a}
  Contracts = {c, d}
  Connected = {a}
  LastSlot = 4
  MaxMoves = 2
  Fills = {1, 2, 3}
  Orders = {"o", "p"}
  OrderOf <- MCOrderOf
  PermId <- MCPermId
  OrderId <- MCOrderId
  Renamed = {2}
  Tags = {"s", "t"}
  Tasks = {"k"}
  Groups = {"g"}
  MaxAsks = 2
  DueTypes = {"contracts.sync", "contracts.chain_sync", "intraday.sync.tws", "market_data.snapshot"}
  Payloads = {{}, {"con_ids no list", "spec without exchange"}, {"client_id"}}
  IdleLimit = 2
  MaxClock = 4
  Futures = {1, 2, 3}
  Options = {11, 12, 13}
  Expiry <- MCExpiry
  Venue <- MCVenue
  Under <- MCUnder
  FrontN = 1
  Ahead = 1
  LastMonth = 1
  MaxJobs = 2
  BrokerOrders = {1, 2, 3}
  OidOf <- MCOidOf
  LocalOrders = {1}
  Unwatched = FALSE
  MaxImports = 4
  GroupFills = {1, 2}
  GroupIds = {"g", "h"}
  NoId = "none"
  Owner <- MCOwner
  Callers = {1, 2}
  MaxGroupAsks = 3
INVARIANTS
  BookIsHeld
  LinksExact
  NoSessionLeaks
  CatalogueSound
  HistoryTellsGroup
PROPERTIES
  TagEndsOnOwnSnapshot
  LinkLands
  MatchingIsIdempotent
CHECK_DEADLOCK FALSE
