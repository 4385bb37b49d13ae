SPECIFICATION ImportSpec
CONSTANTS
  BrokerOrders = {1, 2}
  OidOf <- MCOidOf
  LocalOrders = {}
  Unwatched = TRUE
  MaxImports = 3
PROPERTIES
  RowsKeepTheirOrder
CHECK_DEADLOCK FALSE
