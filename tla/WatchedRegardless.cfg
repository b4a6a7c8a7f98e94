CONSTANTS
  tab = tab
  create = create
  INFY = INFY
  TCS = TCS
  Sockets = {tab}
  Symbols = {INFY, TCS}
  Default = INFY
  Watchable = {INFY}
  MaxConnections = 1
  Revalidate = 2
  Requests = {create}
  MaxOrders = 1
  Outstanding = {}
  Outages = FALSE
SPECIFICATION FairStreamSpec
PROPERTIES
  WatchedRegardless
