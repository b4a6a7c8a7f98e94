CONSTANTS
  tab = tab
  phone = phone
  third = third
  INFY = INFY
  TCS = TCS
  Sockets = {tab, phone}
  Symbols = {INFY, TCS}
  Default = INFY
  Watchable = {INFY, TCS}
  MaxConnections = 1
SPECIFICATION PoolSpec
INVARIANTS
  OnlyTheGoneAreDropped
