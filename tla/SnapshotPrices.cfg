CONSTANTS
  trader = trader
  INFY = INFY
  BTC = BTC
  job = job
  client = client
  Sessions = {trader}
  Symbols = {INFY, BTC}
  Quantities = {1, 2}
  Prices = {2}
  Charges = {1}
  Balances = {6}
  AvgTicks = 100
  Lot = 1
  MaxOrders = 2
  MaxResets = 1
  Nobody = Nobody
  Job = job
  Requests = {client}
  Marks = {2, 3}
  MaxStamps = 1
SPECIFICATION SnapSpec
INVARIANTS
  TradeRowsAreRealStates
