CONSTANTS
  trader = trader
  INFY = INFY
  BTC = BTC
  job = job
  client = client
  Sessions = {trader}
  Symbols = {INFY}
  Quantities = {1}
  Prices = {3}
  Charges = {1}
  Balances = {6}
  AvgTicks = 100
  Lot = 2
  MaxOrders = 2
  MaxResets = 1
  Nobody = Nobody
  Job = job
  Requests = {client}
  Marks = {5}
  MaxStamps = 3
SPECIFICATION SnapSpec
CONSTRAINT SmallIfReset
INVARIANTS
  SnapTypeOK
  TradeRowsFollowFills
  EquityIsExplained
  IdleCurveDoesNotGrow
