CONSTANTS
  user = user
  robot = robot
  client = client
  INFY = INFY
  Sessions = {user, robot}
  Robot = robot
  Clients = {client}
  Symbols = {INFY}
  Quantities = {1, 2}
  Prices = {1}
  Charges = {0}
  Balances = {4}
  MarketPrices = {1, 2}
  TriggerPrices = {1}
  TriggerSides = {"BUY"}
  AvgTicks = 2
  Lot = 1
  MaxOrders = 3
  MaxResets = 0
  MaxAutos = 1
  Crashes = TRUE
  Nobody = Nobody
SPECIFICATION AutoSpec
INVARIANTS
  RecordedOutcomeIsTrue
  StopFitsUnlessRaced
  StopRefusedOnlyIfOutrun
PROPERTIES
  OutlivesFills
  FatesAreFinal
  EngineSpec
