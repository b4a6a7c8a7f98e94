CONSTANTS
  s1 = s1
  s2 = s2
  INFY = INFY
  BTC = BTC
  Sessions = {s1, s2}
  Symbols = {INFY, BTC}
  Quantities = {1, 2}
  Prices = {1, 2}
  Charges = {1}
  Balances = {6}
  AvgTicks = 100
  Lot = 1
  MaxOrders = 3
  MaxResets = 1
  Nobody = Nobody
SPECIFICATION Spec
INVARIANTS
  TypeOK
  OneTraderAtATime
  CashNonNegative
  EntryPriceMatchesQuantity
  CloseOnlyNeverOpens
  BooksMatchTrades
  DriftIsRounding
SYMMETRY SessionSymmetry
