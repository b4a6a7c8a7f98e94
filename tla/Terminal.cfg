CONSTANTS
  first = first
  second = second
  INFY = INFY
  BTC = BTC
  null = null
  Sockets = {first, second}
  Symbols = {INFY, BTC}
  Default = INFY
  Provisional = INFY
  Nothing = null
  Continuous = {BTC}
  DayLength = 3
  Offset = 1
  PreOpen = 0
  Open = 1
  Close = 2
  Holidays = {1}
  Horizon = 3
  Last = 8
  MaxSent = 2
  MaxFrames = 1
SPECIFICATION Spec
INVARIANTS
  OneLink
  ServerFollowsSelection
  PriceIsOfSelection
  PanelsFollowSelection
  BadgeHoldsUntilItsBoundary
SYMMETRY SocketSymmetry
