CONSTANTS
  AvgTicks = 100
  Lot = 2
  Unit = 100
  NoCap = NoCap
  TwoPrices = {200, 503}
  Series <- MCSeries
  Configs <- MCConfigs
  Capital = 20000
  Fast = 2
  Slow = 3
SPECIFICATION Spec
INVARIANTS
  BacktestTypeOK
  TradesFollowCrosses
  EquityIsMarketLessCosts
  SizedToBudget
  ReportMatchesRun
PROPERTY FillsAsLive
CHECK_DEADLOCK FALSE
