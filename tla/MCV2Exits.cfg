SPECIFICATION Spec
CONSTANTS
  Symbols = {a}
  InitialEquity = 100
  MaxRiskStateRows = 1
  MaxPendingIntents = 1
  Bars <- ManyBars
  Equities = {100}
  Unit = 4
  MaxQuantity = 8
  EndTime = 8
  RiskEvery = 2
  RiskConfigs <- ExitRisk
  Portfolios <- ExitPortfolios
PROPERTIES
  ReentryRespectsCooldown
  ExitsOnlyShrink
  TrailingNeverRetreats
CHECK_DEADLOCK FALSE
