SPECIFICATION Spec
CONSTANTS
  Symbols = {a, b}
  InitialEquity = 100
  MaxRiskStateRows = 2
  MaxPendingIntents = 2
  Bars <- FewBars
  Equities = {100, 80}
  Unit = 4
  MaxQuantity = 4
  EndTime = 3
  RiskEvery = 1
  RiskConfigs <- BookRisk
  Portfolios <- BookPortfolios
SYMMETRY Contracts
INVARIANTS
  TradesExplainBook
  PendingExitsAreLive
  PortfolioExitCoversBook
  HeldPositionsHaveMarks
  FailsOnlyOnInput
CHECK_DEADLOCK FALSE
