SPECIFICATION Spec
CONSTANTS
  a = a
  b = b
  Symbols = {a, b}
  Bars = 4
  Rows <- MCRows
  Configs <- MCConfigs
  Capital = 64
  Gaps = FALSE
  Null = Null
INVARIANTS
  ChunksAreOnePass
  EquityReconciles
  ExclusionIsComplete
CHECK_DEADLOCK FALSE
