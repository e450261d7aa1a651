SPECIFICATION Spec
CONSTANTS
  a = a
  b = b
  x = x
  y = y
  Symbols = {a, b}
  Candidates = {x, y}
  Bars = 4
  Rows <- MCRows
  Configs <- MCConfigs
  Capital = 64
  Irregular = FALSE
  Null = Null
INVARIANTS
  ChunksAreWhole
  BatchIsStandalone
CHECK_DEADLOCK FALSE
