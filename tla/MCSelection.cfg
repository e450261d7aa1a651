SPECIFICATION Spec
CONSTANTS
  Symbols = {1, 2, 3}
  Scores = {1, 2}
  Ticks = 3
  Configs <- MCConfigs
  None = None
INVARIANTS
  
  DecisionsAreExplained
CHECK_DEADLOCK FALSE
