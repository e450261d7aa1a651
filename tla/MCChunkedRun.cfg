SPECIFICATION Spec
CONSTANTS
  Runs = {r1, r2}
  Length = 4
  Rebalance = 1
  Overlap = 3
  Intervals = {2, 3, 4}
  Selections <- MCSelections
  Modes = {"off", "read_write", "refresh"}
  MaxFaults = 1
  NoBar = NoBar
  Histories <- MCHistories
  Filters <- MCFilters
SYMMETRY Alike
INVARIANTS
  CacheKeepsResults
  UniverseIsPointInTime
CHECK_DEADLOCK FALSE
