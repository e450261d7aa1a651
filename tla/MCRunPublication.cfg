SPECIFICATION Spec
CONSTANTS
  Processes = {p1, p2}
  Configs = {c}
  Errors = {"engine"}
  Stamps <- MCStamps
  MaxFaults = 3
  None = None
INVARIANTS
  CatalogBacked
PROPERTIES
  ImplementsRegistry
  RunsSettle
CHECK_DEADLOCK FALSE
