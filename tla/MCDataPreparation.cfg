SPECIFICATION FairSpec
CONSTANTS
  Jobs = {"long", "short"}
  Months <- TwoMonths
  Need <- OverlappingNeed
  GateOutcomes <- SoundOrSecondFails
  MaxFaults = 2
  None = None
INVARIANTS
  CatalogIsBacked
  SucceededJobIsReady
PROPERTIES
  SuccessIsKept
  JobsSettle
CHECK_DEADLOCK FALSE
