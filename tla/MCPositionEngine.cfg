SPECIFICATION Spec
CONSTANTS
  a = a
  b = b
  Order <- MCOrder
  Prices = {1, 2}
  Snapshots <- MCSnapshots
  Flows <- MCFlows
  Configs <- MCConfigs
  MaxSteps = 3
  Null = Null
INVARIANTS
  CheckpointRestores
  CashReconciles
  RoundPnlIsCash
  LimitsHold
CHECK_DEADLOCK FALSE
