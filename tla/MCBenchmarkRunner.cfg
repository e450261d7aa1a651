SPECIFICATION Spec
CONSTANTS
  btc = btc
  eth = eth
  Names <- MCNames
  Rosters <- MCRosters
  HourLen = 2
  DayLen = 4
  CoreDays = 2
  TailLen = 3
  FlushDays = 1
  StaleAfter = 2
  CooldownLen = 4
  MinScores = 1
  DropLimit = 2
  Tilts <- MCTilts
  Usual <- MCUsual
  MaxOdd = 2
  MaxCrashes = 1
  None = None
INVARIANTS
  RestartsLeaveNoTrace
  FillsAreAudited
  TailClosesWhatTrades
PROPERTIES
  ExitsPersist
CHECK_DEADLOCK FALSE
