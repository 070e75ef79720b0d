SPECIFICATION Spec
CONSTANTS
  MaxRuns = 4
  MaxKills = 2
  MaxSpoiled = 1
INVARIANTS
  TypeOK
  IndexSound
  StagesOnce
  ReadyRests
PROPERTY HistoryKept
CHECK_DEADLOCK FALSE
