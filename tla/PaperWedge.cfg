SPECIFICATION Spec
CONSTANTS
  MaxRuns = 2
  MaxKills = 1
  MaxSpoiled = 0
INVARIANT CrashIsNoFailure
CHECK_DEADLOCK FALSE
