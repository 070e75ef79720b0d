SPECIFICATION Spec
CONSTANTS
  TailReserve = 3
  MaxPlans = 1
  MaxFailures = 0
  Grants <- ThriceGrants
  MaxKills = 1
INVARIANT PaperRestsOnAccepted
CHECK_DEADLOCK FALSE
