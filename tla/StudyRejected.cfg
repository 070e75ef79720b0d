SPECIFICATION Spec
CONSTANTS
  TailReserve = 3
  MaxPlans = 1
  MaxFailures = 0
  Grants <- OnceGrants
  MaxKills = 0
INVARIANT CriticsReadAccepted
CHECK_DEADLOCK FALSE
