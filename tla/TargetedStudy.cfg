SPECIFICATION FairSpec
CONSTANTS
  TailReserve = 3
  MaxPlans = 2
  MaxFailures = 1
  Grants <- StudyGrants
  MaxKills = 1
INVARIANTS
  TypeOK
  CallsWithinGrant
  TailReserveKept
  RepairsWithinGrant
  CompletedIsCurrent
  PaperRestsOnAdjudicated
  CompletedPlansKept
PROPERTY InvocationEnds
CHECK_DEADLOCK FALSE
