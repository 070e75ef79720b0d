CONSTANTS
  p = p q = q a1 = a1 b1 = b1 b2 = b2 c1 = c1 c2 = c2
  Stages <- Stages3
  Path = {a1, b1, b2, c1, c2}
  Outputs <- Outputs3
  Requires <- Requires3
  Inputs <- Requires3
  ReplayNeeds = c1
  TipFirst = {1}
  Gates = {3}
  Fallible = {1, 2}
  None = None
  Runner = {p}
  Policies = {"fail", "skip", "force", "read_only"}
  Overlap = FALSE StartAnywhere = FALSE
  MaxInvocations = 3 MaxCrashes = 2 MaxFailures = 1
SPECIFICATION Spec
INVARIANTS TypeOK Linear StagesInOrder Fresh OneAheadPerCrash
PROPERTIES OverwriteOnlyForced ReturnedIsLedgered
CHECK_DEADLOCK FALSE
