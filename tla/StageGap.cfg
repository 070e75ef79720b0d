CONSTANTS
  p = p q = q a1 = a1 b1 = b1 b2 = b2 c1 = c1 c2 = c2
  Stages <- Stages3
  Path = {a1, b1, b2, c1, c2}
  Outputs <- Outputs3
  Requires <- Requires3
  Inputs <- Requires3
  ReplayNeeds = c1
  TipFirst = {1}
  Gates = {3}
  Fallible = {1, 2}
  None = None
  Runner = {p}
  Policies = {"skip", "force"}
  Overlap = FALSE StartAnywhere = FALSE
  MaxInvocations = 2 MaxCrashes = 1 MaxFailures = 1
SPECIFICATION Spec
INVARIANT NoGap
CHECK_DEADLOCK FALSE
