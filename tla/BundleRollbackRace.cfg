CONSTANTS
  p1 = p1 p2 = p2 p3 = p3 r1 = r1 r2 = r2 r3 = r3 a = a b = b c = c d = d
  Proc = {p1, p2}
  Request = {r1}
  Path = {a, b}
  Root = Root None = None Foreign = Foreign Orphan = Orphan
  ExpectedTip <- Tips1
  Outputs <- Plans1
  Overlap = TRUE
  MaxCrashes = 0 MaxFaults = 1 MaxForeign = 0
SPECIFICATION Spec
INVARIANTS CommittedIsComplete
CHECK_DEADLOCK FALSE
