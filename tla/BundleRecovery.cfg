CONSTANTS
  p1 = p1 p2 = p2 p3 = p3 r1 = r1 r2 = r2 r3 = r3 a = a b = b c = c d = d
  Proc = {p1}
  Request = {r1, r2}
  Path = {a, b, c}
  Root = Root None = None Foreign = Foreign Orphan = Orphan
  ExpectedTip <- Tips2
  Outputs <- Plans2
  Overlap = FALSE
  MaxCrashes = 2 MaxFaults = 1 MaxForeign = 0
SPECIFICATION FairSpec
PROPERTIES CleanIntentResolves
