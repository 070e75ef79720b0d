CONSTANTS
  p1 = p1 p2 = p2 p3 = p3 r1 = r1 r2 = r2 r3 = r3 a = a b = b c = c d = d
  Proc = {p1, p2}
  Request = {r1, r2, r3}
  Path = {a, b, c, d}
  Root = Root None = None Foreign = Foreign Orphan = Orphan
  ExpectedTip <- Tips3
  Outputs <- Plans3
  Overlap = FALSE
  MaxCrashes = 1 MaxFaults = 2 MaxForeign = 1
SPECIFICATION Spec
INVARIANTS TypeOK LedgerLinear CommittedIsComplete PartialIsDetectable
PROPERTIES NoClobber ImplementsAtomicLog FalseMutationRestores
