CONSTANTS
  p1 = p1 p2 = p2 p3 = p3 r1 = r1 r2 = r2 r3 = r3 a = a b = b c = c d = d
  Proc = {p1, p2, p3}
  Request = {r1, r3}
  Path = {a, b, c, d}
  Root = Root None = None Foreign = Foreign Orphan = Orphan
  ExpectedTip <- TipsChain
  Outputs <- PlansChain
  Overlap = TRUE
  MaxCrashes = 0 MaxFaults = 0 MaxForeign = 0
SPECIFICATION OneShotSpec
INVARIANTS LedgerLinear
PROPERTIES OneWinner
CHECK_DEADLOCK FALSE
