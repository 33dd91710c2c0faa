CONSTANTS
  Dirs = {d1, d2}
  Tasks = {t1, t2, t3}
  Dir <- TwoDirs
  d1 = d1
  d2 = d2
  t3 = t3
  Unseen = {t2}
  Providers = {p1, p2}
  MaxTime = 2
SPECIFICATION HermesSpec
SYMMETRY Symmetry
CHECK_DEADLOCK FALSE
INVARIANTS
  TokensAreLive
  LiveTokenIsFound
