SPECIFICATION ServerSpec
CONSTANTS
  r1 = r1
  t1 = t1
  Runs = {r1}
  Tasks = {t1}
  Workers = {w1, w2}
  Leases = {l1, l2}
  Tokens = {k1, k2}
  Servers = {s1, s2}
  Versions = {1, 2, 3, 4}
  OneServerPerCall = TRUE
  Null = Null
  Input <- OneTaskInput
  LeaseDurations <- OneUnit
  KindFilters <- AnyKind
  PruneFilters = {}
  MaxTime = 2
  MaxLag = 1
  DateLimit = 1000
  IsoLimit = 900
SYMMETRY Symmetric
CHECK_DEADLOCK FALSE
INVARIANT ServesCurrentSchema
PROPERTY ImplementsOnce
