SPECIFICATION LoggedSpec
CONSTANTS
  r1 = r1
  r2 = r2
  t1 = t1
  t2 = t2
  t3 = t3
  Runs = {r1, r2}
  Tasks = {t1, t2, t3}
  Workers = {w1}
  Leases = {l1, l2}
  Tokens = {k1, k2}
  Null = Null
  Input <- TwoRunInput
  LeaseDurations <- OneUnit
  KindFilters <- BuildOrAny
  PruneFilters <- TerminalOnly
  MaxTime = 2
  MaxLag = 0
  DateLimit = 1000
  IsoLimit = 900
  HeartbeatHorizon = 0
SYMMETRY TokenSymmetry
CHECK_DEADLOCK FALSE
INVARIANTS
  KeysUnique
  CompletionRecordIsTrue
  NoDanglingRows
  LogRebuildsTables
