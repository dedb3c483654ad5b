SPECIFICATION PoisonSpec
CONSTANTS
  r1 = r1
  t1 = t1
  t2 = t2
  Runs = {r1}
  Tasks = {t1, t2}
  Workers = {w1}
  Leases = {l1, l2}
  Tokens = {k1}
  Null = Null
  Input <- LongDelayInput
  LeaseDurations <- ShortLeases
  KindFilters <- AnyKind
  PruneFilters <- TerminalOnly
  MaxTime = 1
  MaxLag = 0
  DateLimit = 2
  IsoLimit = 2
  Reused = {}
  WithContext = {}
  MaxPending = 2
SYMMETRY Symmetric
CHECK_DEADLOCK FALSE
INVARIANT LeaseAgreement
