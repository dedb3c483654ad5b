SPECIFICATION MemorySpec
CONSTANTS
  r1 = r1
  t1 = t1
  t2 = t2
  Runs = {r1}
  Tasks = {t1, t2}
  Workers = {w1}
  Leases = {l1, l2}
  Tokens = {k1, k2}
  Null = Null
  Input <- TwoTaskInput
  LeaseDurations <- MomentLeases
  KindFilters <- AnyKind
  PruneFilters <- TerminalOnly
  MaxTime = 1
  MaxLag = 0
  DateLimit = 1000
  IsoLimit = 1000
  Reused = {t1}
  WithContext = {t1}
  MaxPending = 2
SYMMETRY Symmetric
CHECK_DEADLOCK FALSE
INVARIANTS
  TerminalRunIsIdle
  RunStatusSettles
  RecordedOutcomeIsTrue
PROPERTY ImplementsPlainOwnership
