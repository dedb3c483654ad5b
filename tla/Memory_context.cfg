SPECIFICATION MemorySpec
CONSTANTS
  r1 = r1
  t1 = t1
  t2 = t2
  Runs = {r1}
  Tasks = {t1, t2}
  Workers = {w1}
  Leases = {l1, l2}
  Tokens = {}
  Null = Null
  Input <- TwoTaskInput
  LeaseDurations <- ShortLeases
  KindFilters <- AnyKind
  PruneFilters <- TerminalOnly
  MaxTime = 1
  MaxLag = 0
  DateLimit = 1000
  IsoLimit = 1000
  Reused = {}
  WithContext = {t1, t2}
  MaxPending = 2
SYMMETRY Symmetric
CHECK_DEADLOCK FALSE
PROPERTY OutcomeIsFinal
