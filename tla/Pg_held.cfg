SPECIFICATION PgSpec
CONSTANTS
  r1 = r1
  t1 = t1
  t2 = t2
  Runs = {r1}
  Tasks = {t1}
  Workers = {w1}
  Leases = {l1, l2}
  Tokens = {}
  Sessions = {s1, s2}
  Null = Null
  Input <- OneTaskInput
  LeaseDurations = {}
  KindFilters = {}
  PruneFilters <- TerminalOnly
  MaxTime = 2
  MaxLag = 0
  DateLimit = 1000
  IsoLimit = 1000
  LeaseMs = 0
  SerialCalls = TRUE
SYMMETRY Symmetric
CHECK_DEADLOCK FALSE
INVARIANT HeldTaskHasLease
