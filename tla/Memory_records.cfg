SPECIFICATION MemorySpec
CONSTANTS
  r1 = r1
  t1 = t1
  t2 = t2
  Runs = {r1}
  Tasks = {t1, t2}
  Workers = {w1}
  Leases = {l1, l2}
  Tokens = {k1}
  Null = Null
  Input <- TwoTaskInput
  LeaseDurations <- ShortLeases
  KindFilters <- AnyKind
  PruneFilters <- TerminalOnly
  MaxTime = 1
  MaxLag = 0
  DateLimit = 1000
  IsoLimit = 1000
  Reused = {}
  WithContext = {}
  MaxPending = 2
SYMMETRY Symmetric
CHECK_DEADLOCK FALSE
\* Neither holds; check one at a time:
PROPERTY RecordsAreKept
\* INVARIANT NoDanglingRows
\* Nor do these when enqueueTask is given the id of t1 twice, Reused = {t1}:
\* INVARIANT LeaseAgreement
\* PROPERTY OutcomeIsFinal
\* PROPERTY ImplementsOwnership
\* Nor does this when createRun is given the id of r1 twice, Reused = {r1}:
\* INVARIANT EveryStatusSettles
