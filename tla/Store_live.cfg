SPECIFICATION LiveSpec
CONSTANTS
  r1 = r1
  r2 = r2
  t1 = t1
  t2 = t2
  t3 = t3
  Runs = {r1}
  Tasks = {t1, t2}
  Workers = {w1}
  Leases = {l1, l2, l3}
  Tokens = {}
  Null = Null
  Input <- PairInput
  LeaseDurations <- OneUnit
  KindFilters <- AnyKind
  PruneFilters <- TerminalOnly
  MaxTime = 20
  MaxLag = 0
  DateLimit = 1000
  IsoLimit = 900
  HeartbeatHorizon = 2
CHECK_DEADLOCK FALSE
PROPERTIES
  LeaseEventuallyEnds
  RunnableEventuallyClaimed
