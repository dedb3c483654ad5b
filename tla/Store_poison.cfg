SPECIFICATION LiveSpec
CONSTANTS
  r1 = r1
  r2 = r2
  t1 = t1
  t2 = t2
  t3 = t3
  Runs = {r1}
  Tasks = {t1}
  Workers = {w1}
  Leases = {l1, l2, l3, l4}
  Tokens = {}
  Null = Null
  Input <- PatientInput
  LeaseDurations <- OneUnit
  KindFilters <- AnyKind
  PruneFilters <- TerminalOnly
  MaxTime = 20
  MaxLag = 0
  DateLimit = 9
  IsoLimit = 9
  HeartbeatHorizon = 0
CHECK_DEADLOCK FALSE
PROPERTIES
  LeaseEventuallyEnds
