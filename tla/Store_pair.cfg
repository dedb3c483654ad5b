SPECIFICATION Spec
CONSTANTS
  r1 = r1
  r2 = r2
  t1 = t1
  t2 = t2
  t3 = t3
  Runs = {r1}
  Tasks = {t1, t2}
  Workers = {w1, w2}
  Leases = {l1, l2, l3}
  Tokens = {}
  Null = Null
  Input <- PairInput
  LeaseDurations <- OneUnit
  KindFilters <- AnyKind
  PruneFilters <- TerminalOnly
  MaxTime = 4
  MaxLag = 1
  DateLimit = 1000
  IsoLimit = 900
  HeartbeatHorizon = 0
SYMMETRY LeaseSymmetry
CHECK_DEADLOCK FALSE
INVARIANTS
  TypeOK
  LeaseAgreement
  OneWinningAttempt
  AttemptBudget
  DeadMeansExhausted
  RunStatusIsDerived
  TerminalRunIsIdle
  DependenciesDone
PROPERTIES
  LeaseEndsOnce
  NoPrematureLoss
  RetryDelayServed
  OutcomeIsFinal
  ImplementsOwnership
