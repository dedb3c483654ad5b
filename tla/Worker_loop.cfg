SPECIFICATION WorkerSpec
CONSTANTS
  r1 = r1
  t1 = t1
  Runs = {r1}
  Tasks = {t1}
  Workers = {w1, w2}
  Leases = {l1, l2}
  Tokens = {}
  Null = Null
  Input <- OneTaskInput
  LeaseDurations <- AskedLeases
  KindFilters <- AnyKind
  PruneFilters <- TerminalOnly
  MaxTime = 5
  MaxLag = 0
  DateLimit = 1000
  IsoLimit = 900
  LeaseMs = 2
  DefaultLeaseMs = 2
  MinHeartbeatMs = 1
  TimeoutMs = 4
  DrainMs = 1
  HandlerBeats <- JustLease
  BusyErrors = FALSE
  PromptTimers = TRUE
  SignalAborted = FALSE
  Horizon = 2
SYMMETRY Symmetric
CHECK_DEADLOCK FALSE
INVARIANTS
  HandlerOwnsTask
  VerdictIsRecorded
  StoppedLeavesNoLease
  AbandonedIsPowerless
