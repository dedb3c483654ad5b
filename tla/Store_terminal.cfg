SPECIFICATION Spec
CONSTANTS
  r1 = r1
  r2 = r2
  t1 = t1
  t2 = t2
  t3 = t3
  Runs = {r1}
  Tasks = {t1}
  Workers = {w1}
  Leases = {l1, l2}
  Tokens = {}
  Null = Null
  Input <- OneShotInput
  LeaseDurations <- OneUnit
  KindFilters <- AnyKind
  PruneFilters <- AlsoActive
  MaxTime = 4
  MaxLag = 1
  DateLimit = 1000
  IsoLimit = 900
  HeartbeatHorizon = 0
SYMMETRY LeaseSymmetry
CHECK_DEADLOCK FALSE
\* Statements of the documentation that the code does not keep, one at a time:
PROPERTY TerminalRunIsFinal
\* PROPERTY TerminalTaskIsFinal
\* PROPERTY NoTaskJoinsTerminalRun
\* PROPERTY RequeuedIsRunnable
\* PROPERTY OnlyTerminalRunsArePruned
\* INVARIANT ExhaustedIsNotQueued
\* PROPERTY ReleaseConsumesNoAttempt
