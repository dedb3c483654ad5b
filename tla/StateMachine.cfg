SPECIFICATION StatusSpec
CONSTANTS
  RunTasks = {t1, t2, t3}
CHECK_DEADLOCK FALSE
INVARIANTS
  DerivedAsDocumented
  RecomputeForgetsHistory
