SPECIFICATION LogSpec
CONSTANTS
  Units = {u1, u2, u3}
  MaxCalls = 2
  PollLimit = 2
  Backend = "postgres"
CHECK_DEADLOCK FALSE
INVARIANT CursorMissesNothing
