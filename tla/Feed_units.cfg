SPECIFICATION LogSpec
CONSTANTS
  Units = {u1, u2, u3}
  MaxCalls = 2
  PollLimit = 2
  \* "bridge" and "memory" violate it too; with "sqlite", HeardIsStored is violated.
  Backend = "postgres"
CHECK_DEADLOCK FALSE
INVARIANT UnitAllOrNothing
\* INVARIANT HeardIsStored
