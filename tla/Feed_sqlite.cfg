SPECIFICATION FairLogSpec
CONSTANTS
  Units = {u1, u2, u3}
  MaxCalls = 2
  PollLimit = 2
  Backend = "sqlite"
CHECK_DEADLOCK FALSE
INVARIANT UnitAllOrNothing
PROPERTIES
  ImplementsFeed
  EventuallyDelivered
