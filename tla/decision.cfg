SPECIFICATION Spec
CONSTANTS
  Requests <- AllRequests
  Upstreams <- AllUpstreams
  Modes = {"strict"}
  N = 2
  DefaultTTL = 2
  Stale = 2
  Failing = {{}, {1}}
  MaxClock = 3
  MaxStores = 2
  MaxCopies = 1
INVARIANTS FreshEnough  StaleWithinLimit
CHECK_DEADLOCK FALSE
