SPECIFICATION Spec
CONSTANTS
  PoolSet = {p1}
  MaxPending = 1
  Limit = 1
  Backoff = 1
  MaxSchedules = 1
  MaxTime = 2
  MaxHiccups = 0
  MaxStops = 1
INVARIANT
  NeverDropped
CHECK_DEADLOCK FALSE
