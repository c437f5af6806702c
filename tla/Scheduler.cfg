SPECIFICATION FairSpec
CONSTANTS
  PoolSet = {p1}
  MaxPending = 2
  Limit = 2
  Backoff = 1
  MaxSchedules = 3
  MaxTime = 2
  MaxHiccups = 1
  MaxStops = 1
INVARIANTS
  OneGamePerSchedule
  ClaimedRowsAreFired
PROPERTIES
  NeverEarly
  OutcomesAreFinal
  DueIsClaimed
CHECK_DEADLOCK FALSE
