SPECIFICATION FairSpec
CONSTANTS
  Game = {g1}
  Message = {m1, m2}
  None = None
  Buffer = 1
  MaxRev = 2
  MaxUnsent = 2
  MaxFaults = 1
INVARIANTS
  AnnouncedOnceAndTruly
  StaleMeansComing
  ToldOrComing
PROPERTY
  CurrentInTheEnd
CHECK_DEADLOCK FALSE
