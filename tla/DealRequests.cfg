SPECIFICATION FairSpec
CONSTANTS
  Req = {r1, r2, r3}
  User = {u1, u2}
  NoOne = NoOne
INVARIANTS
  SameCardEveryTime
  OnlyLosersKeepTheConnection
PROPERTY
  EveryRequestIsAnswered
CHECK_DEADLOCK FALSE
