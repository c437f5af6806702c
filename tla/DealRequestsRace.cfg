SPECIFICATION Spec
CONSTANTS
  Req = {r1, r2}
  User = {u1}
  NoOne = NoOne
INVARIANT
  RaceLoserGetsTheCard
CHECK_DEADLOCK FALSE
