SPECIFICATION Spec
CONSTANTS
  Size = 2
  Guild = {g1}
  User = {u1, u2}
  NoUser = NoUser
  Slug = {w1}
  Square = {s1}
  CellInput = {0, 1, 2, 4}
  MaxPools = 1
  MaxEntriesPerPool = 3
  MaxPoolId = 1
  MaxGames = 2
  MaxCards = 4
INVARIANTS
  TypeOK
  WinnerHoldsALine
  OneOpenGamePerSet
  OneCardPerPlayer
PROPERTIES
  ClosedGamesAreFrozen
  KeepsThePromise
SYMMETRY Symmetry
CHECK_DEADLOCK FALSE
