SPECIFICATION Spec
CONSTANTS
  Size = 2
  Guild = {g1, g2}
  User = {u1}
  NoUser = NoUser
  Slug = {w1, w2}
  Square = {s1, s2}
  CellInput = {}
  MaxPools = 2
  MaxEntriesPerPool = 2
  MaxPoolId = 2
  MaxGames = 2
  MaxCards = 1
INVARIANTS
  GuildIsolation
SYMMETRY Symmetry
CHECK_DEADLOCK FALSE
