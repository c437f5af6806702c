\* Two checks of one user at a time; an owner lost at 0 is forgotten before 3.
CONSTANTS
    User = {u1}
    Role = {r1}
    Everyone = everyone
    NoUser = nobody
    Request = {q1, q2}
    GuildTTL = 2
    MemberTTL = 1
    SweepAbove = 0
    MaxNow = 3
    MaxChanges = 1
SYMMETRY CallsAreAlike
SPECIFICATION Spec
INVARIANTS
    TypeOK
    CacheIsRecent
PROPERTIES
    AllowedOnRecentGrounds
CHECK_DEADLOCK FALSE
