\* Two games, one player's page, one slot; streams linger and are refused.
CONSTANTS
    Game = {g1, g2}
    Conn = {c1, c2}
    Fetch = {f1, f2}
    Click = {k1}
    NoGame = none
    Slots = 1
    Buffer = 1
    MaxRev = 1
    MaxOpens = 2
    MaxClicks = 1
    MaxFaults = 1
SPECIFICATION Spec
INVARIANTS
    ShownIsTrueOrComing
    SlotsAreStreams
PROPERTIES
    StreamsEnd
    CatchesUp
CHECK_DEADLOCK FALSE
