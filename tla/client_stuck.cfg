\* The page may be left.
CONSTANTS
    Part = {"client"}
    Sock = {s1, s2}
    Token = {t1, t2, t3}
    None = None
    MaxAttempts = 2
    MaxForeground = 1
    MaxRestarts = 1
    Building = {b1}
    GateFirst = {}
    Nowhere = Nowhere
    MaxCalls = 0
    MaxAlike = 0
    Service = {update, facilities, mapData}
    Unknown = Unknown
    Player = {player}
    MaxSignals = 3
    MaxExceptions = 2
    MaxStream = 6
    MaxChunk = 2
    MaxBuffer = 5
    Call = {r1}
    Conn = {k1, k2, k3}
    Pool = {p1}
    MaxSize = 2
    MaxTimeouts = 1
SPECIFICATION PartsSpec
INVARIANTS
    ReconnectingIsTrying
CHECK_DEADLOCK FALSE
