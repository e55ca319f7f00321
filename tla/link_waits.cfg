CONSTANTS
    Body = {b1}
    Sock = {s1, s2}
    Lane = Lane
    Closer = Closer
    None = None
    MaxAttempts = 2
    Requests <- OneWorld
SPECIFICATION LinkFairSpec
PROPERTIES
    AttemptEnds
CHECK_DEADLOCK FALSE
