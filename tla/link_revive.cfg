CONSTANTS
    Body = {b1}
    Sock = {s1, s2}
    Lane = Lane
    None = None
    Closer = Closer
    MaxAttempts = 2
    Requests <- Leaving
SPECIFICATION LinkSpec
SYMMETRY Alike
INVARIANTS
  InWorldKnowsIt
CHECK_DEADLOCK FALSE
