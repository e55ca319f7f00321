CONSTANTS
    Call = {r1, r2}
    Conn = {c1, c2, c3}
    Pool = {p1, p2}
    None = None
    MaxSize = 2
    MaxTimeouts = 1
SPECIFICATION Spec
SYMMETRY Alike
VIEW Referenced
INVARIANTS
    OnlyCrossersHaunt
    WaitersAreServed
    SlotsBalanced
    ReplacedOnce
CHECK_DEADLOCK FALSE
