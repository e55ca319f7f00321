\* Either may stop: the session is over; every tab is closed for good, or the gateway is shut down.
CONSTANTS
    Side = {"gateway", "link"}
    c1 = c1
    c2 = c2
    i1 = i1
    u1 = u1
    Null = Null
    Conn <- TwoTabs
    Ip <- OneAddress
    IpOf <- FromOneAddress
    User <- OneUser
    MaxPerIp = 1
    MaxParked = 1
    MaxSessions = 1
    MaxQueued = 1
    MaxToken = 2
    RequestTypes <- AllRequests
    Body = {b1, b2}
    Sock = {s1, s2}
    Lane = Lane
    Closer = Closer
    None = None
    MaxAttempts = 2
    Requests <- WithCompanies
SPECIFICATION SidesSpec
SYMMETRY Alike
INVARIANTS
    AttemptsAreShared
    ConnectedIsWatched
    JoinersAreHeard
    TypeOK
CHECK_DEADLOCK FALSE
