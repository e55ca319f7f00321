CONSTANTS
    set = set
    ask = ask
    get = get
    Poll = Poll
    Null = Null
    Body = {b1}
    Req <- OnlyGet
    Reads <- OnlyGet
    WorldCalls <- OnlyGet
    IdSpace = 2
    MaxBuffer = 1
    MaxRetries = 1
    MaxPollFailures = 2
    UsePool = TRUE
    MaxFlushLoops = 1
SPECIFICATION FairSpec
PROPERTIES
    EveryCallSettles
    BusyHoldsNewCalls
    NothingBeginsAfterDestroy
CHECK_DEADLOCK FALSE
