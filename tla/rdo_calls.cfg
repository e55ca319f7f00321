CONSTANTS
    set = set
    ask = ask
    get = get
    Poll = Poll
    Null = Null
    Body = {b1}
    Req <- SetAndAsk
    Reads <- NoReads
    WorldCalls <- OnlySet
    IdSpace = 2
    MaxBuffer = 1
    MaxRetries = 1
    MaxPollFailures = 1
    UsePool = FALSE
    MaxFlushLoops = 2
SPECIFICATION Spec
INVARIANTS
    InFlightIsTracked
    MutationsSentOnce
    TypeOK
    BufferIsAccounted
PROPERTIES
    AnswersAreOwn
CHECK_DEADLOCK FALSE
