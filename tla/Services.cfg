\* Seven components without common state, each on a small instance of its own.
SPECIFICATION ServicesSpec
CONSTANTS
    Call = {1, 2, 3, 4}
    Concurrency = 2
    Chunks = 3
    MaxGeneration = 3
    MaxMishaps = 2
    MaxUid = 4
    Kinds <- KindsDef
    ReservedWeight = 4
    MaxBlockWeight = 40
    BlockSigops = 1
    MaxBlocks = 3
    MaxTries = 0
    Transaction = {1, 2}
    Parents <- ParentsDef
    SparseAbove = 5
    Element = {1, 2, 3, 4}
    Priority = {1, 2, 3}
    Hosts <- HostsDef
    Request = {1, 2}
    FailureLimit = 1
    MaxFailures = 2
    MaxSlippage = 0
    MaxHeight = 1
    MaxChanges = 2
    r1 = r1
    r2 = r2
    c1 = c1
    c2 = c2
    c3 = c3
    Runs = {r1, r2}
    Calls = {c1, c2, c3}
INVARIANTS
    ServicesTypeOK
    WorkConserving
    BlocksCorrect
    TemplatesCurrent
    WholeSave
    FlagsExact
    NeverDormant
PROPERTIES
    EveryCallEnds
    SaveEnds
    BlocksAreBuilt
    IsPriorityQueue
    EndsAtAGoodHost
    IndexerKeepsRunning
\* A limiter without calls and a finished list of blocks have nothing to do.
CHECK_DEADLOCK FALSE
