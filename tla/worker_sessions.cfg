SPECIFICATION SSpec
CONSTANTS
    j1 = j1
    w1 = w1
    w2 = w2
    s1 = s1
    s2 = s2
    Jobs <- OneJob
    Workers <- TwoWorkers
    Starts <- TwoStarts
    Exts <- PdfOnly
    Formats <- ThreeFormats
    MaxRetries = 0
    MaxFaults = 2
    Faults = {"crash", "disconnect", "publish", "db", "disk"}
    PoolLimit = 1
    NoMessage = NoMessage
    NoBody = NoBody
    Null = Null
SYMMETRY Symmetry
INVARIANTS
    SessionsTypeOK
    RecordedOrLeft
    OnlyUncaughtLeave
PROPERTY ImplementsDelivery
CHECK_DEADLOCK FALSE
