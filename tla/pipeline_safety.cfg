SPECIFICATION Spec
CONSTANTS
    j1 = j1
    w1 = w1
    w2 = w2
    s1 = s1
    s2 = s2
    Jobs <- OneJob
    Workers <- TwoWorkers
    Starts <- OneStart
    Exts <- Extensions
    Formats <- AllFormats
    MaxRetries = 3
    MaxFaults = 3
    Faults = {"crash", "disconnect", "publish", "db", "disk"}
    NoMessage = NoMessage
    NoBody = NoBody
    Null = Null
INVARIANTS
    TypeOK
    NothingForgotten
    OneDelivery
    ConvertedHasType
    DuplicatesBounded
PROPERTY ImplementsDelivery
CHECK_DEADLOCK FALSE
