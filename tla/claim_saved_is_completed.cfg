SPECIFICATION Spec
CONSTANTS
    j1 = j1
    w1 = w1
    w2 = w2
    s1 = s1
    s2 = s2
    Jobs <- OneJob
    Workers <- OneWorker
    Starts <- OneStart
    Exts <- Extensions
    Formats <- AllFormats
    MaxRetries = 3
    MaxFaults = 0
    Faults = {}
    NoMessage = NoMessage
    NoBody = NoBody
    Null = Null
INVARIANT SavedIsCompleted
CHECK_DEADLOCK FALSE
