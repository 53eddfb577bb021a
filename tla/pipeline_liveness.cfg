SPECIFICATION FairSpec
CONSTANTS
    j1 = j1
    w1 = w1
    w2 = w2
    s1 = s1
    s2 = s2
    Jobs <- OneJob
    Workers <- TwoWorkers
    Starts <- TwoStarts
    Exts <- PdfOnly
    Formats <- TwoFormats
    MaxRetries = 3
    MaxFaults = 0
    Faults = {}
    NoMessage = NoMessage
    NoBody = NoBody
    Null = Null
PROPERTIES
    EverySettles
    DocxReachesTerminal
CHECK_DEADLOCK FALSE
