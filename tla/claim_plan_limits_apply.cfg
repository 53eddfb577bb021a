SPECIFICATION GSpec
CONSTANTS
    r1 = r1
    r2 = r2
    Requests <- TwoRequests
    Calls <- Samples
    Cost = 1
    Window = 1
    Expiry = 1
    MaxTime = 1
    MaxGiven = 1
INVARIANT PlanLimitsApply
CHECK_DEADLOCK FALSE
