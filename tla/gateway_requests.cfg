SPECIFICATION GFairSpec
CONSTANTS
    r1 = r1
    r2 = r2
    Requests <- TwoRequests
    Calls <- Samples
    Cost = 1
    Window = 1
    Expiry = 1
    MaxTime = 1
    MaxGiven = 1
INVARIANTS
    GTypeOK
    WorkBounded
    ReachedIsEntitled
    AnswersAreTrue
PROPERTY EveryRequestEnds
CHECK_DEADLOCK FALSE
