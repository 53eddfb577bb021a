SPECIFICATION TBSpec
CONSTANTS
    r1 = r1
    r2 = r2
    Requests <- TwoRequests
    Cost = 2
    Window = 4
    Expiry = 4
    MaxTime = 5
    MaxGiven = 4
SYMMETRY Symmetry
INVARIANTS
    TBTypeOK
    BurstBound
PROPERTIES
    PacedNeverRefused
    NeverStricter
CHECK_DEADLOCK FALSE
