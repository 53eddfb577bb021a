SPECIFICATION KSpec
CONSTANTS
    a1 = a1
    a2 = a2
    k1 = k1
    c1 = c1
    c2 = c2
    SignIns <- TwoSignIns
    Keys <- OneKey
    NoKey = NoKey
    Free = Free
    MaxRestarts = 1
    Creations <- TwoCreations
    Scopes <- TwoScopes
    Wishes <- TwoWishes
    Default = Default
    Lifetime = 1
    MaxTime = 2
SYMMETRY Symmetry
INVARIANTS
    ApiKeysTypeOK
    LookupStillTrue
    TokensBelong
    AnsweredKeysOpen
    KeysActForTheirOwner
PROPERTY PrimaryKept
CHECK_DEADLOCK FALSE
