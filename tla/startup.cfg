SPECIFICATION StartupFairSpec
CONSTANTS
    u1 = u1
    w1 = w1
    w2 = w2
    Uploads <- OneUpload
    Workers <- OneWorker
    Retries = 3
    Delay = 2
INVARIANTS
    StartupTypeOK
    StaysRouted
PROPERTIES
    PatientWithBroker
    EveryStartEnds
CHECK_DEADLOCK FALSE
