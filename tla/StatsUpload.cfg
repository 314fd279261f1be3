SPECIFICATION Spec
CONSTANTS
    u1 = u1  u2 = u2  k1 = k1  k2 = k2
    NoKey = NoKey  TheRepo = repo
    Uploads <- TwoUploads
    Keys = {k1, k2}
    KeyOf <- TwoKeys
    KindOf <- TwoKinds
    LinesOf <- TwoLines
    MAX_RETRIES = 1
    MayTimeOut = TRUE
    PoolMax = 1
    MaxFaults = 2
INVARIANTS StoredTwiceIsExcused
PROPERTIES
    ImplementsLedger
    UploadEnds
CHECK_DEADLOCK FALSE
