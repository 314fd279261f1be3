SPECIFICATION Spec
CONSTANTS
    r1 = r1  r2 = r2  r3 = r3  r4 = r4
    k1 = k1  k2 = k2  repo = repo
    NoKey = NoKey
    Requests <- MCRequests
    Keys = {k1, k2}
    Key <- MCKey
    Kind <- MCKind
    Repos = {repo}
    Repo <- MCRepo
    Lines <- MCLines
    PoolMax = 2
    MaxFaults = 2
INVARIANTS
    KeyImpliesStored
    OkImpliesStored
    SaveIsAtomic
    SerialSnapshotIsTotal
PROPERTIES
    EveryRequestEnds
CHECK_DEADLOCK FALSE
