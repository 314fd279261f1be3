SPECIFICATION FairSpec
CONSTANTS
    l1 = l1  l2 = l2  dir = dir  r1 = r1  r2 = r2
    a1 = a1  a2 = a2  b1 = b1  k1 = k1  k2 = k2  k3 = k3  raw2 = raw2
    NoLog = NoLog  NoRepo = NoRepo  Starter = Starter  Finder = Finder
    Workers = {w1}
    Logs <- MCLogs
    Dirs = {dir}
    DirOf <- MCDirOf
    Old = {l2}
    Actions <- MCActions
    LogOf <- MCLogOf
    RepoOf <- MCRepoOf
    Repos = {r1, r2}
    Deleting = {a1}
    Keys = {k1, k2, raw2}
    RawKey <- MCRawKey
    RepoKey <- MCRepoKey
    ColdLimit = 1
    MaxMarked = 1
    MaxFaults = 1
INVARIANTS
    MarkedWasSent
    SentOnce
    OnlyOwnSessions
PROPERTIES
    NothingElseIsLost
CHECK_DEADLOCK FALSE
