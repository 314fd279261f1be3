SPECIFICATION Spec
CONSTANTS
    l1 = l1  l2 = l2  dir = dir  r1 = r1  r2 = r2
    a1 = a1  a2 = a2  b1 = b1  k1 = k1  k2 = k2  k3 = k3  raw2 = raw2
    NoLog = NoLog  NoRepo = NoRepo  Starter = Starter  Finder = Finder
    Workers = {w1}
    Logs <- MCLogs
    Dirs = {dir}
    DirOf <- MCDirOf
    Old = {}
    Actions <- TwoActions
    LogOf <- TwoLogOf
    RepoOf <- TwoRepoOf
    Repos = {r1}
    Deleting <- TwoActions
    Keys = {k1, k3}
    RawKey <- TwoKey
    RepoKey <- TwoKey
    ColdLimit = 10
    MaxMarked = 10
    MaxFaults = 0
INVARIANT NetDeletionsAreTotal
CHECK_DEADLOCK FALSE
