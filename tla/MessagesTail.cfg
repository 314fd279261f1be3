SPECIFICATION FairSpec
CONSTANTS
  r1 = r1  r2 = r2  a1 = a1  a2 = a2  k1 = k1  k2 = k2  raw2 = raw2
  Lines = 4
  Actions <- MCActions
  CallAt <- MCCallAt
  ResultAt <- MCResultAt
  Repos = {r1, r2}
  RepoOf <- MCRepoOf
  Keys = {k1, k2, raw2}
  RawKey <- MCRawKey
  RepoKey <- MCRepoKey
  Workers = {w1}
  Opener = Opener
  NoRepo = NoRepo
  MaxMarked = 1
  MaxFaults = 2
INVARIANTS TypeOK SentOnce
PROPERTIES NothingElseIsLost
CHECK_DEADLOCK FALSE
