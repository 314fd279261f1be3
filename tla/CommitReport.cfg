SPECIFICATION FairSpec
CONSTANTS
  Subjects <- Messages
  MaxMoves = 2
  MaxFaults = 1
  MaxCounts = 0
  NoSha = NoSha
ACTION_CONSTRAINT Sparingly
INVARIANTS ReportsAreOwn QuietReportIsExact
PROPERTIES QuietCommitIsReported EveryCommitNoted
CHECK_DEADLOCK FALSE
