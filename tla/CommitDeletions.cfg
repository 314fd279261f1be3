INIT HooksOnlyInit
NEXT Next
ACTION_CONSTRAINT HooksOnlyStep
CONSTANTS
  Subjects <- WithPicks
  MaxMoves = 3
  MaxFaults = 1
  MaxCounts = 2
  NoSha = NoSha
INVARIANTS DeletionsAreOwn DeletionsCountedOnce
CHECK_DEADLOCK FALSE
