CONSTANTS
  Commits = {c1, c2}
  Edits = {e1, e2}
  Callers = {"hook", "extension"}
  Root = Root
  None = None
  NoNote = NoNote
  Corrupt = Corrupt
  Concurrent = FALSE
  MaxFaults = 0
SPECIFICATION FairSpec
INVARIANT NothingLost
PROPERTY NoteKept
CHECK_DEADLOCK FALSE
PROPERTY EveryCommitNoted
