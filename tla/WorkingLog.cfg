CONSTANTS
  Commits = {c1,c2}
  Edits = {e1,e2}
  Callers = {"hook"}
  Root = Root
  None = None
  NoNote = NoNote
  Corrupt = Corrupt
  Concurrent = TRUE
  MaxFaults = 1
SPECIFICATION Spec
SYMMETRY Symmetry
INVARIANT CreditIsReported
PROPERTY LogOutlivesNote
CHECK_DEADLOCK FALSE
