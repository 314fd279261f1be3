SPECIFICATION Spec
CONSTANTS
  Windows = {w1, w2}
  Hook = Hook
  MaxLines = 4
  MaxLapses = 2
  MaxFaults = 1
SYMMETRY Symmetry
ACTION_CONSTRAINT Sparingly
INVARIANTS LogIsComplete NewestLoginIsUsed
PROPERTIES GapIsKept
CHECK_DEADLOCK FALSE
