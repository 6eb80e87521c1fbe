SPECIFICATION HistorySpec
CONSTANTS
  StateValues = {unknown, v1, v2}
  Settable = {v1, v2}
  None = None
  Capacity = 3
  Depths = {0, 1, 2, 3, 4}
  MaxTimeline = 6
CONSTRAINT TimelineBound
SYMMETRY ValueSymmetry
INVARIANTS
  HistoryIsNewest
PROPERTY
  IsUndoStack
