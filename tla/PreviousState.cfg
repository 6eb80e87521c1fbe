SPECIFICATION HistorySpec
CONSTANTS
  StateValues = {v1, v2}
  Settable = {v1, v2}
  None = None
  Capacity = 5
  Depths = {0, 1, 2, 3, 4, 5}
  MaxTimeline = 7
CONSTRAINT TimelineBound
PROPERTY
  TakesBackAsDocumented
