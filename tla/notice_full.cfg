CONSTANTS
  Events = {e1, e2, e3}
  Tabs = {b1, b2}
  Limit = 1
  None = None
  MaxFailures = 1
  Threshold = 2
  HardCap = 3
SPECIFICATION FairHistorySpec
INVARIANTS Conserved CursorSound
PROPERTIES EventsSurface
