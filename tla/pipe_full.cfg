CONSTANTS
  Runs = {r1, r2}
  n1 = n1
  n2 = n2
  n3 = n3
  NodeIds = {n1, n2, n3}
  Canvases <- MCCanvases
  None = None
  MaxSteps = 2
  MaxVersion = 3
SPECIFICATION FairHistorySpec
INVARIANTS PointerOnTrail TrailInOrder
PROPERTY RunsAreJobs
