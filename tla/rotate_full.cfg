CONSTANTS
  Tasks = {t1}
  Keys = {k1}
  Jobs = {w1, w2}
  RemoteStatuses = {"running"}
  None = None
  Calls = {"start", "sync", "manual", "resume"}
  MaxSessions = 3
  MayAbort = TRUE
  MayRestart = TRUE
  MayLift = TRUE
SPECIFICATION HistorySpec
SYMMETRY Symmetry
INVARIANTS HandoffOwned DoubleIsExplained
PROPERTY ChainsGrow
