CONSTANTS
  Tasks = {t1}
  Keys = {k1, k2}
  Jobs = {w1, w2}
  RemoteStatuses = {"running"}
  None = None
  Calls = {"start", "follow", "sync"}
  MaxSessions = 3
  MayAbort = FALSE
  MayRestart = FALSE
  MayLift = TRUE
  MaxLifts = 1
SPECIFICATION FairCacheSpec
SYMMETRY KeySymmetry
INVARIANTS NothingForgotten QuotaChangesKey FollowUpCarried
PROPERTY HandoffsSettle
