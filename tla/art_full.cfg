CONSTANTS
  Ids = {a1, a2}
  URLs = {u1, u2}
  Syncs = {j1, j2}
  Sweeps = {p1, p2}
  None = None
  Gone = Gone
  Limit = 1
  MaxCancels = 1
SPECIFICATION FairHistorySpec
INVARIANT TableMatchesDisk
PROPERTY DownloadsAreJobs
