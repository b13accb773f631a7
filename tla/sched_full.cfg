CONSTANTS
  Schedules = {s1, s2}
  TickRuns = {f1, f2}
  ManualRuns = {g1}
  Togglers = {u1}
  None = None
  Gone = Gone
  Kinds = {"interval", "daily", "cron", "oneoff"}
  Interval = 1
  Slot = 2
  Day = 2
  DailyAt = 0
  Zone <- MCZone
  Far = 10
  FireTimes = {1}
  MaxTime = 2
  MayRestart = TRUE
  MaxRestarts = 1
SPECIFICATION FairHistorySpec
INVARIANTS OneTickFiring NextAfterClaim
PROPERTIES OneoffFinal DueIsHandled
