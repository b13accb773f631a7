CONSTANTS
  Keys = {k1}
  Markers = {m1, m2}
  Checkers = {c1}
  Outcomes = {"unauthorized", "valid", "quota_exhausted", "network_error"}
  None = None
  DailyCooldown = 3
  WeeklyCooldown = 4
  DailyCyclesPerWeek = 2
  MaxLag = 1
  MaxCycles = 4
  Horizon = 6
  MaxTime = 10
SPECIFICATION FairHistorySpec
INVARIANTS TimersSane CooldownHasTimer WeeklyAllowance
PROPERTY CooldownsEnd
