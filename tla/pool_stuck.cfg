CONSTANTS
  Keys = {k1}
  Markers = {m1}
  Checkers = {c1}
  Outcomes = {"network_error"}
  None = None
  DailyCooldown = 1
  WeeklyCooldown = 2
  DailyCyclesPerWeek = 2
  MaxLag = 1
  MaxCycles = 4
  Horizon = 2
  MaxTime = 4
SPECIFICATION FairSpec
PROPERTY CooldownsLift
