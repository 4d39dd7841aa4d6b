SPECIFICATION Spec
CONSTANTS
  Supervisors = {s1}
  Collectors = {c1}
  StartAt = 0
  EndAt = 2
  MaxGap = 3
  Stale = 2
  GiveUp = 1
  StartupGrace = 2
  AliveFor = 1
  Margin = 1
  MaxRestarts = 1
  MaxClock = 4
  MaxFaults = 0
CHECK_DEADLOCK FALSE
PROPERTIES CleanEndNotCondemned
