SPECIFICATION FairSpec
CONSTANTS
  Supervisors = {s1}
  Collectors = {c1, c2}
  StartAt = 1
  EndAt = 3
  MaxGap = 1
  Stale = 1
  GiveUp = 1
  StartupGrace = 1
  AliveFor = 1
  Margin = 1
  MaxRestarts = 1
  MaxClock = 5
  MaxFaults = 2
CHECK_DEADLOCK FALSE
PROPERTIES RestartInsideGap SilenceIsNoticed
