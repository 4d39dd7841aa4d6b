SPECIFICATION Spec
CONSTANTS
  Supervisors = {s1, s2}
  Collectors = {c1, c2}
  StartAt = 1
  EndAt = 2
  MaxGap = 3
  Stale = 2
  GiveUp = 1
  StartupGrace = 2
  AliveFor = 1
  Margin = 1
  MaxRestarts = 1
  MaxClock = 3
  MaxFaults = 1
SYMMETRY Symmetry
CHECK_DEADLOCK FALSE
INVARIANTS EndIsExplained
