\* A slot is two ticks, a decision expires after one, and the silence limit and the terminal
\* grace are both two slots, so that every time-out can meet every step.
SPECIFICATION FairSpec
CONSTANTS
  Procs = {p1, p2}
  StartAt = 1
  CloseAt = 3
  Grace = 2
  MaxGap = 2
  Fresh = 1
  Interval = 2
  MaxClock = 5
  MaxBack = 1
  MaxLaunches = 2
CHECK_DEADLOCK FALSE
PROPERTIES CollectorEnds
