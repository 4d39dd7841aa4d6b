SPECIFICATION GroupSpec
CONSTANTS
  Procs = {p1, p2}
  StartAt = 1
  CloseAt = 3
  Grace = 3
  MaxGap = 3
  Fresh = 1
  Interval = 2
  MaxClock = 7
  MaxBack = 1
  MaxLaunches = 2
  DeskSetups <- SomeDesks
  DeskTargets <- TwoTargets
  DeskLimits <- BarLimits
  DeskScales = {50, 100}
  DeskActions <- FourActions
  DeskValues <- HeadValues
  DustLeft = 1
  MaxBars = 3
  NoDecision = NoDecision
  Pids = {1, 2, 3}
  Modes = {"job", "cim", "proc"}
  QueryAttempts = 2
  MaxBirths = 4
  MaxSnapshots = 2
  Topics = {"fix", "tool", "study"}
  ReservedTopics = {"study"}
  ToolKinds = {"bulk", "prune", "hygiene", "inventory", "attempt", "artifact", "registry", "issue", "assurance", "lease", "source"}
  GraceTicks = 1
  MaxDeletes = 2
  BatchSize = 1
  MaxHubEvents = 2
  MaxTicks = 1
  NoReport = NoReport
SYMMETRY Symmetry
CHECK_DEADLOCK FALSE
INVARIANTS
  OneCommandAfterStop CyclesAreWhole DecisionKeepsItsPosture FamilyIsContained RepositoryToolsAreExact
PROPERTIES SilenceRecorded 
