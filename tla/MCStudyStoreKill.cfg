\* One process that is killed once.
SPECIFICATION GroupSpec
CONSTANTS
  MaxExperiments = 1
  Protocols = {"open"}
  Evidence <- Results
  Controlled <- ControlledResults
  Eligible <- EligibleResults
  Score <- Scores
  NoEvidence = NoEvidence
  Procs = {p1}
  MaxFaults = 0
  MaxKills = 1
  Factors = {f1}
  Cells = {c1}
  MaxFits = 1
  MaxUploads = 1
  MaxHeads = 1
  MaxReviews = 1
  TaskIds = {1, 2, 3}
  Packet <- ThreeTasks
  MaxDowns = 1
  Coordinators = {k1}
  WriteTasks = {t1}
  Owners = {o1}
  LeaseTtl = 1
  MaxClock = 1
  MaxIssued = 1
  MaxMoves = 1
INVARIANT FailureRecordable
