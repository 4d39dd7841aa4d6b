SPECIFICATION GroupSpec
CONSTANTS
  MaxExperiments = 2
  Protocols = {"open"}
  Evidence <- Results
  Controlled <- ControlledResults
  Eligible <- EligibleResults
  Score <- Scores
  NoEvidence = NoEvidence
  Procs = {p1, p2}
  MaxFaults = 1
  MaxKills = 1
  Factors = {f1}
  Cells = {c1}
  MaxFits = 2
  MaxUploads = 3
  MaxHeads = 2
  MaxReviews = 2
  TaskIds = {1, 2, 3}
  Packet <- ThreeTasks
  MaxDowns = 2
  Coordinators = {k1, k2}
  WriteTasks = {t1, t2}
  Owners = {o1, o2}
  LeaseTtl = 1
  MaxClock = 1
  MaxIssued = 4
  MaxMoves = 2
SYMMETRY Symmetry
INVARIANTS ExceptionsLeaveNoStaging MergedEvidenceIsWhole 
PROPERTIES ImplementsLedger
