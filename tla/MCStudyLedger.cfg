SPECIFICATION GroupSpec
CONSTANTS
  MaxExperiments = 3
  Protocols = {"open", "holding"}
  Evidence <- Results
  Controlled <- ControlledResults
  Eligible <- EligibleResults
  Score <- Scores
  NoEvidence = NoEvidence
  Authorizers = {a1, a2}
  OutputRoots = {out}
  RunIds = {r1, r2}
  Publishers = {p1, p2}
  MaxTrouble = 2
  Kinds = {"family", "scenario", "ridge", "synthetic", "costaware"}
  Callers = {c1, c2}
  ArmCount = 2
  MaxVersion = 2
  MaxSlips = 2
  SlotRoster <- TwoSlots
  FitOutcomes = {v1, v2}
  MaxRuns = 2
  MaxVerifies = 2
  CandidateRuns = {k1, k2}
  CandidateConfigs <- SomeConfigs
  DatasetAt <- SomeDatasets
  RecordedSchemas = {1, 2, 3, 4, 5, 6, 7, 8, 9}
  MaxCodeVersion = 2
  MaxCandidateDeaths = 1
  NoResult = NoResult
  ArmNames <- ThreeArms
  Market <- SixBars
  Windows <- SomeWindows
  Capital = 6
  FeePerLot = 1
  NoDocument = NoDocument
  ValueRuns = {q1, q2}
  ValueProtocols <- SomeValueProtocols
  Feeds <- SomeFeeds
  Heads = {1, 2}
  MaxEvidence = 2
  MaxValueDeaths = 1
  MaxLinkFailures = 1
SYMMETRY Symmetry
CHECK_DEADLOCK FALSE
INVARIANTS StudyReconstructs ArmsShareBaseline  SealedBindsWinner LatestNamesPublishedRun AttemptsAreTrustworthy SlotsAreOneShot PublishedResultsAreTrue StudyRootIsOneAttempt
PROPERTIES EvidenceAppendOnly SealedOnce
