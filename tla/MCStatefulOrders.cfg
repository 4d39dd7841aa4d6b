SPECIFICATION GroupSpec
CHECK_DEADLOCK FALSE
CONSTANTS
    Setups <- AllSetups
    MaxLeverage = 1
    MaintDen = 4
    Capital = 3
    Modes = {"single", "shared", "scripted"}
    AgentBars = 3
    SettleBars = 2
    HoldBars = 2
    Lots = 2
    Funding <- FundingRates
    StartCash = 6
    NSteps = 2
    Rollouts = 2
    Codes = {0, 1}
    Decisions = 3
    MaxExtra = 1
    NoFile = NoFile
    MaxEdits = 1
    Configs <- PolicyConfigs
    TrainCost <- TrainedCost
    RuntimeEnvs <- PolicyEnvs
    Scenarios <- PolicyScenarios
    Snapshots <- PolicySnapshots
    AllowedChanges = {"latency", "fee"}
    ReviewRuns = 2
    ReviewRequests <- TwoRequests
    ReviewShas = {"c1", "c2"}
    ReviewDocs <- ReviewDocuments
    MaxReruns = 2
    MaxHubChanges = 1
    NoReview = NoReview
INVARIANTS OrdersStaySound PolicyIsTraceable OneVerdictPerCommit
PROPERTIES OrderStepsLegal MemoryMatchesExecution
