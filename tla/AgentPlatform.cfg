SPECIFICATION Spec
CONSTANTS
    Areas = {"delivery", "intake", "source", "campaign", "credential", "sandbox",
             "broker", "publication", "entries", "interaction", "plan"}
    Monitors = {w1}
    MaxRevisions = 2
    MaxDecisions = 1
    MaxReadFailures = 1
    Texts = {1}
    MaxDeliveries = 3
    MaxTasks = 2
    Admitters = {w1, w2}
    MaxReopenings = 1
    Repos = {r1, r2}
    CmScanners = {w1}
    CmConcurrency = 1
    MaxCampaignActs = 3
    CredentialCalls = {c1, c2}
    CrLimit = 3
    SbJobs = {j1, j2}
    SbUids = {u1, u2}
    Adapter = adapter
    MaxRepairCycles = 1
    MaxSbFaults = 2
    MbCalls = {c1, c2, c3}
    NoCall = none
    modelBrokerRequestLimit = 4
    modelBrokerOutputTokens = 2
    modelBrokerTotalOutputTokens = 5
    modelBrokerTotalRequestBytes = 5
    modelUpstreamRetries = 2
    MaxRunnerAttempts = 2
    maxTerminalPublicationAttempts = 5
    MaxHeads = 2
    MaxLookups = 2
    MaxEntryRuns = 2
    ReWorkers = {w1}
    CliKeys = {k1}
    Comments = {c1, c2}
    InHeads = {1, 2}
    MaxCommentRuns = 2
    maxManualInteractionResponseRetries = 1
    RpPaths = {1, 2, 3}
    RpTraits <- SixTraits
    focusedSelectionLimit = 2
    maxPlanPaths = 2
    MaxRpAttempts = 2
INVARIANTS
    BudgetFavoursRisk
    AgentWorkIsBounded
    ShownWasChecked
    NobodyIsLeftWaiting
PROPERTIES
    NewestWins
    AgentSpendingStops
CHECK_DEADLOCK FALSE
