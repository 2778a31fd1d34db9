SPECIFICATION AllSpec
CONSTANTS
    Areas = {"execution", "source", "campaign"}
    Runners = {r1}
    MaxPlans = 1
    MaxAttempts = 2
    MaxTaskAttempts = 2
    MaxSourceRetries = 1
    MaxRunnerCrashes = 1
    MaxAdapterCrashes = 1
    MaxLost = 1
    Admitters = {w1, w2}
    MaxReopenings = 1
    Repos = {r1, r2}
    CmScanners = {w1}
    CmConcurrency = 1
    MaxCampaignActs = 3
INVARIANTS
    SourceFollowsAcknowledgement
PROPERTIES
    AttachedWorkEnds
    AgentWorkSettles
CHECK_DEADLOCK FALSE
