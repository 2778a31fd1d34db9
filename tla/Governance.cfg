SPECIFICATION Spec
CONSTANTS
    Areas = {"rollout", "issues", "notices", "policy", "governance", "triage",
             "identity", "signon", "access", "setup"}
    Managers = {m1, m2}
    MaxCanaryRuns = 2
    MaxRuleEdits = 2
    MaxReplays = 2
    RollbackAfter = 1
    PullRequests = {p1, p2}
    MaxSyncs = 3
    MaxIssueActs = 2
    NtDests = {d1, d2}
    NtHandlers = {w1}
    MaxNotices = 2
    MaxNtEdits = 1
    MaxHandlings = 2
    RcPeople = {a, b}
    MaxRcEdits = 3
    DgRepos = {r1}
    DgOwners = {o1, o2}
    DgWorkers = {w1}
    MaxDgJobs = 2
    MaxHolds = 1
    RegionAttempts = 2
    TgWorkers = {w1, w2}
    MaxTgRevisions = 2
    MaxTgRounds = 3
    MaxTgAttempts = 2
    RedeliveryLimit = 1
    MaxTgFaults = 1
    MaxReactions = 1
    IdOwners = {a, b}
    IdOutsider = c
    MaxIdEdits = 2
    SoWorkers = {w1, w2}
    MaxSsoRevisions = 2
    MaxSsoProbes = 3
    PaAdmins = {a, b}
    Installations = {i1, i2}
    PaRepos = {r1, r2}
    PaCredentials = {c1, c2}
    PaWorkers = {w1}
    MaxPaEdits = 3
    MaxPaProbes = 2
    WsAdmins = {a, b}
    MaxWsEvents = 6
INVARIANTS
    ReviewPolicyHolds
    NoticesTellTheTruth
    PendingCanBeFinished
    AccessWasEarned
PROPERTIES
    GovernanceHolds
CHECK_DEADLOCK FALSE
