SPECIFICATION SafeSpec
CONSTANTS
    q1 = q1
    q2 = q2
    w1 = w1
    w2 = w2
    w3 = w3
    p1 = p1
    p2 = p2
    None = None
    Requests = {q1}
    Workers = {w1}
    Owners = {p1}
    RunnerID <- DistinctIDs
    MaxRuns = 3
    MaxDeliveries = 2
    HardLimit = 1
    MaxConcurrent = 1
    MaxAttempts = 1
    MaxHead = 2
    MaxFailures = 1
    MaxCrashes = 0
CHECK_DEADLOCK FALSE
INVARIANTS
    OneActiveRun
    UsageMatchesRun
    QuotaNeverExceeded
    TerminalNoticeOnce
PROPERTIES
    ImplementsLifecycle
