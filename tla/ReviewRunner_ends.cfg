SPECIFICATION Spec
CONSTANTS
    q1 = q1
    q2 = q2
    w1 = w1
    w2 = w2
    w3 = w3
    p1 = p1
    p2 = p2
    None = None
    Requests = {q1, q2}
    Workers = {w1}
    Owners = {p1}
    RunnerID <- DistinctIDs
    MaxRuns = 2
    MaxDeliveries = 2
    HardLimit = 0
    MaxConcurrent = 1
    MaxAttempts = 2
    MaxHead = 1
    MaxFailures = 1
    MaxCrashes = 1
CHECK_DEADLOCK FALSE
PROPERTIES
    EventuallyEnds
