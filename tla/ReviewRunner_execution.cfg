SPECIFICATION SafeSpec
CONSTANTS
    q1 = q1
    q2 = q2
    w1 = w1
    w2 = w2
    w3 = w3
    p1 = p1
    p2 = p2
    None = None
    Requests = {q1}
    Workers = {w1, w2, w3}
    Owners = {p1, p2}
    RunnerID <- MixedIDs
    MaxRuns = 1
    MaxDeliveries = 1
    HardLimit = 0
    MaxConcurrent = 1
    MaxAttempts = 2
    MaxHead = 2
    MaxFailures = 2
    MaxCrashes = 1
CHECK_DEADLOCK FALSE
SYMMETRY ThreadSymmetry
INVARIANTS
    EvidenceMatchesRun
    PublishedWasStored
    NothingStrandsUnlessCrashed
