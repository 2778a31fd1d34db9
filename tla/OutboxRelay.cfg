SPECIFICATION Spec
CONSTANTS
    m1 = m1
    m2 = m2
    r1 = r1
    r2 = r2
    None = None
    Messages = {m1, m2}
    Relays = {r1, r2}
    RelayID <- DistinctIDs
    Topic <- ReviewTopics
    RedeliveryLimit = 1
    MaxFaults = 3
CHECK_DEADLOCK FALSE
INVARIANTS
    PublishedWasAccepted
    DuplicatesNeedFaults
PROPERTIES
    LatestClaimDecides
    EventuallyPublished
