SPECIFICATION Spec
CONSTANTS
    m1 = m1
    w1 = w1
    w2 = w2
    w3 = w3
    NoDelivery = NoDelivery
    Messages = {m1}
    Workers = {w1, w2, w3}
    RedeliveryLimit = 1
    MaxFaults = 2
CHECK_DEADLOCK FALSE
INVARIANTS
    CompletedHadEffect
    OneWorkerOwnsClaim
    RepeatedEffectsNeedFaults
    UnfinishedWorkIsVisible
PROPERTIES
    EventuallySettled
