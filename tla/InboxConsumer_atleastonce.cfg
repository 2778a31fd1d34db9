SPECIFICATION SafeSpec
CONSTANTS
    m1 = m1
    w1 = w1
    w2 = w2
    w3 = w3
    NoDelivery = NoDelivery
    Messages = {m1}
    Workers = {w1, w2}
    RedeliveryLimit = 5
    MaxFaults = 1
CHECK_DEADLOCK FALSE
INVARIANTS
    AtLeastOnce
