SPECIFICATION Spec
CONSTANTS
    m1 = m1
    r1 = r1
    r2 = r2
    w1 = w1
    w2 = w2
    None = None
    NoDelivery = NoDelivery
    Messages = {m1}
    Relays = {r1, r2}
    RelayID <- SharedID
    Topic <- OneTopic
    Workers = {w1, w2}
    RedeliveryLimit = 1
    MaxFaults = 2
CHECK_DEADLOCK FALSE
INVARIANTS
    CommittedIsAccountedFor
PROPERTIES
    ImplementsConsumer
    EventuallyHandled
