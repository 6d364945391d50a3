CONSTANTS
    Consumers = {c1, c2}
    Messages = {m1, m2}
    Deliveries <- MCDeliveries
    MaxReceiveCount = 2
    MaxFaults = 2
    c1 = c1
    c2 = c2
    m1 = m1
    m2 = m2
SPECIFICATION FairSpec
INVARIANTS
    PublishedIsAuthorized
PROPERTIES
    CompletedIsPublished
    ImplementsOutcomes
    QueueDrains
CHECK_DEADLOCK FALSE
