CONSTANTS
    Consumers = {c1}
    Releases = {m1, m2}
    Documents <- MCDocuments
    Servers = {s1}
    Events <- MCEvents
    MaxReceiveCount = 2
    MaxAttempts = 1
    MaxPosts = 1
    MaxFaults = 0
SPECIFICATION MCSpec
INVARIANTS PlanWasCompared
CHECK_DEADLOCK FALSE
