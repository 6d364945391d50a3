CONSTANTS
    Consumers = {c1, c2}
    Releases = {m1, m2}
    Documents <- MCDocuments
    Servers = {s1, s2}
    Events <- MCEvents
    MaxReceiveCount = 2
    MaxAttempts = 1
    MaxPosts = 2
    MaxFaults = 1
SPECIFICATION MCSpec
INVARIANTS OneJobPerRun ReleaseAccounted AnswersAreTrue
PROPERTIES NothingOverwritten
CHECK_DEADLOCK FALSE
SYMMETRY Interchangeable
