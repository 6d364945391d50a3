CONSTANTS
    Lease = 1
    DispatchTimeout = 1
    MaxAttempts = 3
    MaxClaims = 3
    Workers = {w1}
    MaxCrashes = 2
    w1 = w1
SPECIFICATION FairSpec
PROPERTIES
    RunSettles
    MessageLeaves
