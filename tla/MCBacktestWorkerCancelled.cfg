CONSTANTS
    Lease = 1
    DispatchTimeout = 1
    MaxAttempts = 2
    MaxClaims = 2
    Workers = {w1}
    MaxCrashes = 0
    w1 = w1
SPECIFICATION WSpec
PROPERTY CancelledNotDeadLettered
