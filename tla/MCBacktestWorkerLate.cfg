CONSTANTS
    Lease = 1
    DispatchTimeout = 1
    MaxAttempts = 2
    MaxClaims = 2
    Workers = {w1, w2}
    MaxCrashes = 0
    w1 = w1
    w2 = w2
SPECIFICATION WSpec
PROPERTY LateCompletionFenced
