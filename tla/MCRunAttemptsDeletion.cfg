CONSTANTS
    Lease = 1
    DispatchTimeout = 1
    MaxAttempts = 1
    MaxClaims = 1
SPECIFICATION Spec
INVARIANT DeletionHidesTerminal
