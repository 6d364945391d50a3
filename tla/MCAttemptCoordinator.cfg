CONSTANTS
    MaxAttempts = 2
    LeaseDuration = 2
    AttemptTimeout = 2
    MaxCpuTime = 1
    MaxTime = 5
SPECIFICATION CoordinatorSpec
INVARIANTS
    StateMatchesHistory
    CompletionBounded
PROPERTY CancellationOutranks
CHECK_DEADLOCK FALSE
