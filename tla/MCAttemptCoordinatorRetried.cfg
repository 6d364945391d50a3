CONSTANTS
    MaxAttempts = 2
    LeaseDuration = 2
    AttemptTimeout = 2
    MaxCpuTime = 1
    MaxTime = 3
SPECIFICATION CoordinatorSpec
PROPERTY CancellationNeverRetried
CHECK_DEADLOCK FALSE
