SPECIFICATION Spec
CONSTANTS
    MaxAttempts = 2
    MaxTries = 3
    Providers = {"S3", "LOCAL"}
    MaxFaults = 2
INVARIANT
    OfficialResultStored
CHECK_DEADLOCK FALSE
