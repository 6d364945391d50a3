SPECIFICATION Spec
CONSTANTS
    MaxAttempts = 3
    MaxTries = 3
    Providers = {"S3", "LOCAL"}
    MaxFaults = 3
INVARIANTS
    OfficialDetailsStored
    UploadsAccounted
    ReportsAreTrue
PROPERTY
    CompensationOwned
CHECK_DEADLOCK FALSE
