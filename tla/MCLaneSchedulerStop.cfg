CONSTANTS
    Lanes = {"basic", "custom", "competition"}
    LaneOrder <- MCLaneOrder
    Limit <- MCLimit
    GlobalLimit = 2
    Backoff = 1
    MaxBackoff = 1
    MaxFailures = 1
    Futures = {f1, f2}
SPECIFICATION SchedulerSpec
PROPERTY NoReceiveAfterStop
