SPECIFICATION FairSpec
CONSTANTS
    Parties = {"monitor", "scheduler"}
    MayCancel = FALSE
    MaxAgentJobs = 1
    MaxFaults = 1
    PastOverlap = TRUE
PROPERTIES
    Settles
    FailedIsTold
CHECK_DEADLOCK FALSE
