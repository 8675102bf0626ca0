SPECIFICATION Spec
CONSTANTS
    Parties = {"watcher", "monitor", "scheduler"}
    MayCancel = TRUE
    MaxAgentJobs = 2
    MaxFaults = 3
    PastOverlap = FALSE
INVARIANTS
    AgentJobsBounded
    FailureIsReal
PROPERTIES
    DoneStays
CHECK_DEADLOCK FALSE
