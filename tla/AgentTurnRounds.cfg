SPECIFICATION FairSpec
CONSTANTS
    Tools <- EveryTool
    MaxIterations = 4
    MaxNudges = 2
    MaxRetries = 1
    CostRouting = TRUE
    CanHandOff = TRUE
    SkillGate = TRUE
    MaxBatch = 2
INVARIANTS
    RecordedOnce
    SkillGateHolds
PROPERTIES
    
    TurnReturns
CHECK_DEADLOCK FALSE
