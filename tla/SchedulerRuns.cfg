SPECIFICATION FairSpec
CONSTANTS
    t1 = t1
    t2 = t2
    p1 = p1
    p2 = p2
    NoTask = NoTask
    Tasks = {t1}
    Personas = {p1, p2}
    Slots = 2
    Period = 2
    TaskTimeout = 1
    HardTimeout = 1
    ReclaimAfter = 2
    MaxConcurrent = 1
    MaxEdits = 1
    MaxFaults = 1
INVARIANTS
    OneRunPerClaim
    PlanAgrees
PROPERTIES
    StoppedStaysStopped
    RunningEnds
    DueIsClaimed
