SPECIFICATION FairSpec
CONSTANTS
    j1 = j1
    j2 = j2
    c1 = c1
    c2 = c2
    Jobs = {j1, j2}
    Callers = {c1}
    LeaseTtl = 2
    RawLease = 2
    PendingTimeout = 1
    StaleAfter = 1
    StartDelay = 2
    MaxFaults = 1
INVARIANTS
    LiveJobKeepsRow
    StopHonoured
PROPERTIES
    EndsStay
    JobsEnd
    HeartbeatsEnd
