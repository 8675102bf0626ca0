SPECIFICATION FairSpec
CONSTANTS
    r1 = r1
    r2 = r2
    lane = lane
    NoRun = NoRun
    Runs = {r1, r2}
    Lanes = {lane}
    LaneOf <- OneLane
    Streaming = {r1}
    Watched = {r1}
    MaxInflight = 1
    MaxRequests = 1
    HistoryLimit = 2
    RingSize = 1
    MaxEvents = 2
    MaxConnects = 2
    MaxFaults = 1
INVARIANTS
    InflightExact
    EndIsTold
PROPERTIES
    NoSilentGap
    StreamsEnd
CHECK_DEADLOCK FALSE
