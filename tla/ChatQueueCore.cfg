SPECIFICATION FairSpec
CONSTANTS
    a = a
    b = b
    c = c
    d = d
    Runs = {a, b, c, d}
    NoRun = NoRun
    LaneOf <- OneLane
    Cancellable = {a}
    Removable = {a, b}
INVARIANTS
    SerializedUnlessRaced
    PendingExactUnlessRaced
    ArrivalOrderUnlessRaced
    SenderAlive
PROPERTIES
    EveryRunSettles
