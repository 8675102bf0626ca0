SPECIFICATION NoRaceSpec
CONSTANTS
    a = a
    b = b
    c = c
    d = d
    Runs = {a, b, c, d}
    NoRun = NoRun
    LaneOf <- TwoLanes
    Cancellable = {a}
    Removable = {b}
PROPERTIES
    KeepsPromise
