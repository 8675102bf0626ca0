SPECIFICATION Spec
CONSTANTS
    a = a
    b = b
    c = c
    d = d
    Runs = {a, b, c, d}
    NoRun = NoRun
    LaneOf <- OneLane
    Cancellable = {}
    Removable = {a, b, c}
INVARIANTS
    Serialized
