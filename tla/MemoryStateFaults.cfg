SPECIFICATION Spec
CONSTANTS
    a1 = a1
    a2 = a2
    Actors = {a1, a2}
    MaxWrites = 3
    MaxCrashes = 1
    MaxSpoils = 1
    MaxLapses = 1
SYMMETRY Interchangeable
INVARIANTS
    SurvivesOneFault
    NotForgotten
PROPERTIES
    AloneIsStored
CHECK_DEADLOCK FALSE
