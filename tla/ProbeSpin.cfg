SPECIFICATION Spec
CONSTANTS
    MAX_RATES = 4
    ProbeInterval = 3
    TimeoutLimit = 2
    IdMod = 6
    MaxFails = 18
INVARIANTS
    PickingEnds
CHECK_DEADLOCK FALSE
