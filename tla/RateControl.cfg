SPECIFICATION RateSpec
CONSTANTS
    MAX_RATES = 4
    ProbeInterval = 3
    TimeoutLimit = 2
    IdMod = 6
    MaxFails = 18
    PktCounts = 256
INVARIANTS
    TypeOK
    FallbackWithin
    FallbackProgress
    RatesConsistent
    SkipIsForProbe
    LowestRateWithin
    SimConsistent
CHECK_DEADLOCK FALSE
