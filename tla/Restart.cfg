SPECIFICATION FairRestartSpec
CONSTANTS
    MAX_RATES = 3
    ProbeInterval = 3
    TimeoutLimit = 2
    BUILD_LOCAL_ONLY = FALSE
    IdMod = 6
    Tokens = {7}
    NumSlices = 3
    MaxDebugCalls = 0
    RCV_MAX_TIMEOUTS = 2
    Prompt = FALSE
    MaxRestarts = 1
INVARIANTS
    LossBounded
PROPERTIES
    Recovers
CHECK_DEADLOCK FALSE
