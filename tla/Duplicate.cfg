SPECIFICATION Spec
CONSTANTS
    MAX_RATES = 3
    ProbeInterval = 3
    TimeoutLimit = 1
    BUILD_LOCAL_ONLY = TRUE
    IdMod = 3
    Tokens = {7}
    NumSlices = 2
    MaxDebugCalls = 1
    RCV_MAX_TIMEOUTS = 1
    Prompt = FALSE
PROPERTIES
    NoDuplicate
