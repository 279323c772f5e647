SPECIFICATION FairSpec
CONSTANTS
    MAX_RATES = 3
    ProbeInterval = 3
    TimeoutLimit = 1
    BUILD_LOCAL_ONLY = TRUE
    IdMod = 3
    Tokens = {7}
    NumSlices = 5
    MaxDebugCalls = 2
    RCV_MAX_TIMEOUTS = 1
    Prompt = FALSE
INVARIANTS
    TypeOK
    AckNumbersSuffice
    Window
PROPERTIES
    ImplementsStopAndWait
    EventuallyDone
