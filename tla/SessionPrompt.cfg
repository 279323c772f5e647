SPECIFICATION FairRadioSpec
CONSTANTS
    MAX_RATES = 3
    ProbeInterval = 3
    TimeoutLimit = 2
    BUILD_LOCAL_ONLY = FALSE
    IdMod = 3
    Tokens = {7}
    NumSlices = 6
    MaxDebugCalls = 0
    RCV_MAX_TIMEOUTS = 2
    Prompt = TRUE
INVARIANTS
    SyncAfterAck
PROPERTIES
    DoneOrStranded
