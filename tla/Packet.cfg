SPECIFICATION Spec
CONSTANTS
    BYTE = 3
    Ids = {0, 7, 80}
    TokenValues = {0, 5}
    Rates = {2}
    MaxPayload = 2
INVARIANTS
    RoundTrip
    OneByteNoticed
    CutNoticed
CHECK_DEADLOCK FALSE
