SPECIFICATION FairSpec
CONSTANTS
    Frames <- MCFrames
    Noise <- MCNoise
    MaxFrames = 3
    UserRates = {9}
    MaxRestarts = 1
INVARIANTS
    TypeOK
    FilledInIdle
    NoFifoError
    Configured
PROPERTIES
    ImplementsPort
    CallsReturn
CHECK_DEADLOCK FALSE
