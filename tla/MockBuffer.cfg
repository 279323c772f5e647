SPECIFICATION Spec
CONSTANT MaxFrames = 6
INVARIANTS
    TypeOK
    NoFault
    NoLeak
PROPERTIES
    TakenInOrder
    ImplementsSlot
CHECK_DEADLOCK FALSE
