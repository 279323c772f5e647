SPECIFICATION Spec
CONSTANT MaxFrames = 6
INVARIANTS
    OldIsAllocated
CHECK_DEADLOCK FALSE
