SPECIFICATION IrqSpec
CONSTANTS
    Levels = {0, 1, 7}
    Masks = {0, 7}
INVARIANT VectorIsMask
CHECK_DEADLOCK FALSE
