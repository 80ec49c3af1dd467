SPECIFICATION Spec
CONSTANTS
    Nops = 2
    Inner = 1
    TrapsUsed = {0}
    MaxIrqs = 1
INVARIANT DifferenceShows
CHECK_DEADLOCK FALSE
