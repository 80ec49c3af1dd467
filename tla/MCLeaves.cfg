SPECIFICATION LeavesSpec
CONSTANTS
    Payload = {p1, p2, pBad}
    BadPayload = {pBad}
    Garbage = garbage
    Limit = 63
    Space = 8
    Starts = {1, 6, 7}
    Rows = {r0, r1}
    Bits = {i0}
    Pages = {a, b, c}
    Entries = 2
    Epochs = 4
    Levels = {0, 1, 7}
    Masks = {0, 7}
INVARIANTS
    IInv
    LaunchIsHeldRequest
    AnswerIsForRequest
    TimerInv
    FaultIsOwn
    AckIsWholeOperand
    CycleStableUnderAck
    CycleIsOfHeldRequest
    PostedIsKnown
    DeferredOnce
PROPERTIES
    HeldRequestEnds
    NothingWaitsForever
    ImplementsTable
    TakenOnce
