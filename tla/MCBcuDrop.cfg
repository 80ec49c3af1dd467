SPECIFICATION Spec
CONSTANTS
    SB_N = 2
    Page = 12
    Bytes <- MCBytes
    StoreKinds <- MCFewStores
    Reads <- MCFaultReads
    MaxStores = 2
    PRECISE = TRUE
    DFP_MIS = TRUE
    MISPLIT = FALSE
    TcE = FALSE
    Faults = {}
INVARIANT DroppedIsAbandoned
