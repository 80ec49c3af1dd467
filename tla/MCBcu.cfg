SPECIFICATION Spec
CONSTANTS
    SB_N = 2
    Page = 12
    Bytes <- MCBytes
    StoreKinds <- MCStores
    Reads <- MCReads
    MaxStores = 3
    PRECISE = TRUE
    DFP_MIS = TRUE
    MISPLIT = FALSE
    TcE = FALSE
    Faults = {}
INVARIANTS
    TypeOK
    RingConsistent
    ReadsLatest
    FetchSeesStores
    EveryStoreOnce
    SyncPoint
