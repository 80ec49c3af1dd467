SPECIFICATION FairSpec
CONSTANTS
    SB_N = 2
    Page = 12
    Bytes <- MCBytes
    StoreKinds <- MCFaultStores
    Reads <- MCFaultReads
    MaxStores = 3
    PRECISE = FALSE
    DFP_MIS = TRUE
    MISPLIT = TRUE
    TcE = TRUE
    Faults = {"sync", "post", "read"}
INVARIANTS
    ReadsLatest
    EveryStoreOnce
PROPERTIES
    ReadsAnswered
    StoresLeaveWb
