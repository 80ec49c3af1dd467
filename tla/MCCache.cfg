SPECIFICATION FairSpec
CONSTANTS
    Sets = 2
    Ways = 2
    Beats = 2
    Space = 12
    Ops <- SmallOps
    Dma <- SmallDma
    Descs <- SmallDescs
    Errors = {"demand"}
    Works = {"access", "cinv"}
    SweepRows = 1
INVARIANTS
    TypeOK
    ReadsLatest
    DescriptorsLatest
    NothingLost
    RowsSane
    OnePortUser
    SweptClean
PROPERTY WorkEnds
