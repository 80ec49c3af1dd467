SPECIFICATION Spec
CONSTANTS
    Sets = 2
    Ways = 2
    Beats = 2
    Space = 12
    Ops <- SmallOps
    Dma <- SmallDma
    Descs <- SmallDescs
    Errors = {"late"}
    Works = {"access"}
    SweepRows = 1
INVARIANT ReadsLatest
