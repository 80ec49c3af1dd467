SPECIFICATION Spec
CONSTANTS
    Sets = 2
    Ways = 2
    Beats = 2
    Space = 12
    Ops <- SmallOps
    Dma <- SmallDma
    Descs <- SmallDescs
    Errors = {}
    Works = {"access", "ptest"}
    SweepRows = 32
INVARIANT DescriptorsLatest
