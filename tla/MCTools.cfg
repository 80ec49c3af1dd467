SPECIFICATION ToolsSpec
CONSTANTS
    Names <- MCNames
    Edits <- MCEdits
    Equiv = {"equiv"}
    Sources <- MCSources
    Broken = {"("}
    Fails <- MCFails
    Plans <- MCPlans
    Jobs = 2
    Nops = 2
    Inner = 1
    TrapsUsed = {0}
    MaxIrqs = 1
    Ext = 6
    Dbl = 3
    Guard = 2
    Bias = 1
    MaxUlp = 2
    Cases <- MCCases
    Truths = {70, 73, 79, 129}
    Errors <- MCErrors
INVARIANTS
    RowsTrue
    EveryProgramEnds
    IrqInvisible
    RightPasses
    DefectCaught
    ImagesRight
    DoubleDecided
PROPERTY ScriptEnds
CHECK_DEADLOCK FALSE
