SPECIFICATION FairSpec
CONSTANTS
    Entries = {"a", "b"}
    Inputs <- AllInputs
    TmpstrNb = 2
    Workers = {w1, w2}
    MaxPasses = 1
CHECK_DEADLOCK FALSE
INVARIANTS
    TypeOK
    OptionsAsWritten
    
    NothingLeft
    CellsHoldTheirOwn
PROPERTIES
    RootPreloaded
