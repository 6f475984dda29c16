SPECIFICATION Spec
CONSTANTS
    Entries = {"a", "b", "c"}
    Inputs <- ManyInputs
    TmpstrNb = 2
    Workers = {w1, w2}
    MaxPasses = 1
CHECK_DEADLOCK FALSE
INVARIANTS
    CellsHoldTheirOwn
