SPECIFICATION Spec
CONSTANTS
    p1 = p1
    p2 = p2
    c1 = c1
    c2 = c2
    k1 = k1
    k2 = k2
    k3 = k3
    NoCell = NoCell
    NoPath = NoPath
    NoClient = NoClient
    Paths <- OnePath
    Clients <- OneClient
    Cells <- TwoCells
    Intents <- ReadOnly
    Excluded <- None
    FirstRemote <- HasP1
    MaxCounted = 2
    Faults = FALSE
    Collects = TRUE
CHECK_DEADLOCK FALSE
PROPERTIES
    GcSparesOpenCells
