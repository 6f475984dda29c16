SPECIFICATION FairSpec
CONSTANTS
    p1 = p1
    p2 = p2
    c1 = c1
    c2 = c2
    k1 = k1
    k2 = k2
    k3 = k3
    NoCell = NoCell
    NoPath = NoPath
    NoClient = NoClient
    Paths <- OnePath
    Clients <- TwoClients
    Cells <- TwoCells
    Intents <- ReadOrWrite
    Excluded <- None
    FirstRemote <- HasP1
    MaxCounted = 1
    Faults = FALSE
    Collects = TRUE
CHECK_DEADLOCK FALSE
PROPERTIES
    IdleFileCollected
