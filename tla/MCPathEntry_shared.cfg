SPECIFICATION FairSpec
CONSTANTS
    p1 = p1
    p2 = p2
    c1 = c1
    c2 = c2
    k1 = k1
    k2 = k2
    k3 = k3
    NoCell = NoCell
    NoPath = NoPath
    NoClient = NoClient
    Paths <- TwoPaths
    Clients <- TwoClients
    Cells <- TwoCells
    Intents <- NoUnlink
    Excluded <- P2
    FirstRemote <- EmptyOrP1
    MaxCounted = 2
    Faults = FALSE
    Collects = FALSE
CHECK_DEADLOCK FALSE
INVARIANTS
    HandleUsable
    NoUseAfterFree
    ExcludedStayLocal
PROPERTIES
    RequestsReturn
