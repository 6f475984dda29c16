SPECIFICATION FairSpec
CONSTANTS
    Paths <- Twins
    Names <- TwinNames
    Clients = {c1}
    Contents = {"f", "g"}
    FirstBuckets <- TwinBuckets
    Asks <- AllAsks
    MaxFaults = 1
    TmpstrNb = 32
    CacheDir <- Cache
INVARIANT RenameMoves
INVARIANT NoGhostFiles
PROPERTY RequestsReturn
