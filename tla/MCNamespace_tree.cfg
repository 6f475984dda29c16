SPECIFICATION Spec
CONSTANTS
    Paths <- Trees
    Names <- TreeNames
    Clients = {c1, c2}
    Contents = {"f", "g", "h"}
    FirstBuckets <- TreeBuckets
    Asks <- Renames
    MaxFaults = 1
    TmpstrNb = 32
    CacheDir <- Cache
INVARIANT TypeOK
PROPERTY NothingLost
PROPERTY RenameStaysInside
