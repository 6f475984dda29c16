SPECIFICATION Spec
CONSTANTS
    c1 = c1
    c2 = c2
    f1 = f1
    f2 = f2
    f3 = f3
    i1 = i1
    i2 = i2
    i3 = i3
    NoFd = NoFd
    NoInode = NoInode
    NoFile = NoFile
    Zero = Zero
    Garbage = Garbage
    None = None
    NoMd = NoMd
    Clients <- TwoClients
    Fds <- ThreeFds
    Inodes <- ThreeInodes
    Values <- OneValue
    MaxBlocks = 2
    Jobs <- WritersJobs
CHECK_DEADLOCK FALSE
SYMMETRY Interchangeable
INVARIANTS
    LastCloseSaves
