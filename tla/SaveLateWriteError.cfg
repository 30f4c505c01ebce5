SPECIFICATION Spec
CONSTANTS
    c1 = c1
    c2 = c2
    CompThreads <- OneThread
    Info <- MCInfo
    blkmax = 1
    archtype = "FILESYSTEMS"
    Trees <- OneTree
    MaxSmallFiles = 2
    Faults = {"write"}
INVARIANTS
    SuccessIsWhole
