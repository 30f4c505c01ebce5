SPECIFICATION Spec
CONSTANTS
    c1 = c1
    c2 = c2
    CompThreads <- TwoThreads
    Info <- MCInfo
    blkmax = 1
    archtype = "FILESYSTEMS"
    Trees <- TwoTrees
    MaxSmallFiles = 2
    Faults = {"abort", "pthread", "analyse", "exists", "create", "write", "footer", "lstat", "ignored"}
INVARIANTS
    SaveInv
    FailureLeavesNothing
    FatalErrorIsReported
PROPERTIES
    QSpec
    TransferSpec
    SaveEnds
