SPECIFICATION Spec
CONSTANTS
    c1 = c1
    c2 = c2
    CompThreads <- TwoThreads
    Info <- MCInfo
    blkmax = 1
    oper = "RESTFS"
    archtype = "FILESYSTEMS"
    Archive <- FsArchive
    fscount = 2
    fsbitmap = {2}
    MaxCorrupt = 1
    Jobs <- FsJobs
CHECK_DEADLOCK FALSE
INVARIANTS
    RestoreInv
    CleanRestoreIsWhole
PROPERTIES
    QSpec
    TransferSpec
    RestoreEndsOnceStarted
