SPECIFICATION Spec
CONSTANTS
    c1 = c1
    c2 = c2
    CompThreads <- OneThread
    Info <- MCInfo
    blkmax = 1
    oper = "RESTDIR"
    archtype = "DIRECTORIES"
    Archive <- DirArchive
    fscount = 1
    fsbitmap = {1}
    MaxCorrupt = 2
    Jobs <- DirJobs
CHECK_DEADLOCK FALSE
INVARIANTS
    NoSilentCorruption
    CleanRestoreIsWhole
    OnlyDamagedIsLost
    ExcludedIsUntouched
