SPECIFICATION Spec
CONSTANTS
    c1 = c1
    c2 = c2
    CompThreads <- OneThread
    Info <- MCInfo
    blkmax = 1
    archtype = "DIRECTORIES"
    Trees <- TwoDirs
    MaxSmallFiles = 2
    Faults = {"abort", "analyse", "attr", "read", "truncate", "lstat", "write", "comp"}
CHECK_DEADLOCK FALSE
INVARIANTS
    FooterMeansAll
    CleanSuccessIsWhole
