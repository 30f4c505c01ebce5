SPECIFICATION MCSpec
CONSTANTS
    c1 = c1
    c2 = c2
    x = x
    y = y
    CompThreads <- TwoThreads
    Info <- MCInfo
    blkmax = 1
    MaxItems = 4
INVARIANTS
    QueueInv
PROPERTIES
    EndOfQueueIsFinal
    ProcessedOnce
