SPECIFICATION Spec
CONSTANTS
    Options <- DirOptions
    Devs = {"sda1", "sdb1"}
    DataBlockSize = 4
    SmallFileThresh = 3
    MaxSmallFiles = 3
    Faults = {}
    MaxFaults = 0
INVARIANTS
    CountedIsRight
