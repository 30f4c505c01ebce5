SPECIFICATION Spec
CONSTANTS
    Jobs <- MCJobs
    XattrNames <- MCXattrNames
    WinNames <- MCWinNames
    RaceInodes = {"f"}
    RaceSizes = {0, 30, 65536}
    MaxRaces = 2
    Faults = {"create", "lchown", "lsetxattr"}
    MaxFaults = 1
INVARIANTS
    DicoIsReadable
    CountedKeepsAttributes
    DirTimesKept
    RacesAreHarmless
