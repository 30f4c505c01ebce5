SPECIFICATION Spec
CONSTANTS
    Options <- MCOptions
    Devs = {"sda1"}
    DataBlockSize = 4
    SmallFileThresh = 3
    MaxSmallFiles = 3
    Faults = {"attr", "open", "truncate", "read", "damage", "lose", "create", "nospace"}
    MaxFaults = 1
INVARIANTS
    ArchiveIsRestorable
    CountedIsRight
    CleanRoundTrip
    OnlyFailedIsLost
