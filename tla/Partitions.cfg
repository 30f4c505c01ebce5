SPECIFICATION PartitionsSpec
CONSTANTS
    Parts <- MCParts
    Uuids = {"u0", "u1", "u2", "u3"}
    Contents = {"none", "part", "d1", "d2", "d3"}
    Jobs <- MCJobs
    Faults = {"mount", "xattr", "statvfs", "save", "mkfs", "tune", "objects", "umount"}
    MaxFaults = 1
INVARIANTS
    PartitionsInv
    RestoredIsAsked
    FormattedIsMountable
    CreatedIsFaithful
PROPERTIES
    NeverFormatsMounted
