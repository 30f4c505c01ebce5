SPECIFICATION Spec
CONSTANTS
    Options <- MCOptions
    HeaderSizes = {1, 4}
    BlockSizes = {2}
    MaxItems = 4
    OldVolumes <- MCOldVolumes
    Faults = {"create", "write", "unlink", "crash", "moved"}
INVARIANTS
    VolumesInv
    ItemsOfOneArchive
    EndMeansWhole
    SavedIsReadable
    FailureRemovesAll
    VolumeFits
PROPERTIES
    OldVolumesAreKept
