SPECIFICATION Spec
CONSTANTS
    Blobs <- MCBlobs
    RecSize <- MCRecSize
    MaxRecords = 2
    MaxData = 9
    VersionMod = 4
    MaxBoots = 2
    MaxRetries = 2
    MaxCrashes = 2
    DiskErrors = TRUE
    FlushErrors = FALSE
INVARIANTS
    TypeOK
    OneSession
    NoRecordLost
    MdrSeesWhole
    TrueMeansWritten
PROPERTIES
    VersionChanges
CHECK_DEADLOCK FALSE
