SPECIFICATION Spec
CONSTANTS
    Blobs <- MCBlobs
    RecSize <- MCRecSize
    MaxRecords = 2
    MaxData = 5
    VersionMod = 4
    MaxBoots = 2
    MaxRetries = 2
    MaxCrashes = 0
    DiskErrors = FALSE
    FlushErrors = TRUE
INVARIANTS
    TrueMeansWritten
CHECK_DEADLOCK FALSE
