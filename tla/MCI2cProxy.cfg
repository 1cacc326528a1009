SPECIFICATION ProxySpec
CONSTANTS
    v1 = v1
    v2 = v2
    Wrap <- MCWrap
    Images <- MCImages
    Channels <- MCChannels
    I2cRequests <- MCI2cRequests
    Values <- MCValues
INVARIANTS
    ProxyTypeOK
    FindsFile
    TableUnpacked
    MapFaithful
    RightBus
    NothingStale
PROPERTIES
    MovesOn
    
    Serves
