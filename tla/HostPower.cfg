SPECIFICATION HostSpec
CONSTANTS
    Debounce = 1
    MaxEdges = 3
    MaxPerst = 1
    MaxRestarts = 1
INVARIANTS
    HostTypeOK
    CanPowerUp
    
    BootsPrepared
PROPERTIES
    Debounced
    TruthTold
CHECK_DEADLOCK FALSE
