SPECIFICATION FairSpec
CONSTANTS
    MaxReq = 2
    Outstanding = 1
    NumDesc = 2
    QSize = 2
    WaitTries = 2
    HostSeqs = {0}
    Retries = FALSE
    NoiseLens = {}
    MaxCrashes = 0
    MaxResets = 0
PROPERTIES
    Notified
CHECK_DEADLOCK FALSE
