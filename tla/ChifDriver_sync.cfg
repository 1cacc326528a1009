SPECIFICATION Spec
CONSTANTS
    MaxReq = 3
    Outstanding = 1
    NumDesc = 2
    QSize = 2
    WaitTries = 2
    HostSeqs = {0}
    Retries = FALSE
    NoiseLens = {"over"}
    MaxCrashes = 1
    MaxResets = 0
INVARIANTS
    TypeOK
    
    
    ReplyMatches

    
CHECK_DEADLOCK FALSE
