SPECIFICATION FairSpec
CONSTANTS
    MaxReq = 2
    Outstanding = 1
    NumDesc = 1
    QSize = 1
    WaitTries = 1
    HostSeqs = {0}
    Retries = TRUE
    NoiseLens = {}
    MaxCrashes = 1
    MaxResets = 1
INVARIANTS
    SleeperRegistered
PROPERTIES
    EntriesReturned
    Answered
CHECK_DEADLOCK FALSE
