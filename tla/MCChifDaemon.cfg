SPECIFICATION FairSpec
CONSTANTS
    Script <- MCScript
    RomCommands <- MCRomCommands
    Handlers = {"rom", "smif", "health"}
    maxConsecutiveErrors = 2
    errorBackoffMaxDelay = 3
    MaxErrors = 35
    MaxWriteErrors = 1
INVARIANTS
    TypeOK
    AnsweredInOrder
    NoBusyLoop
PROPERTIES
    StopsUnlessMissed
CHECK_DEADLOCK FALSE
