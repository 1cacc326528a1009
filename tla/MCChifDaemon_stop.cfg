SPECIFICATION FairSpec
CONSTANTS
    Script <- MCScript
    RomCommands <- MCRomCommands
    Handlers = {"rom", "smif", "health"}
    maxConsecutiveErrors = 10
    errorBackoffMaxDelay = 30
    MaxErrors = 0
    MaxWriteErrors = 0
PROPERTIES
    Stops
CHECK_DEADLOCK FALSE
