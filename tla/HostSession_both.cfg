SPECIFICATION FairSpec
CONSTANTS
    Tools <- BothTools
    Timeouts <- MCTimeouts
    Commands <- MCCommands
    NoDelay <- MCNoDelay
    LongestCycle = 60
    DEFAULT_CYCLE_DELAY = 4
    SETTLE = 1
    NATIVE_TIMEOUT = 2
    CYCLE_MARGIN = 4
    TX_PATIENCE = 1
    LineMayFail = TRUE
    MaxSessions = 3
INVARIANTS
    TypeOK
    AnswersInOrder
PROPERTIES
    OwnAnswer
    EveryCommandReported
    SessionEnds
CHECK_DEADLOCK FALSE
