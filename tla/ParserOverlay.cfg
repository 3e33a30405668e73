SPECIFICATION Spec
CONSTANTS
    Lines <- MCLines
    Spelling <- MCSpelling
    Counts = {2, 8}
    MaxInterrupts = 3
    REPLUG_DEFAULT_CYCLE_MS = 2000
    REPLUG_MIN_CYCLE_MS = 100
    REPLUG_MAX_CYCLE_MS = 30000
INVARIANTS
    OnlyDelayWrong
    FoundAsAsked
