SPECIFICATION FairSpec
CONSTANTS
    Lines <- MCLines
    REPLUG_DEFAULT_CYCLE_MS = 4
    REPLUG_MIN_CYCLE_MS = 3
    REPLUG_MAX_CYCLE_MS = 5
    REPLUG_ON_SETTLE_MS = 2
    REPLUG_POWER_SETTLE_MS = 3
    REPLUG_DELAY_SLICE_MS = 2
    SEND_MS = 1
INVARIANTS
    TypeOK
    OutputsAgree
    PowerImpliesData
    FaultReaction
PROPERTIES
    PowerAfterData
    CycleOffTime
    ImplementsDutSwitch
    EveryCommandEnds
    LastingFaultCutsPower
