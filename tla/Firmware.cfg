SPECIFICATION FirmwareSpec
CONSTANTS
    Lines <- MCLines
    Streams <- MCStreams
    Spelling <- MCSpelling
    REPLUG_LINE_CAPACITY = 7
    MaxPacket = 4
    MaxText = 7
    REPLUG_DEFAULT_CYCLE_MS = 2
    REPLUG_MIN_CYCLE_MS = 1
    REPLUG_MAX_CYCLE_MS = 3
    REPLUG_ON_SETTLE_MS = 1
    REPLUG_POWER_SETTLE_MS = 1
    REPLUG_DELAY_SLICE_MS = 1
    SEND_MS = 0
INVARIANTS
    LinesInOrder
    PowerAsAsked
PROPERTIES
    AnswerTrueWhenFetched
    EveryLineAnswered
