SPECIFICATION Spec
CONSTANTS
    Bytes <- MCBytes
    REPLUG_LINE_CAPACITY = 6
    MaxText = 6
    REPLUG_MAX_ARGS = 2
INVARIANTS
    TypeOK
    LineIntact
    WordsRight
    NumbersRight
