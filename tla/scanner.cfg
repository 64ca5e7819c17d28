SPECIFICATION ScannerSpec
CONSTANTS
    Inputs <- MCInputs
    YY_BUF_SIZE = 6
    YY_READ_BUF_SIZE = 8
    MAX_INCLUDE_DEPTH = 2
    STRING_BLOCK_SIZE = 2
    CHUNK_SIZE = 1
INVARIANTS
    ScansTheText
    LinesCounted
    WithinBounds
    IncludeStackSound
    EverythingReleased
    StringsBeginEmpty
PROPERTY
    ScanEnds
CHECK_DEADLOCK FALSE
