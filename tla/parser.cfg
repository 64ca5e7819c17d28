SPECIFICATION ParserSpec
CONSTANTS
    CHUNK_SIZE = 2
    INT32_MAX = 3
    INT64_MAX = 31
    FLT_PRECISION = 4
    DBL_PRECISION = 8
    OutOfRange <- Indefinite
    ValidNames = {"a", "b"}
    Inputs <- MCInputs
    YYINITDEPTH = 6
    YYMAXDEPTH = 20
INVARIANTS
    AcceptsTheGrammar
    WritesWhatWasRead
    StringsFreed
    StackGrowsWithNesting
    FirstErrorReported
PROPERTY
    ParseEnds
CHECK_DEADLOCK FALSE
