SPECIFICATION BothSpec
CONSTANTS
    CHUNK_SIZE = 2
    INT32_MAX = 20
    INT64_MAX = 31
    FLT_PRECISION = 4
    DBL_PRECISION = 32
    OutOfRange <- Indefinite
    ValidNames = {"server_port", "debug", "manycast_enabled", "manycast_address"}
    PortMod = 8
    Leftovers = {0, 1}
    CommandLines <- MCCommandLines
    Files <- MCFiles
INVARIANTS
    OptionPrecedence
    GroupsAsConfigured
PROPERTY
    OptionsParsed
CHECK_DEADLOCK FALSE
