SPECIFICATION TreeSpec
CONSTANTS
    CHUNK_SIZE = 2
    INT32_MAX = 7
    INT64_MAX = 31
    FLT_PRECISION = 4
    DBL_PRECISION = 8
    OutOfRange <- Indefinite
    ValidNames = {"a", "b", "c"}
    Programs <- MCPrograms
INVARIANTS
    IsTree
    ListFits
    PathFindsSetting
    AcceptedIsReadBack
    WaysOfAskingAgree
PROPERTIES
    HookHandedOver
    SetElemKeepsArray
