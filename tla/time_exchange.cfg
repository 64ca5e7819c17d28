SPECIFICATION Spec
CONSTANTS
    Micros = 10
    FracMod = 16
    SecMod = 16
    EpochDelta = 11
    Skew = 2
    Instants <- MCInstants
INVARIANTS
    TypeOK
    ErrorBoundSound
    RoundTrip
    StampsDistinct
CHECK_DEADLOCK FALSE
