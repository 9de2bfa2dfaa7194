SPECIFICATION FairSpec
CONSTANTS
    IdleTimeout = 3
    ReadOnlyGrace = 4
    HardCeiling = 6
INVARIANTS
    TypeOK
    NoFalseSuccess
    CleanExit
    WritesDeferIdleKill
    StallIsBounded
PROPERTY
    Terminates
CHECK_DEADLOCK FALSE
