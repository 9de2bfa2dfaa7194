SPECIFICATION Spec
CONSTANTS
    IdleTimeout = 3
    ReadOnlyGrace = 4
    HardCeiling = 6
INVARIANT TotalSilenceBeforeKill
CHECK_DEADLOCK FALSE
