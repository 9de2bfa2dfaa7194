SPECIFICATION FairSpec
CONSTANTS
    Jobs = {j1, j2}
    NoJob = NoJob
    Children = {opencode}
    Strays = {descendant}
INVARIANTS
    TypeOK
    NoLostCall
    OneWrapper
    ResultAfterExit
    StopSettlesCallers
PROPERTIES
    NoLaunchAfterStop
    SequentialSpec
    CallsAreSettled
    StopTerminates
CHECK_DEADLOCK FALSE
