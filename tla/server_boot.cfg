SPECIFICATION FairSpec
CONSTANTS
    Pids = {1, 2, 3}
    NoPid = 0
    Starters = {boot, exec}
    Boot = boot
INVARIANTS
    TypeOK
    PidfileNamesServer
    EntryWatchesServer
PROPERTIES
    StartEnds
    Recovers
CHECK_DEADLOCK FALSE
