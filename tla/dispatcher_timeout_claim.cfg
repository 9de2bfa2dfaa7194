SPECIFICATION Spec
CONSTANTS
    Jobs = {j1}
    NoJob = NoJob
    Children = {opencode}
    Strays = {descendant}
PROPERTY TimeoutKillIsComplete
CHECK_DEADLOCK FALSE
