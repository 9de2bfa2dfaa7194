SPECIFICATION Spec
CONSTANTS
    Jobs = {j1}
    NoJob = NoJob
    Children = {opencode}
    Strays = {}
INVARIANT StopTearsDownWrapper
CHECK_DEADLOCK FALSE
