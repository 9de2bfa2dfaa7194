SPECIFICATION FairSpec
CONSTANTS
    Deliveries = {d1, d2}
    Polls = {p1}
    Issues = {i1, i2}
    Worktrees = {w1, w2}
    i1 = i1
    i2 = i2
    w1 = w1
    w2 = w2
    WorktreeOf <- MCWorktreeOf
    NoIssue = NoIssue
    NoRequest = NoRequest
INVARIANTS
    TypeOK
    GitAlone
    DispatchNeedsClone
    PollNeverRefused
PROPERTIES
    RequestsEnd
    ShutdownCompletes
CHECK_DEADLOCK FALSE
