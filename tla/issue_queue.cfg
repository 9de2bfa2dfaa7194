SPECIFICATION FairSpec
CONSTANTS
    Sentinels = {s1, s2}
    Issues = {1, 2}
    Unassignable = {2}
    Logins = {b1}
    s1 = s1
    s2 = s2
    b1 = b1
    b2 = b2
    LoginOf <- OneLocks
    NoLogin = NoLogin
    NoIssue = 0
    PageSize = 2
    MaxQueuings = 2
    MaxMishaps = 1
INVARIANTS
    TypeOK
    SuccessIsEarned
    NeverForgotten
    InProgressHasWorker
PROPERTIES
    BoardSpec
    QueueMoves
    SigTermEnds
CHECK_DEADLOCK FALSE
