SPECIFICATION Spec
CONSTANTS
    Sentinels = {s1, s2}
    Issues = {1, 2}
    Unassignable = {2}
    Logins = {b1, b2}
    s1 = s1
    s2 = s2
    b1 = b1
    b2 = b2
    LoginOf <- BothLock
    NoLogin = NoLogin
    NoIssue = 0
    PageSize = 2
    MaxQueuings = 1
    MaxMishaps = 0
INVARIANTS
    NoDoubleClaim
CHECK_DEADLOCK FALSE
