SPECIFICATION Spec
CONSTANTS
    Users = {alice, bob}
    NoUser = NoUser
    Nothing = Nothing
    LoginExpire = 1
    FormExpire = 1
    MinRideFree = 1
    RideFree = 1
    Token30 = 2
    BasicAlsoAccepts = 3
    Tabs = {t1, t2}
    Requests <- MCMixed
    CgiTime = 1
    ClearUsername = FALSE
    MaxClock = 2
    MaxVerified = 2
SYMMETRY MCSymmetry
INVARIANTS
    TypeOK
    LoginsAreVerified
CHECK_DEADLOCK FALSE
