SPECIFICATION Spec
CONSTANTS
    Users = {alice, bob}
    NoUser = NoUser
    Nothing = Nothing
    LoginExpire = 3
    FormExpire = 1
    MinRideFree = 1
    RideFree = 1
    Token30 = 2
    BasicAlsoAccepts = 0
    Tabs = {t1, t2}
    Requests <- MCQuietToken
    CgiTime = 1
    ClearUsername = FALSE
    MaxClock = 3
    MaxVerified = 2
SYMMETRY MCSymmetry
INVARIANTS
    QuietShowsNoForm
CHECK_DEADLOCK FALSE
