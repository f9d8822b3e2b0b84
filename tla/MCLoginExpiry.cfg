SPECIFICATION Spec
CONSTANTS
    Users = {alice}
    NoUser = NoUser
    Nothing = Nothing
    LoginExpire = 2
    FormExpire = 1
    MinRideFree = 1
    RideFree = 1
    Token30 = 2
    BasicAlsoAccepts = 3
    Tabs = {t1, t2}
    Requests <- MCRecent
    CgiTime = 1
    ClearUsername = FALSE
    MaxClock = 3
    MaxVerified = 2
SYMMETRY MCSymmetry
INVARIANTS
    ReauthIsRecent
    SignOnExpires
PROPERTIES
    LoggedOutStaysOut
CHECK_DEADLOCK FALSE
