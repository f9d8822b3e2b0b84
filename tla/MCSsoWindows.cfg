SPECIFICATION Spec
CONSTANTS
    Users = {"alice"}
    NoUser = ""
    Nothing = Nothing
    Locations = {"plain", "there", "other", "bye"}
    Config <- MCServers
    Tokens = {k1}
    UsePost = FALSE
    GrantingExpire = 1
    Tabs = {t1, t2}
    LoginExpire = 1
    FormExpire = 1
    MinRideFree = 1
    RideFree = 1
    Token30 = 2
    BasicAlsoAccepts = 3
    ClearUsername = FALSE
    MaxClock = 0
    MaxGrants = 2
    MaxVerified = 1
SYMMETRY MCSymmetry
INVARIANTS
    ServedOnlyWhenGranted
PROPERTIES
    StaysLoggedOut
CHECK_DEADLOCK FALSE
