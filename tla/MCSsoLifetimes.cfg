SPECIFICATION Spec
CONSTANTS
    Users = {"alice"}
    NoUser = ""
    Nothing = Nothing
    Locations = {"strict", "token", "quiet"}
    Config <- MCDemands
    Tokens = {k1}
    UsePost = TRUE
    GrantingExpire = 1
    Tabs = {t1}
    LoginExpire = 3
    FormExpire = 1
    MinRideFree = 1
    RideFree = 1
    Token30 = 2
    BasicAlsoAccepts = 3
    ClearUsername = FALSE
    MaxClock = 5
    MaxGrants = 3
    MaxVerified = 2
INVARIANTS
    TypeOK
    PagesAreVerified
    FreshLogins
PROPERTIES
    AppSpec
    AccessSpec
CHECK_DEADLOCK FALSE
