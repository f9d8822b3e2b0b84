SPECIFICATION Spec
CONSTANTS
    Users = {"alice"}
    NoUser = ""
    Nothing = Nothing
    Locations = {"quiet", "plain", "strict", "token"}
    Config <- MCSites
    Tokens = {k1}
    UsePost = TRUE
    GrantingExpire = 1
    Tabs = {t1, t2}
    MaxClock = 2
    MaxGrants = 2
SYMMETRY MCSymmetry
INVARIANTS
    TypeOK
    ServedOnlyWhenGranted
    PromptLocationsNameUser
    ReauthLocationsReauthenticate
PROPERTIES
    IdleSessionsEnd
CHECK_DEADLOCK FALSE
