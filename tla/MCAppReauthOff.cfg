SPECIFICATION Spec
CONSTANTS
    Users = {"alice"}
    NoUser = ""
    Nothing = Nothing
    Locations = {"off", "strict"}
    Config <- MCReauthOff
    Tokens = {k1}
    UsePost = FALSE
    GrantingExpire = 1
    Tabs = {t1, t2}
    MaxClock = 2
    MaxGrants = 2
SYMMETRY MCSymmetry
INVARIANTS
    ReauthLocationsReauthenticate
CHECK_DEADLOCK FALSE
