SPECIFICATION Spec
CONSTANTS
    Users = {"alice"}
    NoUser = ""
    Nothing = Nothing
    Locations = {"plain", "bye"}
    Config <- MCIdle
    Tokens = {k1}
    UsePost = FALSE
    GrantingExpire = 1
    Tabs = {t1, t2}
    MaxClock = 2
    MaxGrants = 2
SYMMETRY MCSymmetry
PROPERTIES
    EndedSessionsStayEnded
CHECK_DEADLOCK FALSE
