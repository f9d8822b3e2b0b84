SPECIFICATION FairSpec
CONSTANTS
    Users = {"alice"}
    NoUser = ""
    Nothing = Nothing
    Locations = {"plain", "bye", "out"}
    Config <- MCLogout
    Tokens = {k1, k2}
    UsePost = FALSE
    GrantingExpire = 1
    Tabs = {t1}
    MaxClock = 2
    MaxGrants = 40
PROPERTIES
    EndedSessionsStayEnded
    NavigationEnds
CHECK_DEADLOCK FALSE
