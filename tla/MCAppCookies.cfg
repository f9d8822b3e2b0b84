SPECIFICATION Spec
CONSTANTS
    Clear = Clear
    PBC_TRANSCRED_MAX_COOKIES = 2
    max_cgi_count = 4
    MaxPieces = 3
    MaxVisits = 6
INVARIANTS
    GrantsAreOwn
    CredentialsAreOwn
    OneOfEachName
CHECK_DEADLOCK FALSE
