SPECIFICATION Spec
CONSTANTS
    www = www
    domain = domain
    web = web
    admin = admin
    Servers = {s1, s2}
    Clients = {web, admin}
    Hosts = {www, domain}
    Parent <- MCParent
    Cert <- MCCert
    AccessList = {admin}
    KeymgtPeers = {web}
    Managed = {domain}
    Requests <- MCRequests
    Jobs = {j1, j2}
    NoFile = NoFile
    Short = Short
    MaxKeys = 2
SYMMETRY MCSymmetry
INVARIANTS
    TypeOK
    OnlyPermittedHosts
    KeysAgree
    ServersFirst
CHECK_DEADLOCK FALSE
