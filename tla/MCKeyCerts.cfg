SPECIFICATION Spec
CONSTANTS
    www = www
    domain = domain
    web = web
    admin = admin
    Servers = {s1, s2}
    Clients = {web, admin}
    Hosts = {www, domain}
    Parent <- MCParent
    Cert <- MCCert
    AccessList = {admin}
    KeymgtPeers = {web}
    Managed = {domain}
    Requests <- MCCertRequests
    Jobs = {j1, j2}
    NoFile = NoFile
    Short = Short
    MaxKeys = 1
SYMMETRY MCSymmetry
INVARIANTS
    CertsAgree
CHECK_DEADLOCK FALSE
