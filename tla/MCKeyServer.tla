---------------------------- MODULE MCKeyServer ----------------------------
(* Instances of KeyServer for TLC: a web server, whose host belongs to a   *)
(* domain, and an administrator, who permits the host.  The web server is  *)
(* on keymgt_peers, too, and has a key of the domain from elsewhere.       *)
EXTENDS KeyServer, TLC

CONSTANTS www, domain, web, admin

MCParent == www :> domain @@ domain :> domain
MCCert == web :> {www} @@ admin :> {}

Ask(op, c, h) == [op |-> op, peer |-> c, host |-> h]
MCRequests ==
    { Ask("permit", admin, www), Ask("genkey", web, www), Ask("fetch", web, www),
      Ask("put", web, www), Ask("put", web, domain) }
MCCertRequests == {Ask("setpkey", admin, www)}

MCSymmetry == Permutations(Servers) \cup Permutations(Jobs)
=============================================================================
