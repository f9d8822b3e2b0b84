------------------------------ MODULE Cookies ------------------------------
(***************************************************************************)
(* What the parties of a pubcookie installation tell each other: the       *)
(* cookies and the granting request, the places (slots) where a browser    *)
(* keeps them, and the Set-Cookie headers by which a server changes them.  *)
(* Encryption and signatures are not spelled out: a cookie is a record,    *)
(* and the party that cannot unbundle it never looks inside.               *)
(***************************************************************************)
EXTENDS Credentials

CONSTANTS
    Users,          \* user names a verifier can authenticate
    NoUser,         \* the empty user name of a quiet login
    Locations,      \* the protected locations of all application servers
    Config,         \* the pubcookie_dir_rec in force at each location
    Tokens,         \* pre-session tokens
    UsePost,        \* PubcookieLoginMethod: POST if TRUE, GET if FALSE
    Nothing,        \* no cookie
    GrantingExpire  \* PBC_GRANTING_EXPIRE

(* The pre_sess_token field of a session cookie only says whether the      *)
(* location it was made at had a PubcookieSessionCauseReAuth directive.    *)
NoReauthMark == 23
ReauthMark   == 24

\* The directives of a location that decide what happens to a request.
DirConfig ==
    [ srv : STRING, appid : STRING, sname : STRING, creds : CredIds,
      session_reauth : Int, noprompt : BOOLEAN, hard_exp : Nat,
      inact_exp : Nat \cup {-1}, end_session : {"off", "on", "redirect", "clearLogin"},
      accept : SUBSET (Users \cup {NoUser}) ]

ASSUME ConfigAssumption == Config \in [Locations -> DirConfig]
ASSUME UserAssumption == NoUser \notin Users
ASSUME PostAssumption == UsePost \in BOOLEAN
ASSUME ExpireAssumption == GrantingExpire \in Nat

Servers == {Config[l].srv : l \in Locations}
AppIds  == {Config[l].appid : l \in Locations}
Creds   == {Config[l].creds : l \in Locations}

(***************************************************************************)
(* Cookie contents.                                                        *)
(***************************************************************************)
\* What one application server asks of the login server.
GrantingRequest ==
    [ srv : Servers, appid : AppIds, creds : Creds, uri : Locations,
      session_reauth : Int, quiet : BOOLEAN, tok : Tokens ]

\* What the login server answers; reauth is the fourth byte of "version".
GrantingCookie ==
    [ user : Users \cup {NoUser}, srv : Servers, appid : AppIds, creds : Creds,
      tok : Tokens, reauth : BOOLEAN, create_ts : Time ]

SessionCookie ==
    [ user : Users \cup {NoUser}, srv : Servers, appid : AppIds, creds : Creds,
      tok : {NoReauthMark, ReauthMark}, create_ts : Time, last_ts : Time ]

(***************************************************************************)
(* Where the browser keeps them.  With the GET method the granting cookie  *)
(* and the granting request are scoped to the enterprise domain, so that   *)
(* every application server and every window shares the same one.          *)
(***************************************************************************)
GSlot(srv)       == <<"pubcookie_g", IF UsePost THEN srv ELSE "domain">>
PreSlot(srv)     == <<"pubcookie_pre_s", srv>>
ReqSlot          == <<"pubcookie_g_req", "domain">>
SSlot(srv, name) == <<"pubcookie_s", srv, name>>

GSlots   == {GSlot(s) : s \in Servers}
PreSlots == {PreSlot(s) : s \in Servers}
SSlots   == {SSlot(Config[l].srv, Config[l].sname) : l \in Locations}
Slots    == GSlots \cup PreSlots \cup {ReqSlot} \cup SSlots

(***************************************************************************)
(* Set-Cookie headers: a function from the slots a response changes to     *)
(* their new contents.  The browser applies the headers in their order, so *)
(* a later header for a slot replaces an earlier one.                      *)
(***************************************************************************)
NoHeaders == [k \in {} |-> Nothing]
SetCookie(headers, slot, value) ==
    [k \in DOMAIN headers \cup {slot} |-> IF k = slot THEN value ELSE headers[k]]
ClearCookies(headers, cleared) ==
    [k \in DOMAIN headers \cup cleared |-> IF k \in cleared THEN Nothing ELSE headers[k]]
ApplyHeaders(jar, headers) ==
    [k \in DOMAIN jar |-> IF k \in DOMAIN headers THEN headers[k] ELSE jar[k]]

\* (Fault: off by one.)
check_exp_late(fromc, exp, now) == fromc + exp >= now

(* libpbc_check_exp: a stamp of age exp has already expired.               *)
check_exp(fromc, exp, now) == fromc + exp > now
=============================================================================
