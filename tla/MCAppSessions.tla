--------------------------- MODULE MCAppSessions ---------------------------
(* Instances of AppSessions for TLC: what is protected, and how.           *)
EXTENDS AppSessions, TLC

\* A location of application "a" on server "s1" with everything at default,
\* but for lifetimes short enough to run out: no idle time, two instants.
MCPlain ==
    [ srv |-> "s1", appid |-> "a", sname |-> "a", creds |-> PBC_BASIC_CRED_ID,
      session_reauth |-> -1, noprompt |-> FALSE, hard_exp |-> 2, inact_exp |-> -1,
      end_session |-> "off", accept |-> Users \cup {NoUser} ]

\* A location with an idle timer, and one that ends its sessions.
MCIdle == "plain" :> [MCPlain EXCEPT !.inact_exp = 1]
    @@ "bye" :> [MCPlain EXCEPT !.end_session = "on"]

\* Locations that share sessions but not what they demand of a login, nor
\* how long a session may live or be idle, nor who may enter.
MCSites == "quiet" :> [MCPlain EXCEPT !.noprompt = TRUE, !.hard_exp = 1]
    @@ "plain" :> [MCPlain EXCEPT !.hard_exp = 3, !.inact_exp = 2]
    @@ "strict" :> [MCPlain EXCEPT !.session_reauth = 1, !.hard_exp = 1, !.accept = {"alice"}]
    @@ "token" :> [MCPlain EXCEPT !.creds = PBC_UWSECURID_CRED_ID, !.hard_exp = 1]

\* One location says "PubcookieSessionCauseReAuth off", the other says "on".
MCReauthOff == "off" :> [MCPlain EXCEPT !.session_reauth = 0]
    @@ "strict" :> [MCPlain EXCEPT !.session_reauth = 1]

\* The ways to end a session, one of an application with an idle timer that
\* demands recent logins.
MCLogout == "plain" :> [MCPlain EXCEPT !.inact_exp = 1, !.session_reauth = 5]
    @@ "bye" :> [MCPlain EXCEPT !.end_session = "on"]
    @@ "out" :> [MCPlain EXCEPT !.end_session = "redirect"]

\* Windows and tokens are interchangeable.
MCSymmetry == Permutations(Tabs) \cup Permutations(Tokens)
=============================================================================
