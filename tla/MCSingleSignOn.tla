--------------------------- MODULE MCSingleSignOn ---------------------------
(* Instances of SingleSignOn for TLC.                                      *)
EXTENDS SingleSignOn, TLC

MCPlain ==
    [ srv |-> "s1", appid |-> "a", sname |-> "a", creds |-> PBC_BASIC_CRED_ID,
      session_reauth |-> -1, noprompt |-> FALSE, hard_exp |-> 1, inact_exp |-> -1,
      end_session |-> "off", accept |-> Users \cup {NoUser} ]

\* An application on two servers, which on one logs the user out everywhere,
\* and another application.
MCServers == "plain" :> MCPlain
    @@ "there" :> [MCPlain EXCEPT !.srv = "s2"]
    @@ "other" :> [MCPlain EXCEPT !.appid = "b", !.sname = "b"]
    @@ "bye" :> [MCPlain EXCEPT !.end_session = "clearLogin"]

\* A location that demands a recent login, one that wants a token, and one
\* that wants no login page.
MCDemands == "strict" :> [MCPlain EXCEPT !.session_reauth = 1]
    @@ "token" :> [MCPlain EXCEPT !.creds = PBC_UWSECURID_CRED_ID]
    @@ "quiet" :> [MCPlain EXCEPT !.noprompt = TRUE]

MCSymmetry == Permutations(Tabs) \cup Permutations(Tokens)
=============================================================================
