-------------------------- MODULE MCLoginSessions --------------------------
(* Instances of LoginSessions for TLC: what applications ask for.          *)
EXTENDS LoginSessions, TLC

MCPlain == PinitRequest

\* Who types just a password does so at a visit of his own (pinit), or here
\* where a recent login is demanded.
MCToken == [MCPlain EXCEPT !.creds = PBC_UWSECURID_CRED_ID]

\* Tokens, and an application that wants no login page.
MCMixed == {MCToken, [MCPlain EXCEPT !.quiet = TRUE]}

\* ... or applications that demand a recent login, and a less recent token.
MCRecent == {MCToken, [MCPlain EXCEPT !.session_reauth = 1], [MCToken EXCEPT !.token30 = TRUE]}

\* An application that wants a token, and no login page.
MCQuietToken == {[MCToken EXCEPT !.quiet = TRUE]}

MCSymmetry == Permutations(Tabs) \cup Permutations(Users)
=============================================================================
