------------------------------- MODULE Access -------------------------------
(***************************************************************************)
(* What single sign-on promises to the owner of a protected location, told *)
(* without windows, cookies, requests or sessions: people type passwords   *)
(* and token codes, and pages are served to those who did so lately.       *)
(***************************************************************************)
EXTENDS Integers

CONSTANTS
    Users, NoUser,      \* who can be verified, and nobody
    Locations,
    Admits,             \* the users admitted to each location
    Quiet,              \* the locations that serve nobody, too
    WithToken,          \* the locations that want a token code
    Lasts, TokenLasts   \* how long a password, a code opens each location

VARIABLES
    now,
    typed,      \* who typed the right what when
    served      \* the pages under way

vars == <<now, typed, served>>

Init == now = 0 /\ typed = {} /\ served = {}

\* User u has typed the right thing of the kind "what" less than d ago.
Lately(u, what, d) ==
    \E x \in typed : x.user = u /\ x.what = what /\ x.at <= now /\ now < x.at + d

Entitled(l, u) ==
    \/ u = NoUser /\ l \in Quiet
    \/ /\ u \in Admits[l]
       /\ Lately(u, "password", Lasts[l])
       /\ l \in WithToken => Lately(u, "token", TokenLasts[l])

\* Both are typed into one form, by one user.
Type(u, things) ==
    /\ typed' = typed \cup {[user |-> u, what |-> w, at |-> now] : w \in things}
    /\ UNCHANGED <<now, served>>

Serve(l, u) ==
    /\ Entitled(l, u)
    /\ served' = served \cup {[loc |-> l, user |-> u, at |-> now]}
    /\ UNCHANGED <<now, typed>>

\* The page is on the screen, or lost.
Done(p) ==
    /\ served' = served \ {p}
    /\ UNCHANGED <<now, typed>>

Tick ==
    /\ now' = now + 1
    /\ UNCHANGED <<typed, served>>

Next ==
    \/ Tick
    \/ \E u \in Users, things \in SUBSET {"password", "token"} : Type(u, things)
    \/ \E l \in Locations, u \in Users \cup {NoUser} : Serve(l, u)
    \/ \E p \in served : Done(p)

Spec == Init /\ [][Next]_vars
=============================================================================
