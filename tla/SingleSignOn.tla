---------------------------- MODULE SingleSignOn ----------------------------
(***************************************************************************)
(* Single sign-on: the application servers of AppSessions with the login   *)
(* server of IndexCgi, which grants nothing but what its flavors and the   *)
(* login cookie allow, in one browser.  A run of the login script is one   *)
(* step; its login cookie travels with the answer.  So no login cookie     *)
(* expires during a run: what one that does is worth is said by            *)
(* SignOnExpires of LoginSessions, and not here.                           *)
(***************************************************************************)
EXTENDS ModPubcookie, FiniteSets

CONSTANTS
    Tabs,                   \* windows of the browser
    LoginExpire, FormExpire, MinRideFree, RideFree, Token30, BasicAlsoAccepts,
    ClearUsername,          \* clear_username_at_logout
    MaxClock, MaxGrants,    \* bounds, as in AppSessions
    MaxVerified             \* bound: passwords and token codes ever verified

VARIABLES
    clock, jar, tab, granted, active, ending, ended,    \* as in AppSessions
    cookie,     \* the login cookie in the browser, or Nothing
    sent,       \* the login cookie in the answer under way to each window, if any
    form_ts,    \* when the form a window shows was printed
    verified,   \* history: every successful verification
    gone        \* history: slots without a session when the sign-on ended, nobody
                \* verified since

appvars   == <<clock, jar, tab, granted, active, ending, ended>>
loginvars == <<cookie, sent, form_ts, verified, gone>>
vars      == <<appvars, loginvars>>

App == INSTANCE AppSessionsProofs  \* AppSessions and its theorems
Cgi == INSTANCE IndexCgi

ASSUME FlavorAssumption ==
    \A l \in Locations : Config[l].creds \in {PBC_BASIC_CRED_ID, PBC_UWSECURID_CRED_ID}
ASSUME DurationAssumption == LoginExpire \in Nat /\ MinRideFree \in Nat \ {0}
ASSUME NothingAssumption == Nothing \notin GrantingRequest \cup Cgi!LoginCookie
ASSUME BoundAssumption ==
    MaxClock \in Nat /\ MaxGrants \in Nat /\ MaxVerified \in Nat /\ ClearUsername \in BOOLEAN

Init ==
    /\ App!Init
    /\ cookie = Nothing
    /\ sent = [t \in Tabs |-> {}]
    /\ form_ts = [t \in Tabs |-> 0]
    /\ verified = {}
    /\ gone = {}

(***************************************************************************)
(* The script, cgiMain: request q, as read from the granting request or    *)
(* from the form in window t, and the visit v it makes of it.              *)
(***************************************************************************)
\* get_query: what the flavor sees of request q.
Ask(q) ==
    [ req |-> [creds |-> q.creds, session_reauth |-> q.session_reauth,
               quiet |-> q.quiet, token30 |-> FALSE],
      pinit |-> FALSE, reply |-> FALSE, form_ts |-> 0,
      user |-> NoUser, pass |-> NoUser, pass2 |-> NoUser ]

\* ... with what the user typed into the form; only uwsecurid asks for a code.
Typed(t, u, pw, tk) ==
    [Ask(tab[t].greq) EXCEPT
        !.reply = TRUE, !.form_ts = form_ts[t], !.user = u, !.pass = pw,
        !.pass2 = IF tab[t].greq.creds = PBC_BASIC_CRED_ID THEN NoUser ELSE tk]

Outcome(v, o) == Cgi!vector_request(v, cookie, clock) = o
VisitUser(v)  == Cgi!LoginUser(v, cookie, clock)

Verification(v, what) == [user |-> VisitUser(v), what |-> what, at |-> clock]
Verify(v) ==
    /\ verified' = verified
          \cup {x \in {Verification(v, "password")} : Cgi!PasswordChecked(v, cookie, clock)}
          \cup {x \in {Verification(v, "token")} : Cgi!TokenChecked(v, cookie, clock)}
    /\ Cardinality(verified') <= MaxVerified

ShowForm(t, q) ==
    /\ tab' = [tab EXCEPT ![t] = App!Form(q)]
    /\ form_ts' = [form_ts EXCEPT ![t] = clock]

print_login_page(t, q, v) ==
    /\ Outcome(v, "page")
    /\ Verify(v)
    /\ ShowForm(t, q)
    /\ UNCHANGED <<clock, jar, granted, active, ending, ended, cookie, sent, gone>>

\* set_l_cookie and print_redirect_page, for user u and login record c, in
\* the second in which check_l_cookie read the clock.
Redirect(t, q, u, c) ==
    LET g == App!Grant(q, u) IN
    /\ granted' = granted \cup {g}
    /\ Cardinality(granted') <= MaxGrants
    /\ tab' = [tab EXCEPT ![t] =
          IF UsePost THEN App!ToReply(g, q.uri)
          ELSE App!Waiting(SetCookie(ClearCookies(NoHeaders, {ReqSlot}), GSlot(q.srv), g),
                           App!GoTo(q.uri))]
    /\ sent' = [sent EXCEPT ![t] =
          IF u = NoUser THEN {} ELSE {Cgi!set_l_cookie(u, q.creds, c, clock)}]
    /\ form_ts' = [form_ts EXCEPT ![t] = 0]
    /\ UNCHANGED <<clock, jar, active, ending, ended, cookie>>

LoginOK(t, q, v) ==
    /\ Outcome(v, "login")
    /\ Verify(v)
    /\ Redirect(t, q, VisitUser(v), Cgi!Renewed(v, cookie, clock))
    /\ gone' = {}

RideOK(t, q, v) ==
    /\ Outcome(v, "ride")
    /\ Redirect(t, q, VisitUser(v), cookie)
    /\ UNCHANGED <<verified, gone>>

QuietOK(t, q, v) ==
    /\ Outcome(v, "quiet")
    /\ Redirect(t, q, NoUser, cookie)
    /\ UNCHANGED <<verified, gone>>

Script(t, q, v) ==
    print_login_page(t, q, v) \/ LoginOK(t, q, v) \/ RideOK(t, q, v) \/ QuietOK(t, q, v)

Visit(t) ==
    /\ tab[t].pc = "login" /\ App!Brought(t) # Nothing
    /\ Script(t, App!Brought(t), Ask(App!Brought(t)))

Reply(t) ==
    /\ tab[t].pc = "form"
    /\ \E u \in Users, pw, tk \in Users \cup {NoUser} :
          Script(t, tab[t].greq, Typed(t, u, pw, tk))

\* logout action CLEAR_L rather than NOTHING
ClearsLogin(l) == Config[l].end_session = "clearLogin"

logout(t) ==
    /\ tab[t].pc = "logout"
    /\ App!LoginLogout(t)
    /\ sent' = [sent EXCEPT ![t] =
          IF ~ClearsLogin(tab[t].loc) THEN {}
          ELSE IF ClearUsername THEN {Nothing}
          ELSE {Cgi!expire_login_cookie(IF cookie = Nothing THEN NoUser ELSE cookie.user, clock)}]
    /\ UNCHANGED <<cookie, form_ts, verified, gone>>

(***************************************************************************)
(* The application servers, the browser and the time.                      *)
(***************************************************************************)
Request(t) ==
    /\ App!Request(t)
    /\ UNCHANGED loginvars

Status(t) ==
    /\ App!LoginStatus(t)
    /\ UNCHANGED loginvars

login_reply_handler(t) ==
    /\ sent[t] = {}
    /\ App!login_reply_handler(t)
    /\ UNCHANGED loginvars

Browse(t, l) ==
    /\ sent[t] = {}
    /\ App!Browse(t, l)
    /\ form_ts' = [form_ts EXCEPT ![t] = 0]
    /\ UNCHANGED <<cookie, sent, verified, gone>>

BrowseLogin(t) ==
    /\ sent[t] = {}
    /\ App!BrowseLogin(t)
    /\ form_ts' = [form_ts EXCEPT ![t] = 0]
    /\ UNCHANGED <<cookie, sent, verified, gone>>

\* The login cookie of the answer to window t, if it has one.
Arrives(t) ==
    /\ cookie' = IF sent[t] = {} THEN cookie ELSE CHOOSE c \in sent[t] : TRUE
    /\ sent' = [sent EXCEPT ![t] = {}]
    /\ UNCHANGED <<form_ts, verified>>

Receive(t) ==
    /\ App!Receive(t)
    /\ Arrives(t)
    /\ UNCHANGED gone

Lose(t) ==
    /\ App!Lose(t)
    /\ sent' = [sent EXCEPT ![t] = {}]
    /\ UNCHANGED <<cookie, form_ts, verified, gone>>

\* No login is under way in a window other than t, nor granted and not used.
NothingLeft(t) ==
    /\ \A x \in Tabs \ {t} : tab[x].pc = "idle" /\ sent[x] = {}
    /\ \A k \in GSlots : jar[k] = Nothing

\* A page of the login server arrives (if it leaves the window idle, after a
\* logout), or does not.
ReceivePage(t) ==
    /\ tab[t].pc # "wait" /\ sent[t] # {}
    /\ Arrives(t)
    /\ gone' = IF tab[t].pc = "idle" /\ NothingLeft(t)
               THEN gone \cup {k \in App!SSlots : jar[k] = Nothing}
               ELSE gone
    /\ UNCHANGED appvars

LosePage(t) ==
    /\ tab[t].pc = "idle" /\ sent[t] # {}
    /\ sent' = [sent EXCEPT ![t] = {}]
    /\ UNCHANGED <<appvars, cookie, form_ts, verified, gone>>

Tick == App!Tick /\ UNCHANGED loginvars

Next ==
    \/ Tick
    \/ \E t \in Tabs :
          \/ Request(t)
          \/ Visit(t) \/ Reply(t) \/ Status(t) \/ logout(t)
          \/ login_reply_handler(t)
          \/ Receive(t) \/ Lose(t) \/ ReceivePage(t) \/ LosePage(t)
          \/ BrowseLogin(t)
          \/ \E l \in Locations : Browse(t, l)

Spec == Init /\ [][Next]_vars

(***************************************************************************)
(* Properties.                                                             *)
(***************************************************************************)
\* The login cookie that is in the browser, and those on their way to it.
LoginCookies == ({cookie} \cup UNION {sent[t] : t \in Tabs}) \ {Nothing}

\* What the two servers keep in the browser is well formed.
TypeOK ==
    /\ App!TypeOK
    /\ LoginCookies \subseteq Cgi!LoginCookie
    /\ \A t \in Tabs : Cardinality(sent[t]) <= 1 /\ form_ts[t] \in 0 .. clock
    /\ verified \subseteq [user : Users, what : {"password", "token"}, at : 0 .. clock]
    /\ gone \subseteq App!SSlots

\* The login server grants what the applications expect of it, and nothing
\* else: only an answer to the request the visit brought, for a user, or for
\* nobody where that was asked for (AppSessions, which knows no login cookie).
AppSpec == App!Spec

\* A page is served only for a user the login server has granted to this
\* application on this server, however the windows' logins are entangled.
ServedOnlyWhenGranted == App!ServedOnlyWhenGranted

\* The page p rests on verification x, which is as old as age, a granting
\* cookie and a session allow.
RestsOn(p, x, age) ==
    /\ x.user = p.user /\ x.at <= p.at
    /\ p.at < x.at + age + GrantingExpire + Config[p.loc].hard_exp

\* A page is served for a user only if he typed his password no longer ago
\* than a sign-on, a granting cookie and a session last together, and a token
\* code no longer ago than its grace if the location wants one: whatever
\* windows, login cookies and sessions the page was reached by, provided no
\* login cookie expires between check_l_cookie and set_l_cookie in one run.
PagesAreVerified ==
    \A p \in App!PagesServed : p.user # NoUser =>
        /\ \E x \in verified : x.what = "password" /\ RestsOn(p, x, LoginExpire)
        /\ Config[p.loc].creds = PBC_UWSECURID_CRED_ID =>
              \E x \in verified : x.what = "token" /\ RestsOn(p, x, MinRideFree)

\* What a location demands of a login holds of every page it serves: its
\* user was verified no longer before the session began than the grace, if
\* all locations that demand a recent login leave the same and none switches
\* the demand off (it goes through request, flavor, granting cookie and
\* session cookie as one mark).
GraceOf(l) == Cgi!Grace(Config[l].session_reauth)
FreshLogins ==
    \A p \in App!PagesServed :
        /\ p.user # NoUser /\ Config[p.loc].creds = PBC_BASIC_CRED_ID
        /\ Config[p.loc].session_reauth > 0
        => \E x \in verified : RestsOn(p, x, GraceOf(p.loc))

\* This step answers window t's request for location l with the page.
ServesPage(t, l) ==
    /\ tab[t] = App!GoTo(l) /\ ~EndsSession(Config[l])
    /\ tab'[t].pc = "wait" /\ tab'[t].next.pc = "page"

\* After a logout from the login server that no other window raced, the
\* applications that had no session then (the one logged out from, and those
\* not visited) serve no user a page until somebody has been verified: not
\* even with the login cookie that keeps the user's name, nor with a request,
\* token or form the logout has left in the browser.
StaysLoggedOut ==
    [][\A t \in Tabs, l \in Locations :
          ServesPage(t, l) /\ tab'[t].next.user # NoUser => App!SessionSlot(l) \notin gone]_vars

\* Who is shown what, and why: all that windows, redirects, cookies and their
\* lifetimes amount to is that pages are served to users the location admits,
\* who typed password and token code lately enough, and to nobody only where
\* that is wanted.  (Lately enough on the same proviso as PagesAreVerified.)
Acc == INSTANCE Access WITH
    now        <- clock,
    typed      <- verified,
    served     <- {[loc |-> p.loc, user |-> p.user, at |-> p.at] : p \in App!PagesServed},
    Admits     <- [l \in Locations |-> Config[l].accept \cap Users],
    Quiet      <- {l \in Locations : Config[l].noprompt},
    WithToken  <- {l \in Locations : Config[l].creds = PBC_UWSECURID_CRED_ID},
    Lasts      <- [l \in Locations |-> LoginExpire + GrantingExpire + Config[l].hard_exp],
    TokenLasts <- [l \in Locations |-> MinRideFree + GrantingExpire + Config[l].hard_exp]

AccessSpec == Acc!Spec
=============================================================================
