--------------------------- MODULE LoginSessions ---------------------------
(***************************************************************************)
(* The single sign-on session: one browser with several windows at the     *)
(* login server, which keeps nothing itself; the login cookie is its only  *)
(* memory.  A run of the script reads the cookie and the clock when it     *)
(* decides what to do, and the clock again when it writes its cookies, up  *)
(* to CgiTime later.  Answers reach the browser in any order, or never.    *)
(***************************************************************************)
EXTENDS IndexCgi, FiniteSets

CONSTANTS
    Tabs,           \* windows of the browser
    Requests,       \* what applications ask for, a subset of LoginRequest
    CgiTime,        \* the longest a run of the script goes on
    ClearUsername,  \* clear_username_at_logout
    MaxClock,       \* bound: the last instant of a behaviour
    MaxVerified     \* bound: passwords and token codes ever verified

VARIABLES
    clock,      \* pbc_time()
    cookie,     \* the login cookie in the browser, or Nothing
    tab,        \* what each window is doing
    verified,   \* history: every successful verification
    overtaken,  \* history: every sign-on that ran out under a run of the script
                \* that had found it good, and was begun anew for its user
    out         \* history: the last answer received was a logout's

history == <<verified, overtaken, out>>
vars == <<clock, cookie, tab, history>>

ASSUME RequestAssumption == Requests \subseteq LoginRequest
ASSUME NoCookieAssumption == Nothing \notin LoginCookie
ASSUME LoginBoundAssumption ==
    CgiTime \in Nat /\ MaxClock \in Nat /\ MaxVerified \in Nat /\ ClearUsername \in BOOLEAN

(***************************************************************************)
(* States of a window.                                                     *)
(***************************************************************************)
Idle               == [pc |-> "idle"]
Visiting(v)        == [pc |-> "visit", visit |-> v]     \* about to be answered
Form(req, pin, ts) == [pc |-> "form", req |-> req, pinit |-> pin, ts |-> ts]
Script(v, u, c)    == [pc |-> "script", visit |-> v, user |-> u, cookie |-> c, at |-> clock]
Waiting(c, bye)    == [pc |-> "wait", cookie |-> c, logout |-> bye]

Becomes(t, s) == tab' = [tab EXCEPT ![t] = s]

\* A request read from the granting request, or from a form.
Ask(r) ==
    [ req |-> r, pinit |-> FALSE, reply |-> FALSE, form_ts |-> 0,
      user |-> NoUser, pass |-> NoUser, pass2 |-> NoUser ]

\* What pinit asks for when no application asks for anything.
PinitRequest ==
    [creds |-> PBC_BASIC_CRED_ID, session_reauth |-> 0, quiet |-> FALSE, token30 |-> FALSE]

Init ==
    /\ clock = 0
    /\ cookie = Nothing
    /\ tab = [t \in Tabs |-> Idle]
    /\ verified = {}
    /\ overtaken = {}
    /\ out = FALSE

(***************************************************************************)
(* The browser.                                                            *)
(***************************************************************************)
\* An application sends the window here.
Visits(t, r) ==
    /\ tab[t].pc \in {"idle", "form"}
    /\ Becomes(t, Visiting(Ask(r)))
    /\ UNCHANGED <<clock, cookie, history>>

\* The user submits the form; only the uwsecurid one asks for a token code.
Submit(t, u, pw, tk) ==
    /\ tab[t].pc = "form"
    /\ tab[t].req.creds = PBC_BASIC_CRED_ID => tk = NoUser
    /\ Becomes(t, Visiting([Ask(tab[t].req) EXCEPT
                              !.pinit = tab[t].pinit, !.reply = TRUE, !.form_ts = tab[t].ts,
                              !.user = u, !.pass = pw, !.pass2 = tk]))
    /\ UNCHANGED <<clock, cookie, history>>

\* The answer's Set-Cookie header takes effect.
Receive(t) ==
    /\ tab[t].pc = "wait"
    /\ cookie' = tab[t].cookie
    /\ out' = tab[t].logout
    /\ Becomes(t, Idle)
    /\ UNCHANGED <<clock, verified, overtaken>>

\* The answer is lost, or the window is closed before it arrives.
Lose(t) ==
    /\ tab[t].pc = "wait"
    /\ Becomes(t, Idle)
    /\ UNCHANGED <<clock, cookie, history>>

(***************************************************************************)
(* The script, cgiMain.                                                    *)
(***************************************************************************)
Outcome(t, o) ==
    tab[t].pc = "visit" /\ vector_request(tab[t].visit, cookie, clock) = o

\* The user of window t's visit.
VisitUser(t) == LoginUser(tab[t].visit, cookie, clock)

\* What verifiers confirmed of a visit, whether or not that is enough.
Verified(t, what) == [user |-> VisitUser(t), what |-> what, at |-> clock]
Verify(t) ==
    /\ verified' = verified
          \cup {x \in {Verified(t, "password")} : PasswordChecked(tab[t].visit, cookie, clock)}
          \cup {x \in {Verified(t, "token")} : TokenChecked(tab[t].visit, cookie, clock)}
    /\ Cardinality(verified') <= MaxVerified

\* A flavor returns LOGIN_OK after it verified what was typed.
LoginOK(t) ==
    /\ Outcome(t, "login")
    /\ Verify(t)
    /\ Becomes(t, Script(tab[t].visit, VisitUser(t), Renewed(tab[t].visit, cookie, clock)))
    /\ UNCHANGED <<clock, cookie, overtaken, out>>

\* ... or because the cookie is good enough.
RideOK(t) ==
    /\ Outcome(t, "ride")
    /\ Becomes(t, Script(tab[t].visit, VisitUser(t), cookie))
    /\ UNCHANGED <<clock, cookie, history>>

\* ... or with no user, for an application that wants no login page.
QuietOK(t) ==
    /\ Outcome(t, "quiet")
    /\ Becomes(t, Script(tab[t].visit, NoUser, cookie))
    /\ UNCHANGED <<clock, cookie, history>>

\* print_login_page
print_login_page(t) ==
    /\ Outcome(t, "page")
    /\ Verify(t)
    /\ Becomes(t, Form(tab[t].visit.req, tab[t].visit.pinit, clock))
    /\ UNCHANGED <<clock, cookie, overtaken, out>>

\* pinit, for who comes without a request: a login page, or if the cookie is
\* not expired a page about the session, which changes nothing.
pinit(t) ==
    /\ tab[t].pc = "idle"
    /\ ~check_l_cookie_expire(cookie, clock)
    /\ Becomes(t, Form(PinitRequest, TRUE, clock))
    /\ UNCHANGED <<clock, cookie, history>>

\* History: the run s decided on a cookie that has expired by the time "at".
Overtaken(s, at) ==
    {e \in {[user |-> s.user, at |-> at]} :
        /\ s.user # NoUser /\ s.cookie # Nothing
        /\ s.at <= s.cookie.expire_ts /\ s.cookie.expire_ts < at}

\* set_l_cookie, and then print_redirect_page or pinit_response.
IssueCookies(t) ==
    /\ tab[t].pc = "script"
    /\ LET s == tab[t] IN
       Becomes(t, IF s.user = NoUser THEN Idle
                  ELSE Waiting(set_l_cookie(s.user, s.visit.req.creds, s.cookie, clock), FALSE))
    /\ overtaken' = overtaken \cup Overtaken(tab[t], clock)
    /\ UNCHANGED <<clock, cookie, verified, out>>

\* logout; "clear" is the action for logout_prog, and clear_username_at_logout.
logout(t, clear) ==
    /\ tab[t].pc \in {"idle", "form"}
    /\ ClearUsername => clear
    /\ Becomes(t, Waiting(
          IF clear THEN Nothing
          ELSE expire_login_cookie(IF cookie = Nothing THEN NoUser ELSE cookie.user, clock), TRUE))
    /\ UNCHANGED <<clock, cookie, history>>

Tick ==
    /\ clock < MaxClock
    /\ \A t \in Tabs : tab[t].pc = "script" => clock < tab[t].at + CgiTime
    /\ clock' = clock + 1
    /\ UNCHANGED <<cookie, tab, history>>

Next ==
    \/ Tick
    \/ \E t \in Tabs :
          \/ \E r \in Requests : Visits(t, r)
          \/ \E u \in Users, pw, tk \in Users \cup {NoUser} : Submit(t, u, pw, tk)
          \/ LoginOK(t) \/ RideOK(t) \/ QuietOK(t) \/ print_login_page(t)
          \/ pinit(t)
          \/ IssueCookies(t)
          \/ \E clear \in BOOLEAN : logout(t, clear)
          \/ Receive(t)
          \/ Lose(t)

Spec == Init /\ [][Next]_vars

(***************************************************************************)
(* Properties.                                                             *)
(***************************************************************************)
Verification == [user : Users, what : {"password", "token"}, at : Time]

TabState ==
    [pc : {"idle"}]
    \cup [pc : {"visit"}, visit : Visit]
    \cup [pc : {"form"}, req : LoginRequest, pinit : BOOLEAN, ts : Time]
    \cup [pc : {"script"}, visit : Visit, user : Users \cup {NoUser},
         cookie : LoginCookie \cup {Nothing}, at : Time]
    \cup [pc : {"wait"}, cookie : LoginCookie \cup {Nothing}, logout : BOOLEAN]

\* Every visit, cookie and verification is well formed: in particular only
\* a user that a verifier knows is ever verified.
TypeOK ==
    /\ clock \in Nat
    /\ cookie \in LoginCookie \cup {Nothing}
    /\ tab \in [Tabs -> TabState]
    /\ verified \subseteq Verification
    /\ overtaken \subseteq [user : Users, at : Time]
    /\ out \in BOOLEAN

\* The login cookies in the browser or on their way to it.
LoginCookies ==
    ({cookie} \cup {tab[t].cookie : t \in {x \in Tabs : tab[x].pc = "wait"}}) \ {Nothing}

\* Every login cookie that still speaks for its user was made of his very
\* own verification at the time it says, of a token code if it claims one:
\* no mix of users, flavors and windows makes one cookie out of two
\* people's logins (process_basic, process_uwsecurid, set_l_cookie).
LoginsAreVerified ==
    \A c \in LoginCookies : c.creds # PBC_CREDS_NONE =>
        \E x \in verified :
            /\ x.user = c.user
            /\ x.what = IF c.creds = PBC_UWSECURID_CRED_ID THEN "token" ELSE "password"
            /\ x.at <= c.create_ts /\ c.create_ts <= x.at + CgiTime

\* An application that demands a recent login, or a token, is granted one
\* only to a user verified within the grace the flavor leaves him.
RequiredLogin(v, x, at) ==
    IF IsBasic(v) THEN at <= x.at + CgiTime + Grace(v.req.session_reauth)
    ELSE /\ x.what = "token"
         /\ at <= x.at + CgiTime + (IF v.req.token30 THEN Token30 ELSE MinRideFree)

ReauthIsRecent ==
    \A t \in Tabs :
        /\ tab[t].pc = "script" /\ tab[t].user # NoUser
        /\ IsBasic(tab[t].visit) => tab[t].visit.req.session_reauth # 0
        => \E x \in verified :
              x.user = tab[t].user /\ RequiredLogin(tab[t].visit, x, tab[t].at)

\* A sign-on, with tokens or without, ends LoginExpire after a password of
\* its user was verified, give or take a run of the script: using it does not
\* prolong it, unless it is used in its last moment, so that a run finds it
\* good in check_l_cookie and expired in set_l_cookie (LaterExpire); that use
\* begins it anew without a password.
SignOnExpires ==
    \A c \in LoginCookies : c.creds # PBC_CREDS_NONE =>
        \/ \E x \in verified :
              /\ x.user = c.user /\ x.what = "password"
              /\ c.expire_ts <= x.at + CgiTime + LoginExpire
        \/ \E e \in overtaken : e.user = c.user /\ c.expire_ts <= e.at + LoginExpire

\* Once the browser has a logout's answer, and until it gets another, an
\* application is granted a user only at a visit that verifies him; not even
\* in the very instant in which the old cookie "expires" is it good for a
\* free ride (logout, expire_login_cookie, check_l_cookie).
LoggedOutStaysOut ==
    [][\A t \in Tabs :
          /\ out /\ tab[t].pc = "visit" /\ tab'[t].pc = "script"
          => \/ tab'[t].user = NoUser
             \/ [user |-> tab'[t].user, at |-> clock] \in
                   {[user |-> x.user, at |-> x.at] : x \in verified'}]_vars

\* A login page is never shown for an application with PubcookieNoPrompt.
QuietShowsNoForm ==
    \A t \in Tabs : tab[t].pc = "form" => ~tab[t].req.quiet
=============================================================================
