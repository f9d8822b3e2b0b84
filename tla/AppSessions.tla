---------------------------- MODULE AppSessions ----------------------------
(***************************************************************************)
(* Application sessions: one browser with several windows, the application *)
(* servers running mod_pubcookie, and a login server of which only the     *)
(* promise to grant is kept (it may authenticate any user at any time; see *)
(* LoginSessions for how it comes to do so).                               *)
(*                                                                         *)
(* A request is answered in one step, on the cookies the browser has then. *)
(* The answer travels: its headers reach the cookie jar when the window    *)
(* receives it, in whatever order the windows' answers arrive, or never.   *)
(***************************************************************************)
EXTENDS ModPubcookie, FiniteSets

CONSTANTS
    Tabs,       \* windows of the browser
    MaxClock,   \* bound: the last instant of a behaviour
    MaxGrants   \* bound: granting cookies ever issued

VARIABLES
    clock,      \* pbc_time() of every host
    jar,        \* the browser's cookies
    tab,        \* what each window is doing
    granted,    \* history: every granting cookie the login server issued
    active,     \* history: when a slot's session was last used or begun
    ending,     \* history: per window, the slot whose session the answer under
                \* way ends, unless a session was begun there since
    ended       \* history: slots whose session was ended so, with none begun since

history == <<granted, active, ending, ended>>
vars == <<clock, jar, tab, history>>

ASSUME BoundAssumption == MaxClock \in Nat /\ MaxGrants \in Nat

(***************************************************************************)
(* States of a window.                                                     *)
(***************************************************************************)
Idle             == [pc |-> "idle"]
GoTo(l)          == [pc |-> "goto", loc |-> l]          \* about to request l
ToLogin(q)       == [pc |-> "login", greq |-> q]        \* sent to the login server
Form(q)          == [pc |-> "form", greq |-> q]         \* shows the login form
ToReply(g, l)    == [pc |-> "reply", cookie |-> g, loc |-> l]  \* POSTs the answer back
ToLogout(l)      == [pc |-> "logout", loc |-> l]        \* sent to the logout page
Page(l, u, now)  == [pc |-> "page", loc |-> l, user |-> u, at |-> now]
NoPage           == [pc |-> "error"]                    \* an error page
Waiting(h, next) == [pc |-> "wait", headers |-> h, next |-> next]

\* What window t is answered.  Without headers, the time an answer takes is
\* no different from the time the window takes for its next request.
Answer(t, headers, next) == tab' = [tab EXCEPT ![t] = Waiting(headers, next)]
AnswerAtOnce(t, next)    == tab' = [tab EXCEPT ![t] = next]

Init ==
    /\ clock = 0
    /\ jar = [k \in Slots |-> Nothing]
    /\ tab = [t \in Tabs |-> Idle]
    /\ granted = {}
    /\ active = [k \in SSlots |-> -1]
    /\ ending = [t \in Tabs |-> {}]
    /\ ended = {}

(***************************************************************************)
(* The application server: pubcookie_user_hook, one action per outcome.    *)
(***************************************************************************)
\* Window t has asked for location l.
Asked(t, l) == tab[t] = GoTo(l)

Verdict(t, l, v) ==
    Asked(t, l) /\ ~EndsSession(Config[l]) /\ pubcookie_user(Config[l], jar, clock) = v

SessionSlot(l) == SSlot(Config[l].srv, Config[l].sname)

\* History: window t's logout is answered; it ends a session if there is one.
Ends(t, k) ==
    /\ ending' = IF jar[k] = Nothing THEN ending ELSE [ending EXCEPT ![t] = {k}]
    /\ UNCHANGED <<granted, active, ended>>

\* PubcookieEndSession on: the page is served, without a user or a session.
EndSession(t, l) ==
    /\ Asked(t, l) /\ EndsSession(Config[l]) /\ ~RedirectsLogout(Config[l])
    /\ Answer(t, ClearCookies(NoHeaders, {SessionSlot(l)}), Page(l, NoUser, clock))
    /\ Ends(t, SessionSlot(l))
    /\ UNCHANGED <<clock, jar>>

\* do_end_session_redirect
do_end_session_redirect(t, l) ==
    /\ Asked(t, l) /\ RedirectsLogout(Config[l])
    /\ Answer(t, ClearAll(NoHeaders, Config[l]), ToLogout(l))
    /\ Ends(t, SessionSlot(l))
    /\ UNCHANGED <<clock, jar>>

\* A granting cookie is traded for a new session.
OpenSession(t, l) ==
    /\ Verdict(t, l, "grant")
    /\ LET c == Config[l]
           g == jar[GSlot(c.srv)]
       IN Answer(t, SetCookie(GrantHeaders(c, jar), SessionSlot(l), NewSession(c, g, clock)),
                 Page(l, g.user, clock))
    /\ active' = [active EXCEPT ![SessionSlot(l)] = clock]
    /\ ending' = [x \in Tabs |-> ending[x] \ {SessionSlot(l)}]
    /\ ended' = ended \ {SessionSlot(l)}
    /\ UNCHANGED <<clock, jar, granted>>

\* A session cookie is accepted; its idle timer restarts if there is one.
UseSession(t, l) ==
    /\ Verdict(t, l, "session")
    /\ LET c == Config[l]
           s == SessionData(c, jar)
           h == GrantHeaders(c, jar)
       IN Answer(t, IF c.inact_exp > 0 THEN SetCookie(h, SessionSlot(l), TouchSession(s, clock))
                    ELSE h,
                 Page(l, s.user, clock))
    /\ active' = [active EXCEPT ![SessionSlot(l)] = clock]
    /\ UNCHANGED <<clock, jar, granted, ending, ended>>

\* auth_failed_handler sends the browser to the login server.
AskLogin(t, l) ==
    /\ Verdict(t, l, "redirect")
    /\ \E tok \in Tokens : LET c == Config[l] IN
          Answer(t, RequestHeaders(GrantHeaders(c, jar), c, l, tok),
                 ToLogin(IF UsePost THEN MakeRequest(c, l, tok) ELSE Nothing))
    /\ UNCHANGED <<clock, jar, history>>

\* stop_the_show: the granting cookie is no use, or the request cannot be
\* carried through a login (its arguments or POST data are too long).
StopTheShow(t, l) ==
    /\ Verdict(t, l, "stop") \/ Verdict(t, l, "redirect")
    /\ Answer(t, ClearAll(GrantHeaders(Config[l], jar), Config[l]), NoPage)
    /\ UNCHANGED <<clock, jar, history>>

\* HTTP_UNAUTHORIZED: the hook goes on and may set a session cookie, but
\* Apache drops the headers of a failed request.
Unauthorized(t, l) ==
    /\ Verdict(t, l, "unauthorized")
    /\ AnswerAtOnce(t, Idle)
    /\ UNCHANGED <<clock, jar, history>>

\* login_reply_handler (POST method) stores the granting cookie.
login_reply_handler(t) ==
    /\ tab[t].pc = "reply"
    /\ Answer(t, SetCookie(NoHeaders, GSlot(tab[t].cookie.srv), tab[t].cookie), GoTo(tab[t].loc))
    /\ UNCHANGED <<clock, jar, history>>

(***************************************************************************)
(* The login server, as far as an application can tell.                    *)
(***************************************************************************)
\* The request a visit brings: in the form POSTed, or in the shared cookie.
Brought(t) == IF UsePost THEN tab[t].greq ELSE jar[ReqSlot]

\* A visit without a request gets the status page.
LoginStatus(t) ==
    /\ tab[t].pc = "login" /\ Brought(t) = Nothing
    /\ AnswerAtOnce(t, Idle)
    /\ UNCHANGED <<clock, jar, history>>

\* The flavor asked for answers with no user rather than show its form: all
\* do so if PubcookieNoPrompt is on, but for uwsecurid.
AnswersQuietly(q) == q.quiet /\ q.creds # PBC_UWSECURID_CRED_ID

\* The login form carries the request on in its hidden fields.
LoginForm(t) ==
    /\ tab[t].pc = "login" /\ Brought(t) # Nothing
    /\ ~AnswersQuietly(Brought(t))
    /\ AnswerAtOnce(t, Form(Brought(t)))
    /\ UNCHANGED <<clock, jar, history>>

\* create_cookie in print_redirect_page: the answer to request q for user u.
Grant(q, u) ==
    [ user |-> u, srv |-> q.srv, appid |-> q.appid, creds |-> q.creds, tok |-> q.tok,
      reauth |-> q.session_reauth # 0, create_ts |-> clock ]

\* print_redirect_page sends the browser back with a granting cookie, at
\* once or after the form.
LoginGrant(t, u) ==
    /\ tab[t].pc \in {"login", "form"}
    /\ LET q == IF tab[t].pc = "form" THEN tab[t].greq ELSE Brought(t)
       IN /\ q # Nothing
          /\ u \in Users \/ AnswersQuietly(q)
          /\ Cardinality(granted \cup {Grant(q, u)}) <= MaxGrants
          /\ granted' = granted \cup {Grant(q, u)}
          /\ IF UsePost
             THEN AnswerAtOnce(t, ToReply(Grant(q, u), q.uri))
             ELSE Answer(t, SetCookie(ClearCookies(NoHeaders, {ReqSlot}),
                                      GSlot(q.srv), Grant(q, u)),
                         GoTo(q.uri))
    /\ UNCHANGED <<clock, jar, active, ending, ended>>

\* logout shows a page and, by GET or POST, sends no application cookies.
LoginLogout(t) ==
    /\ tab[t].pc = "logout"
    /\ AnswerAtOnce(t, Idle)
    /\ UNCHANGED <<clock, jar, history>>

(***************************************************************************)
(* The browser and the time.                                               *)
(***************************************************************************)
\* The user asks for a location, leaving whatever the window shows.
Browse(t, l) ==
    /\ tab[t].pc \in {"idle", "form"}
    /\ tab' = [tab EXCEPT ![t] = GoTo(l)]
    /\ UNCHANGED <<clock, jar, history>>

\* ... or visits the login server on his own.
BrowseLogin(t) ==
    /\ tab[t].pc \in {"idle", "form"}
    /\ tab' = [tab EXCEPT ![t] = ToLogin(Nothing)]
    /\ UNCHANGED <<clock, jar, history>>

\* A page on the screen asks for nothing more: the window is idle again.
Receive(t) ==
    /\ tab[t].pc = "wait"
    /\ LET next == tab[t].next
       IN /\ jar' = ApplyHeaders(jar, tab[t].headers)
          /\ tab' = [tab EXCEPT ![t] = IF next.pc \in {"page", "error"} THEN Idle ELSE next]
    /\ ending' = [ending EXCEPT ![t] = {}]
    /\ ended' = ended \cup ending[t]
    /\ UNCHANGED <<clock, granted, active>>

\* The answer is lost, or the window is closed before it arrives.
Lose(t) ==
    /\ tab[t].pc = "wait"
    /\ tab' = [tab EXCEPT ![t] = Idle]
    /\ ending' = [ending EXCEPT ![t] = {}]
    /\ UNCHANGED <<clock, jar, granted, active, ended>>

Tick ==
    /\ clock < MaxClock
    /\ clock' = clock + 1
    /\ UNCHANGED <<jar, tab, history>>

Request(t) ==
    \E l \in Locations :
        \/ EndSession(t, l)
        \/ do_end_session_redirect(t, l)
        \/ OpenSession(t, l)
        \/ UseSession(t, l)
        \/ AskLogin(t, l)
        \/ StopTheShow(t, l)
        \/ Unauthorized(t, l)

Login(t) ==
    \/ LoginStatus(t)
    \/ LoginForm(t)
    \/ \E u \in Users \cup {NoUser} : LoginGrant(t, u)
    \/ LoginLogout(t)
    \/ login_reply_handler(t)

Next ==
    \/ Tick
    \/ \E t \in Tabs :
          \/ Request(t)
          \/ Login(t)
          \/ Receive(t)
          \/ Lose(t)
          \/ BrowseLogin(t)
          \/ \E l \in Locations : Browse(t, l)

Spec == Init /\ [][Next]_vars

(***************************************************************************)
(* Properties.                                                             *)
(***************************************************************************)
TabState ==
    [pc : {"idle", "error"}]
    \cup [pc : {"goto", "logout"}, loc : Locations]
    \cup [pc : {"login"}, greq : GrantingRequest \cup {Nothing}]
    \cup [pc : {"form"}, greq : GrantingRequest]
    \cup [pc : {"reply"}, cookie : GrantingCookie, loc : Locations]
    \cup [pc : {"page"}, loc : Locations, user : Users \cup {NoUser}, at : Time]

\* What may be found in a slot.
Contents(k) ==
    {Nothing} \cup
    (IF k \in SSlots THEN SessionCookie
     ELSE IF k \in GSlots THEN GrantingCookie
     ELSE IF k \in PreSlots THEN Tokens
     ELSE GrantingRequest)

\* Headers that put into every slot they name what belongs there.
HeadersOK(h) == DOMAIN h \subseteq Slots /\ \A k \in DOMAIN h : h[k] \in Contents(k)

TabOK(s) ==
    \/ s \in TabState
    \/ /\ s = Waiting(s.headers, s.next)
       /\ HeadersOK(s.headers)
       /\ s.next \in TabState

\* Every cookie, request and answer has the shape its place calls for: no
\* handler stores one kind of message where another is looked for.
TypeOK ==
    /\ clock \in Nat
    /\ DOMAIN jar = Slots /\ HeadersOK(jar)
    /\ DOMAIN tab = Tabs /\ \A t \in Tabs : TabOK(tab[t])
    /\ granted \subseteq GrantingCookie
    /\ active \in [SSlots -> Time]
    /\ ending \in [Tabs -> SUBSET SSlots]
    /\ ended \subseteq SSlots

\* The protected pages under way to the browser.
PagesServed ==
    {p \in {tab[t].next : t \in {x \in Tabs : tab[x].pc = "wait"}} :
        p.pc = "page" /\ ~EndsSession(Config[p.loc])}

\* g answers a request of the application c belongs to, for user u.
GrantFor(g, c, u) ==
    g.user = u /\ g.srv = c.srv /\ g.appid = c.appid /\ g.creds = c.creds

\* Grant g is young enough to be behind the page p: granting cookie and
\* session live that long together.
Supports(g, p) ==
    /\ GrantFor(g, Config[p.loc], p.user)
    /\ g.create_ts <= p.at
    /\ p.at < g.create_ts + GrantingExpire + Config[p.loc].hard_exp

\* A page of an application is served for a user only if the login server
\* granted this user to this application on this server with the kind of
\* authentication the location calls for, no longer ago than a granting
\* cookie and a session live together: no window, delay or refresh of the
\* idle timer stretches a session (pubcookie_user, set_session_cookie).
ServedOnlyWhenGranted == \A p \in PagesServed : \E g \in granted : Supports(g, p)

\* A location that does not allow quiet logins never serves a page for the
\* empty user, though it may share its session cookie with one that does.
PromptLocationsNameUser ==
    \A p \in PagesServed : ~Config[p.loc].noprompt => p.user \in Users

\* A page of a location with PubcookieSessionCauseReAuth rests, like every
\* page, on a grant that is young enough; and this very grant was given under
\* the demand to log in again.
ReauthLocationsReauthenticate ==
    \A p \in PagesServed : Config[p.loc].session_reauth > 0 =>
        \E g \in granted : Supports(g, p) /\ g.reauth

\* This step answers window t's request for location l by its session cookie.
ServesSession(t, l) ==
    /\ tab[t] = GoTo(l) /\ ~EndsSession(Config[l]) /\ ~HasGrant(Config[l], jar)
    /\ tab'[t].pc = "wait" /\ tab'[t].next.pc = "page"

\* A session cookie is accepted only if the session was used less than the
\* location's idle time ago, whichever window's answer came last.
IdleSessionsEnd ==
    [][\A t \in Tabs, l \in Locations :
          ServesSession(t, l) /\ Config[l].inact_exp # -1
          => clock < active[SessionSlot(l)] + Config[l].inact_exp]_vars

\* Once the browser has the answer of a location with PubcookieEndSession,
\* the session it ended (the browser had its cookie when it asked) is never
\* used again without a new login.
EndedSessionsStayEnded ==
    [][\A t \in Tabs, l \in Locations :
          ServesSession(t, l) => SessionSlot(l) \notin ended]_vars

(***************************************************************************)
(* Progress: servers answer, answers arrive or are lost, and a user who is *)
(* asked to log in again and again does so in the end.                     *)
(***************************************************************************)
FairSpec ==
    /\ Spec
    /\ \A t \in Tabs :
          /\ WF_vars(Request(t))
          /\ WF_vars(Receive(t))
          /\ WF_vars(Login(t))
          /\ SF_vars(\E u \in Users \cup {NoUser} : LoginGrant(t, u))

\* Asking for a page comes to an end: the redirects between the application
\* and the login server do not go on for ever.
NavigationEnds == \A t \in Tabs : tab[t].pc = "goto" ~> tab[t].pc = "idle"
=============================================================================
