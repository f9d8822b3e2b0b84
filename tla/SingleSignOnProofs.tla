------------------------- MODULE SingleSignOnProofs -------------------------
(***************************************************************************)
(* Single sign-on implements AppSessions, for all locations, users,        *)
(* windows and times; so what was proved of AppSessions holds of it, and   *)
(* what the login server does about its grants can be added.               *)
(***************************************************************************)
EXTENDS SingleSignOn, FiniteSetTheorems, TLAPS

(***************************************************************************)
(* The parameters are fit for AppSessions, whose theorems need this, and   *)
(* the two modules mean the same by a request and by a header.             *)
(***************************************************************************)
LEMMA Params ==
    /\ Config \in [Locations -> App!DirConfig]
    /\ NoUser \notin Users
    /\ UsePost \in BOOLEAN
    /\ GrantingExpire \in Nat
    /\ MaxClock \in Nat /\ MaxGrants \in Nat
  BY ConfigAssumption, UserAssumption, PostAssumption, ExpireAssumption, BoundAssumption
  DEF DirConfig, App!DirConfig, CredIds, App!CredIds,
      PBC_BASIC_CRED_ID, PBC_UWSECURID_CRED_ID,
      App!PBC_BASIC_CRED_ID, App!PBC_UWSECURID_CRED_ID

\* No request is mistaken for none, and all ask for one of the two flavors.
LEMMA RequestType ==
    ASSUME NEW q \in App!GrantingRequest
    PROVE  /\ q # Nothing
           /\ q.creds \in {PBC_BASIC_CRED_ID, PBC_UWSECURID_CRED_ID}
           /\ q.quiet \in BOOLEAN
           /\ q.session_reauth \in Int
  <1>1. App!GrantingRequest = GrantingRequest
    BY DEF App!GrantingRequest, GrantingRequest, App!Servers, Servers, App!AppIds, AppIds,
           App!Creds, Creds
  <1>2. q.creds \in Creds
    BY <1>1 DEF GrantingRequest
  <1>3. q.creds \in {PBC_BASIC_CRED_ID, PBC_UWSECURID_CRED_ID}
    BY <1>2, FlavorAssumption DEF Creds
  <1> QED BY <1>1, <1>3, NothingAssumption DEF GrantingRequest

\* The granting cookie and the cleared request go where AppSessions says.
LEMMA SameHeaders ==
    ASSUME NEW srv, NEW g
    PROVE  SetCookie(ClearCookies(NoHeaders, {ReqSlot}), GSlot(srv), g)
           = App!SetCookie(App!ClearCookies(App!NoHeaders, {App!ReqSlot}), App!GSlot(srv), g)
  <1>1. ReqSlot = App!ReqSlot /\ GSlot(srv) = App!GSlot(srv) /\ NoHeaders = App!NoHeaders
    BY DEF ReqSlot, App!ReqSlot, GSlot, App!GSlot, NoHeaders, App!NoHeaders
  <1>2. \A h, K : ClearCookies(h, K) = App!ClearCookies(h, K)
    BY DEF ClearCookies, App!ClearCookies
  <1>3. \A h, k, v : SetCookie(h, k, v) = App!SetCookie(h, k, v)
    BY DEF SetCookie, App!SetCookie
  <1> QED BY <1>1, <1>2, <1>3

(***************************************************************************)
(* The invariant: every login cookie, in the browser or on its way there,  *)
(* and every grant can be traced to what the user typed.                   *)
(***************************************************************************)
KnownFor(V, u, what, at) == [user |-> u, what |-> what, at |-> at] \in V

\* Login cookie c rests on a password typed at most a sign-on before it
\* expires and, if it says so, on a token code typed when it was made; what
\* was typed last is no older than it says.  One that only keeps a name has
\* expired.
CookieBacked(V, now, c) ==
    /\ c \in Cgi!LoginCookie
    /\ c.creds = PBC_CREDS_NONE => c.expire_ts <= now
    /\ c.creds # PBC_CREDS_NONE =>
          \E at \in 0 .. now :
              KnownFor(V, c.user, "password", at) /\ c.expire_ts <= at + LoginExpire
    /\ c.creds # PBC_CREDS_NONE =>
          \E at \in 0 .. now, what \in {"password", "token"} :
              KnownFor(V, c.user, what, at) /\ c.create_ts <= at
    /\ c.creds = PBC_UWSECURID_CRED_ID => KnownFor(V, c.user, "token", c.create_ts)

\* So does grant g, unless it is for nobody.
GrantBacked(V, g) == g.user # NoUser =>
    /\ \E at \in 0 .. g.create_ts :
          KnownFor(V, g.user, "password", at) /\ g.create_ts <= at + LoginExpire
    /\ g.creds = PBC_UWSECURID_CRED_ID =>
          \E at \in 0 .. g.create_ts :
              KnownFor(V, g.user, "token", at) /\ g.create_ts < at + MinRideFree

LoginType ==
    /\ tab = [t \in Tabs |-> tab[t]]
    /\ DOMAIN sent = Tabs /\ \A t \in Tabs : sent[t] = {} \/ \E c : sent[t] = {c}
    /\ DOMAIN form_ts = Tabs /\ \A t \in Tabs : form_ts[t] \in 0 .. clock
    /\ verified \subseteq [user : Users, what : {"password", "token"}, at : 0 .. clock]

Inv ==
    /\ App!TypeOK
    /\ LoginType
    /\ \A c \in LoginCookies : CookieBacked(verified, clock, c)
    /\ \A g \in granted : GrantBacked(verified, g)

(***************************************************************************)
(* The script's outcomes.                                                  *)
(***************************************************************************)
\* The request window t has the script answer, on a visit or by its form.
AskedBy(t) == IF tab[t].pc = "form" THEN tab[t].greq ELSE App!Brought(t)

\* A run of the script in window t, on visit v.
Runs(t, v) ==
    /\ tab[t].pc \in {"login", "form"}
    /\ AskedBy(t) \in App!GrantingRequest
    /\ v.req.creds = AskedBy(t).creds /\ v.req.quiet = AskedBy(t).quiet
    /\ v.req.session_reauth = AskedBy(t).session_reauth /\ v.req.token30 = FALSE
    /\ v.pinit = FALSE
    /\ v.user \in Users \cup {NoUser}
    /\ v.pass \in Users \cup {NoUser} /\ v.pass2 \in Users \cup {NoUser}
    /\ Script(t, AskedBy(t), v)

\* Visit and Reply are such runs.
LEMMA AllRuns ==
    ASSUME Inv, NEW t \in Tabs, Visit(t) \/ Reply(t)
    PROVE  \E v : Runs(t, v)
  <1>1. CASE Visit(t)
    <2>1. App!Brought(t) \in App!GrantingRequest \cup {Nothing}
      BY <1>1, App!BroughtType, Params DEF Visit, Inv
    <2>2. Runs(t, Ask(App!Brought(t)))
      BY <1>1, <2>1 DEF Visit, Ask, Runs, AskedBy
    <2> QED BY <2>2
  <1>2. CASE Reply(t)
    <2> PICK u \in Users, pw, tk \in Users \cup {NoUser} :
             Script(t, tab[t].greq, Typed(t, u, pw, tk))
      BY <1>2 DEF Reply
    <2>1. tab[t].pc = "form"
      BY <1>2 DEF Reply
    <2>2. App!TabOK(tab[t])
      BY DEF Inv, App!TypeOK
    <2>3. tab[t].greq \in App!GrantingRequest
      BY <2>1, <2>2, App!TabFields, Params
    <2>4. Runs(t, Typed(t, u, pw, tk))
      BY <2>1, <2>3 DEF Runs, AskedBy, Typed, Ask
    <2> QED BY <2>4
  <1> QED BY <1>1, <1>2

\* Credentials read alike in all three modules.
LEMMA SameCreds ==
    /\ PBC_CREDS_NONE = 0 /\ Cgi!PBC_CREDS_NONE = 0
    /\ PBC_BASIC_CRED_ID = 1 /\ Cgi!PBC_BASIC_CRED_ID = 1
    /\ PBC_UWSECURID_CRED_ID = 3 /\ Cgi!PBC_UWSECURID_CRED_ID = 3
    /\ App!PBC_UWSECURID_CRED_ID = 3
  BY DEF PBC_CREDS_NONE, Cgi!PBC_CREDS_NONE, PBC_BASIC_CRED_ID, Cgi!PBC_BASIC_CRED_ID,
         PBC_UWSECURID_CRED_ID, Cgi!PBC_UWSECURID_CRED_ID, App!PBC_UWSECURID_CRED_ID

\* A login cookie that holds is a good one: its user is known by a password
\* typed at most a sign-on ago, its token code is as old as it says.
LEMMA CookieKnown ==
    ASSUME Inv, Cgi!CookieHolds(cookie, clock)
    PROVE  /\ cookie # Nothing /\ cookie.creds \in {1, 3}
           /\ cookie.create_ts \in Int /\ cookie.expire_ts \in Int
           /\ cookie.user \in Users
           /\ clock <= cookie.expire_ts
           /\ \E at \in 0 .. clock : /\ KnownFor(verified, cookie.user, "password", at)
                                     /\ cookie.expire_ts <= at + LoginExpire
           /\ \E at \in 0 .. clock, what \in {"password", "token"} :
                 KnownFor(verified, cookie.user, what, at) /\ cookie.create_ts <= at
           /\ cookie.creds = 3 => /\ KnownFor(verified, cookie.user, "token", cookie.create_ts)
                                  /\ cookie.create_ts \in 0 .. clock
  <1>1. cookie # Nothing /\ clock <= cookie.expire_ts /\ cookie.creds # 0
    BY SameCreds DEF Cgi!CookieHolds, Cgi!check_l_cookie_expire
  <1>2. CookieBacked(verified, clock, cookie)
    BY <1>1 DEF Inv, LoginCookies
  <1>3. cookie.creds \in {1, 3} /\ cookie.create_ts \in Int /\ cookie.expire_ts \in Int
    BY <1>1, <1>2, SameCreds DEF CookieBacked, Cgi!LoginCookie, Cgi!Time
  <1>4. \E at \in 0 .. clock : /\ KnownFor(verified, cookie.user, "password", at)
                               /\ cookie.expire_ts <= at + LoginExpire
    BY <1>1, <1>2, SameCreds DEF CookieBacked
  <1>5. /\ cookie.creds = 3 => KnownFor(verified, cookie.user, "token", cookie.create_ts)
        /\ \E at \in 0 .. clock, what \in {"password", "token"} :
              KnownFor(verified, cookie.user, what, at) /\ cookie.create_ts <= at
    BY <1>1, <1>2, SameCreds DEF CookieBacked
  <1>6. \A u, what, at : KnownFor(verified, u, what, at) => u \in Users /\ at \in 0 .. clock
    BY DEF KnownFor, Inv, LoginType
  <1> QED BY <1>1, <1>3, <1>4, <1>5, <1>6

\* Who has typed the right password or code is the user of the visit.
LEMMA TypedRight ==
    ASSUME NEW t, NEW v, Runs(t, v)
    PROVE  Cgi!PasswordRight(v, cookie, clock) \/ Cgi!TokenRight(v, cookie, clock)
           => VisitUser(v) \in Users
  BY Params DEF Runs, Cgi!PasswordRight, Cgi!TokenRight, VisitUser

\* What the flavors let pass without a form, or take for a login.
LEMMA Flavors ==
    ASSUME Inv, NEW t, NEW v, Runs(t, v)
    PROVE  LET q == AskedBy(t) IN
           /\ Outcome(v, "login") /\ q.creds = 1 => /\ Cgi!IsBasic(v) /\ v.reply
                                                    /\ Cgi!BasicLogin(v, cookie, clock)
           /\ Outcome(v, "login") /\ q.creds = 3 => /\ ~Cgi!IsBasic(v)
                                                    /\ Cgi!SecuridLogin(v, cookie, clock)
           /\ Outcome(v, "ride") => Cgi!CookieHolds(cookie, clock)
           /\ Outcome(v, "ride") /\ q.creds = 3 =>
                 cookie.creds = 3 /\ clock < cookie.create_ts + MinRideFree
           /\ Outcome(v, "quiet") => q.creds = 1 /\ q.quiet
           /\ Outcome(v, "page") => ~(q.creds = 1 /\ q.quiet)
  <1>1. Cgi!IsBasic(v) <=> AskedBy(t).creds = 1
    BY SameCreds DEF Runs, Cgi!IsBasic
  <1>2. Outcome(v, "login") <=> IF Cgi!IsBasic(v) THEN Cgi!BasicLogin(v, cookie, clock)
                                ELSE Cgi!SecuridLogin(v, cookie, clock)
    BY DEF Outcome, Cgi!vector_request
  <1>3. Outcome(v, "ride") => IF Cgi!IsBasic(v) THEN Cgi!BasicRide(v, cookie, clock)
                              ELSE Cgi!SecuridRide(v, cookie, clock)
    BY DEF Outcome, Cgi!vector_request
  <1>4. /\ Outcome(v, "quiet") => Cgi!IsBasic(v) /\ v.req.quiet
        /\ Outcome(v, "page") => ~(Cgi!IsBasic(v) /\ v.req.quiet)
    BY DEF Outcome, Cgi!vector_request
  <1>5. v.req.quiet = AskedBy(t).quiet /\ v.req.token30 = FALSE
    BY DEF Runs
  <1>6. Cgi!BasicLogin(v, cookie, clock) => v.reply
    BY DEF Cgi!BasicLogin
  <1>7. /\ Cgi!BasicRide(v, cookie, clock) => Cgi!CookieHolds(cookie, clock)
        /\ Cgi!SecuridRide(v, cookie, clock) =>
              /\ Cgi!CookieHolds(cookie, clock) /\ cookie.creds = 3
              /\ clock < cookie.create_ts + MinRideFree
    BY <1>5, SameCreds DEF Cgi!BasicRide, Cgi!SecuridRide
  <1> QED BY <1>1, <1>2, <1>3, <1>4, <1>5, <1>6, <1>7

\* Who a run grants is a user, unless the request is answered quietly.
LEMMA GrantsUsers ==
    ASSUME Inv, NEW t, NEW v, Runs(t, v)
    PROVE  /\ Outcome(v, "login") \/ Outcome(v, "ride") => VisitUser(v) \in Users
           /\ Outcome(v, "quiet") => App!AnswersQuietly(AskedBy(t))
           /\ Outcome(v, "page") => ~App!AnswersQuietly(AskedBy(t))
  <1>1. AskedBy(t).creds \in {1, 3}
    BY RequestType, SameCreds DEF Runs
  <1>2. Outcome(v, "login") => VisitUser(v) \in Users
    BY <1>1, Flavors, TypedRight DEF Cgi!BasicLogin, Cgi!SecuridLogin
  <1>3. Outcome(v, "ride") => VisitUser(v) = cookie.user /\ VisitUser(v) \in Users
    BY Flavors, CookieKnown DEF VisitUser, Cgi!LoginUser
  <1>4. App!AnswersQuietly(AskedBy(t)) <=> AskedBy(t).quiet /\ AskedBy(t).creds # 3
    BY SameCreds DEF App!AnswersQuietly
  <1> QED BY <1>1, <1>2, <1>3, <1>4, Flavors

(***************************************************************************)
(* Refinement.                                                             *)
(***************************************************************************)
\* What a run sends back with a grant is an answer AppSessions allows.
LEMMA RedirectIsGrant ==
    ASSUME Inv, NEW t \in Tabs, NEW u, NEW c, tab[t].pc \in {"login", "form"},
           AskedBy(t) \in App!GrantingRequest, Redirect(t, AskedBy(t), u, c),
           u \in Users \/ App!AnswersQuietly(AskedBy(t))
    PROVE  App!LoginGrant(t, u)
  <1> DEFINE q == AskedBy(t)
             g == App!Grant(q, u)
  <1>1. /\ q # Nothing
        /\ granted' = granted \cup {g} /\ Cardinality(granted \cup {g}) <= MaxGrants
        /\ UNCHANGED <<clock, jar, active, ending, ended>>
    BY RequestType DEF Redirect
  <1>2. IF UsePost THEN App!AnswerAtOnce(t, App!ToReply(g, q.uri))
        ELSE App!Answer(t, App!SetCookie(App!ClearCookies(App!NoHeaders, {App!ReqSlot}),
                                         App!GSlot(q.srv), g),
                        App!GoTo(q.uri))
    BY SameHeaders DEF Redirect, App!AnswerAtOnce, App!Answer
  <1>3. q = IF tab[t].pc = "form" THEN tab[t].greq ELSE App!Brought(t)
    BY DEF AskedBy
  <1>4. App!Cardinality(granted \cup {g}) = Cardinality(granted \cup {g})
    BY DEF Cardinality, App!Cardinality
  <1> QED BY <1>1, <1>2, <1>3, <1>4 DEF App!LoginGrant

LEMMA RunIsLogin ==
    ASSUME Inv, NEW t \in Tabs, NEW v, Runs(t, v)
    PROVE  App!Login(t) \/ UNCHANGED App!vars
  <1> DEFINE q == AskedBy(t)
  <1>0. tab[t].pc \in {"login", "form"} /\ AskedBy(t) \in App!GrantingRequest
    BY DEF Runs
  <1>1. CASE print_login_page(t, q, v)
    <2>1. Outcome(v, "page") /\ tab' = [tab EXCEPT ![t] = App!Form(q)]
          /\ UNCHANGED <<clock, jar, granted, active, ending, ended>>
      BY <1>1 DEF print_login_page, ShowForm
    <2>2. CASE tab[t].pc = "login"
      <3>1. q = App!Brought(t) /\ q # Nothing
        BY <2>2, RequestType DEF AskedBy, Runs
      <3>2. App!LoginForm(t)
        BY <2>1, <2>2, <3>1, GrantsUsers
        DEF App!LoginForm, App!AnswerAtOnce, App!history
      <3> QED BY <3>2 DEF App!Login
    <2>3. CASE tab[t].pc = "form"
      <3>1. App!TabOK(tab[t])
        BY DEF Inv, App!TypeOK
      <3>2. tab[t] = App!Form(q)
        BY <2>3, <3>1 DEF App!TabOK, App!TabState, App!Waiting, App!Form, AskedBy
      <3>3. tab' = tab
        BY <2>1, <3>2 DEF Inv, LoginType
      <3> QED BY <2>1, <3>3 DEF App!vars, App!history
    <2> QED BY <2>2, <2>3 DEF Runs
  <1>2. CASE LoginOK(t, q, v)
    <2> DEFINE u == VisitUser(v)
               c == Cgi!Renewed(v, cookie, clock)
    <2>1. Redirect(t, AskedBy(t), u, c) /\ Outcome(v, "login")
      BY <1>2 DEF LoginOK
    <2>2. u \in Users
      BY <2>1, GrantsUsers
    <2> HIDE DEF u, c
    <2>3. App!LoginGrant(t, u)
      BY <1>0, <2>1, <2>2, RedirectIsGrant
    <2> QED BY <2>2, <2>3 DEF App!Login
  <1>3. CASE RideOK(t, q, v)
    <2> DEFINE u == VisitUser(v)
    <2>1. Redirect(t, AskedBy(t), u, cookie) /\ Outcome(v, "ride")
      BY <1>3 DEF RideOK
    <2>2. u \in Users
      BY <2>1, GrantsUsers
    <2> HIDE DEF u
    <2>3. App!LoginGrant(t, u)
      BY <1>0, <2>1, <2>2, RedirectIsGrant
    <2> QED BY <2>2, <2>3 DEF App!Login
  <1>4. CASE QuietOK(t, q, v)
    <2>1. Redirect(t, AskedBy(t), NoUser, cookie) /\ Outcome(v, "quiet")
      BY <1>4 DEF QuietOK
    <2>2. App!LoginGrant(t, NoUser)
      BY <1>0, <2>1, GrantsUsers, RedirectIsGrant
    <2> QED BY <2>2 DEF App!Login
  <1> QED BY <1>1, <1>2, <1>3, <1>4 DEF Runs, Script

LEMMA AppInit == Init => App!Init
  BY DEF Init

LEMMA AppStep == Inv /\ [Next]_vars => [App!Next]_(App!vars)
  <1> SUFFICES ASSUME Inv, [Next]_vars PROVE App!Next \/ UNCHANGED App!vars
    OBVIOUS
  <1>1. CASE Tick
    BY <1>1 DEF Tick, App!Next
  <1>2. CASE UNCHANGED appvars
    BY <1>2 DEF appvars, App!vars, App!history
  <1>3. ASSUME NEW t \in Tabs, Visit(t) \/ Reply(t) PROVE App!Next \/ UNCHANGED App!vars
    BY <1>3, AllRuns, RunIsLogin DEF App!Next
  <1>4. ASSUME NEW t \in Tabs, Request(t) \/ Receive(t) \/ Lose(t)
        PROVE  App!Next
    BY <1>4 DEF Request, Receive, Lose, App!Next
  <1>5. ASSUME NEW t \in Tabs, Status(t) \/ logout(t) \/ login_reply_handler(t)
        PROVE  App!Next
    BY <1>5 DEF Status, logout, login_reply_handler, App!Login, App!Next
  <1>6. ASSUME NEW t \in Tabs, NEW l \in Locations, Browse(t, l) PROVE App!Next
    BY <1>6 DEF Browse, App!Next
  <1>7. ASSUME NEW t \in Tabs, ReceivePage(t) \/ LosePage(t) PROVE UNCHANGED appvars
    BY <1>7 DEF ReceivePage, LosePage, appvars
  <1>8. ASSUME NEW t \in Tabs, BrowseLogin(t) PROVE App!Next
    BY <1>8 DEF BrowseLogin, App!Next
  <1> QED BY <1>1, <1>2, <1>3, <1>4, <1>5, <1>6, <1>7, <1>8 DEF Next, vars

(***************************************************************************)
(* The invariant holds.                                                    *)
(***************************************************************************)
\* What was backed stays so as more is verified and time passes.
LEMMA StaysBacked ==
    ASSUME NEW V, NEW W, V \subseteq W, NEW now \in Nat, NEW later \in Nat, now <= later
    PROVE  /\ \A c : CookieBacked(V, now, c) => CookieBacked(W, later, c)
           /\ \A g : GrantBacked(V, g) => GrantBacked(W, g)
  <1>1. \A u, what, at : KnownFor(V, u, what, at) => KnownFor(W, u, what, at)
    BY DEF KnownFor
  <1>2. \A c : c \in Cgi!LoginCookie => c.expire_ts \in Int
    BY DEF Cgi!LoginCookie, Cgi!Time
  <1>3. \A c : CookieBacked(V, now, c) => CookieBacked(W, later, c)
    BY <1>1, <1>2 DEF CookieBacked
  <1>4. \A g : GrantBacked(V, g) => GrantBacked(W, g)
    BY <1>1 DEF GrantBacked
  <1> QED BY <1>3, <1>4

\* A step that adds only backed cookies and grants.
LEMMA AddsBacked ==
    ASSUME Inv, App!TypeOK', LoginType', verified \subseteq verified', clock <= clock',
           \A c \in LoginCookies' \ LoginCookies : CookieBacked(verified', clock', c),
           \A g \in granted' \ granted : GrantBacked(verified', g)
    PROVE  Inv'
  <1>1. clock \in Nat /\ clock' \in Nat
    BY DEF Inv, App!TypeOK
  <1>2. \A c \in LoginCookies : CookieBacked(verified', clock', c)
    BY <1>1, StaysBacked DEF Inv
  <1>3. \A g \in granted : GrantBacked(verified', g)
    BY <1>1, StaysBacked DEF Inv
  <1> QED BY <1>2, <1>3 DEF Inv

\* The windows stay a function as AppSessions changes one of them.
LEMMA TabIsFunction ==
    ASSUME tab = [t \in Tabs |-> tab[t]], [App!Next]_(App!vars)
    PROVE  tab' = [t \in Tabs |-> tab'[t]]
  <1> DEFINE Fcn == tab' = [t \in Tabs |-> tab'[t]]
  <1>1. \A t, x : tab' = [tab EXCEPT ![t] = x] => Fcn
    OBVIOUS
  <1>2. \A t, h, n : App!Answer(t, h, n) => Fcn
    BY <1>1 DEF App!Answer
  <1>3. \A t, n : App!AnswerAtOnce(t, n) => Fcn
    BY <1>1 DEF App!AnswerAtOnce
  <1>4. tab' = tab => Fcn
    OBVIOUS
  <1> HIDE DEF Fcn
  <1>5. UNCHANGED App!vars \/ App!Tick => Fcn
    BY <1>4 DEF App!vars, App!Tick
  <1>6. ASSUME NEW t \in Tabs, App!Request(t) PROVE Fcn
    BY <1>2, <1>3, <1>6
    DEF App!Request, App!EndSession, App!do_end_session_redirect, App!OpenSession,
        App!UseSession, App!AskLogin, App!StopTheShow, App!Unauthorized
  <1>7. ASSUME NEW t \in Tabs, App!Login(t) PROVE Fcn
    BY <1>2, <1>3, <1>7
    DEF App!Login, App!LoginStatus, App!LoginForm, App!LoginGrant, App!LoginLogout,
        App!login_reply_handler
  <1>8. ASSUME NEW t \in Tabs, App!Receive(t) \/ App!Lose(t) PROVE Fcn
    BY <1>1, <1>8 DEF App!Receive, App!Lose
  <1>9. ASSUME NEW t \in Tabs, NEW l \in Locations, App!Browse(t, l) PROVE Fcn
    BY <1>1, <1>9 DEF App!Browse
  <1>10. ASSUME NEW t \in Tabs, App!BrowseLogin(t) PROVE Fcn
    BY <1>1, <1>10 DEF App!BrowseLogin
  <1>11. Fcn
    BY <1>5, <1>6, <1>7, <1>8, <1>9, <1>10 DEF App!Next
  <1> QED BY <1>11 DEF Fcn

LEMMA InvInit == Init => Inv
  <1> SUFFICES ASSUME Init PROVE Inv
    OBVIOUS
  <1>1. App!TypeOK
    BY App!TypeInit, AppInit, Params
  <1>2. clock = 0 /\ tab = [t \in Tabs |-> App!Idle] /\ granted = {}
    BY DEF Init, App!Init
  <1>3. LoginType
    <2>1. tab = [t \in Tabs |-> tab[t]]
      BY <1>2
    <2>2. DOMAIN form_ts = Tabs /\ \A t \in Tabs : form_ts[t] \in 0 .. clock
      BY <1>2 DEF Init
    <2> QED BY <2>1, <2>2 DEF Init, LoginType
  <1>4. LoginCookies = {}
    BY DEF Init, LoginCookies
  <1> QED BY <1>1, <1>2, <1>3, <1>4 DEF Inv

\* A verification recorded by a run is one of the visit's user, now.
LEMMA VerifyType ==
    ASSUME Inv, NEW t, NEW v, Runs(t, v), Verify(v)
    PROVE  /\ verified \subseteq verified'
           /\ verified' \subseteq [user : Users, what : {"password", "token"}, at : 0 .. clock]
           /\ Cgi!PasswordChecked(v, cookie, clock)
                 => KnownFor(verified', VisitUser(v), "password", clock)
           /\ Cgi!TokenChecked(v, cookie, clock)
                 => KnownFor(verified', VisitUser(v), "token", clock)
  <1>1. Cgi!PasswordChecked(v, cookie, clock) \/ Cgi!TokenChecked(v, cookie, clock)
        => VisitUser(v) \in Users
    BY TypedRight DEF Cgi!PasswordChecked, Cgi!TokenChecked, Cgi!SecuridLogin
  <1>2. clock \in 0 .. clock
    BY DEF Inv, App!TypeOK
  <1>3. verified \subseteq [user : Users, what : {"password", "token"}, at : 0 .. clock]
    BY DEF Inv, LoginType
  <1>4. verified' = verified
          \cup {x \in {Verification(v, "password")} : Cgi!PasswordChecked(v, cookie, clock)}
          \cup {x \in {Verification(v, "token")} : Cgi!TokenChecked(v, cookie, clock)}
    BY DEF Verify
  <1>5. \A x \in verified' \ verified :
          x \in [user : Users, what : {"password", "token"}, at : 0 .. clock]
    BY <1>1, <1>2, <1>4 DEF Verification
  <1>6. /\ Cgi!PasswordChecked(v, cookie, clock)
              => KnownFor(verified', VisitUser(v), "password", clock)
        /\ Cgi!TokenChecked(v, cookie, clock)
              => KnownFor(verified', VisitUser(v), "token", clock)
    BY <1>4 DEF Verification, KnownFor
  <1> QED BY <1>3, <1>4, <1>5, <1>6

\* Who logs in has just typed his password or a code.
LEMMA JustTyped ==
    ASSUME Inv, NEW t, NEW v, Runs(t, v), Verify(v), Outcome(v, "login")
    PROVE  \E what \in {"password", "token"} : KnownFor(verified', VisitUser(v), what, clock)
  <1>1. AskedBy(t).creds \in {1, 3}
    BY RequestType, SameCreds DEF Runs
  <1>2. Cgi!PasswordChecked(v, cookie, clock) \/ Cgi!TokenChecked(v, cookie, clock)
    BY <1>1, Flavors DEF Cgi!PasswordChecked, Cgi!TokenChecked, Cgi!BasicLogin
  <1> QED BY <1>2, VerifyType

\* The login cookie set by a login: it lasts a sign-on from the password at
\* most, and is a token's worth only if the code was typed now.
LEMMA LoginBacked ==
    ASSUME Inv, NEW t, NEW v, Runs(t, v), Verify(v), Outcome(v, "login")
    PROVE  LET q == AskedBy(t)
               u == VisitUser(v)
           IN /\ CookieBacked(verified', clock,
                     Cgi!set_l_cookie(u, q.creds, Cgi!Renewed(v, cookie, clock), clock))
              /\ GrantBacked(verified', App!Grant(q, u))
  <1> DEFINE q == AskedBy(t)
             u == VisitUser(v)
             r == Cgi!Renewed(v, cookie, clock)
             n == Cgi!set_l_cookie(u, q.creds, r, clock)
             g == App!Grant(q, u)
  <1>1. clock \in Nat /\ LoginExpire \in Nat /\ MinRideFree \in Nat \ {0}
    BY DurationAssumption DEF Inv, App!TypeOK
  <1>2. q.creds \in {1, 3} /\ (Cgi!IsBasic(v) <=> q.creds = 1) /\ u \in Users
    BY RequestType, GrantsUsers, SameCreds DEF Runs, Cgi!IsBasic
  <1>3. cookie # Nothing =>
            /\ cookie.creds \in {0, 1, 3} /\ cookie.create_ts \in Int
            /\ cookie.expire_ts \in Int /\ cookie.expire_ts <= clock + LoginExpire
            /\ cookie \in Cgi!LoginCookie
    <2> SUFFICES ASSUME cookie # Nothing
                 PROVE  /\ cookie \in Cgi!LoginCookie
                        /\ cookie.expire_ts <= clock + LoginExpire
      BY SameCreds DEF Cgi!LoginCookie, Cgi!Time
    <2>1. CookieBacked(verified, clock, cookie)
      BY DEF Inv, LoginCookies
    <2> QED BY <1>1, <2>1 DEF CookieBacked, Cgi!LoginCookie, Cgi!Time
  <1>4. /\ r = Nothing <=> cookie = Nothing
        /\ r # Nothing => /\ r.expire_ts = cookie.expire_ts /\ r.create_ts = clock
                          /\ r.creds \in {0, 1, 3}
                          /\ r.creds = 3 => q.creds = 3
    <2>1. CASE cookie = Nothing
      BY <2>1 DEF Cgi!Renewed
    <2>2. CASE cookie # Nothing
      <3> DEFINE creds == IF Cgi!IsBasic(v) /\ cookie.creds = 3 THEN 1 ELSE cookie.creds
      <3>1. r = [cookie EXCEPT !.create_ts = clock, !.creds = creds]
        BY <2>2, SameCreds DEF Cgi!Renewed
      <3>2. creds \in {0, 1, 3} /\ (creds = 3 => q.creds = 3)
        BY <1>2, <1>3, <2>2
      <3> HIDE DEF r, creds
      <3>3. cookie \in Cgi!LoginCookie /\ clock \in Int /\ creds \in {0, 1, 3}
        BY <1>1, <1>3, <2>2, <3>2
      <3>4. r \in Cgi!LoginCookie /\ r.expire_ts = cookie.expire_ts
            /\ r.create_ts = clock /\ r.creds = creds
        BY <3>1, <3>3, SameCreds DEF Cgi!LoginCookie, Cgi!Time
      <3> QED BY <2>2, <3>2, <3>4, NothingAssumption
    <2> QED BY <2>1, <2>2
  <1>5. /\ n.user = u /\ n.create_ts = clock
        /\ n.creds \in {1, 3} /\ (n.creds = 3 => q.creds = 3)
        /\ n.expire_ts = IF cookie = Nothing \/ cookie.expire_ts < clock
                         THEN clock + LoginExpire ELSE cookie.expire_ts
        /\ n \in Cgi!LoginCookie
    <2> HIDE DEF r, q, u
    <2> QED BY <1>1, <1>2, <1>3, <1>4, SameCreds
        DEF Cgi!set_l_cookie, Cgi!LaterExpire, Cgi!LoginCookie, Cgi!Time
  <1>6. g.user = u /\ g.creds = q.creds /\ g.create_ts = clock
    BY DEF App!Grant
  <1>7. q.creds = 3 => KnownFor(verified', u, "token", clock)
    BY <1>2, Flavors, VerifyType DEF Cgi!TokenChecked
  <1>8. \/ KnownFor(verified', u, "password", clock)
        \/ Cgi!CookieHolds(cookie, clock) /\ u = cookie.user
    <2>1. CASE Cgi!PasswordRight(v, cookie, clock)
      BY <1>2, <2>1, Flavors, VerifyType
      DEF Cgi!PasswordChecked, Cgi!BasicLogin, Cgi!SecuridLogin, Cgi!TokenAsked
    <2>2. CASE ~Cgi!PasswordRight(v, cookie, clock)
      <3>1. Cgi!CookieHolds(cookie, clock)
        BY <1>2, <2>2, Flavors
        DEF Cgi!BasicLogin, Cgi!SecuridLogin, Cgi!TokenAsked, Cgi!ride_free_zone
      <3> QED BY <3>1 DEF VisitUser, Cgi!LoginUser
    <2> QED BY <2>1, <2>2
  <1> HIDE DEF q, u, r, n, g
  <1>9. \E at \in 0 .. clock : /\ KnownFor(verified', u, "password", at)
                               /\ n.expire_ts <= at + LoginExpire
                               /\ clock <= at + LoginExpire
    <2>1. CASE KnownFor(verified', u, "password", clock)
      BY <1>1, <1>3, <1>5, <2>1
    <2>2. CASE Cgi!CookieHolds(cookie, clock) /\ u = cookie.user
      <3>1. PICK at \in 0 .. clock : /\ KnownFor(verified, u, "password", at)
                                     /\ cookie.expire_ts <= at + LoginExpire
        BY <2>2, CookieKnown
      <3>2. KnownFor(verified', u, "password", at)
        BY <3>1, VerifyType DEF KnownFor
      <3>3. cookie # Nothing /\ cookie.expire_ts \in Int /\ clock <= cookie.expire_ts
        BY <2>2, CookieKnown
      <3>4. n.expire_ts <= at + LoginExpire /\ clock <= at + LoginExpire
        BY <1>1, <1>5, <3>1, <3>3
      <3> QED BY <3>2, <3>4
    <2> QED BY <1>8, <2>1, <2>2
  <1>10. CookieBacked(verified', clock, n)
    <2>1. \E what \in {"password", "token"} : KnownFor(verified', u, what, clock)
      BY JustTyped DEF u
    <2> QED BY <1>1, <1>5, <1>7, <1>9, <2>1, SameCreds DEF CookieBacked
  <1>11. GrantBacked(verified', g)
    BY <1>1, <1>6, <1>7, <1>9, SameCreds DEF GrantBacked
  <1> QED BY <1>10, <1>11 DEF q, u, r, n, g

\* ... and by a free ride: as long and as much as the old one.
LEMMA RideBacked ==
    ASSUME Inv, NEW t, NEW v, Runs(t, v), Outcome(v, "ride")
    PROVE  LET q == AskedBy(t)
               u == VisitUser(v)
           IN /\ CookieBacked(verified, clock, Cgi!set_l_cookie(u, q.creds, cookie, clock))
              /\ GrantBacked(verified, App!Grant(q, u))
  <1> DEFINE q == AskedBy(t)
             u == VisitUser(v)
             n == Cgi!set_l_cookie(u, q.creds, cookie, clock)
             g == App!Grant(q, u)
  <1>1. clock \in Nat /\ LoginExpire \in Nat /\ MinRideFree \in Nat \ {0}
    BY DurationAssumption DEF Inv, App!TypeOK
  <1>2. q.creds \in {1, 3}
    BY RequestType, SameCreds DEF Runs
  <1>3. Cgi!CookieHolds(cookie, clock)
        /\ (q.creds = 3 => cookie.creds = 3 /\ clock < cookie.create_ts + MinRideFree)
    BY Flavors
  <1>4. cookie # Nothing /\ u = cookie.user /\ u \in Users /\ cookie.creds \in {1, 3}
        /\ cookie.create_ts \in Int /\ cookie.expire_ts \in Int /\ clock <= cookie.expire_ts
    BY <1>3, CookieKnown DEF VisitUser, Cgi!LoginUser
  <1>5. n = [user |-> u, creds |-> cookie.creds,
             create_ts |-> cookie.create_ts, expire_ts |-> cookie.expire_ts]
    BY <1>1, <1>2, <1>3, <1>4 DEF Cgi!set_l_cookie, Cgi!LaterExpire
  <1>6. g.user = u /\ g.creds = q.creds /\ g.create_ts = clock
    BY DEF App!Grant
  <1> HIDE DEF q, u, n, g
  <1>7. CookieBacked(verified, clock, n)
    <2>1. n \in Cgi!LoginCookie
      BY <1>4, <1>5, SameCreds DEF Cgi!LoginCookie, Cgi!Time
    <2>2. \E at \in 0 .. clock :
              KnownFor(verified, n.user, "password", at) /\ n.expire_ts <= at + LoginExpire
      BY <1>3, <1>4, <1>5, CookieKnown
    <2>3. /\ n.creds = 3 => KnownFor(verified, n.user, "token", n.create_ts)
          /\ \E at \in 0 .. clock, what \in {"password", "token"} :
                KnownFor(verified, n.user, what, at) /\ n.create_ts <= at
      BY <1>3, <1>4, <1>5, CookieKnown
    <2> QED BY <1>4, <1>5, <2>1, <2>2, <2>3, SameCreds DEF CookieBacked
  <1>8. GrantBacked(verified, g)
    <2>1. \E at \in 0 .. clock :
              KnownFor(verified, u, "password", at) /\ clock <= at + LoginExpire
      BY <1>1, <1>3, <1>4, CookieKnown
    <2>2. q.creds = 3 => \E at \in 0 .. clock :
              KnownFor(verified, u, "token", at) /\ clock < at + MinRideFree
      BY <1>1, <1>3, <1>4, CookieKnown
    <2> QED BY <1>6, <2>1, <2>2, SameCreds DEF GrantBacked
  <1> QED BY <1>7, <1>8 DEF q, u, n, g

\* What a run sends and grants.
LEMMA RunAdds ==
    ASSUME Inv, NEW t \in Tabs, NEW v, Runs(t, v)
    PROVE  /\ LoginType' /\ verified \subseteq verified' /\ clock' = clock
           /\ \A c \in LoginCookies' \ LoginCookies : CookieBacked(verified', clock, c)
           /\ \A g \in granted' \ granted : GrantBacked(verified', g)
  <1> DEFINE q == AskedBy(t)
             Keeps == /\ DOMAIN sent' = Tabs
                      /\ \A x \in Tabs : sent'[x] = {} \/ \E c : sent'[x] = {c}
                      /\ DOMAIN form_ts' = Tabs
                      /\ \A x \in Tabs : form_ts'[x] \in 0 .. clock
                      /\ clock' = clock
  <1>0. clock \in Nat
    BY DEF Inv, App!TypeOK
  <1>1. tab' = [x \in Tabs |-> tab'[x]]
    <2>1. [App!Next]_(App!vars)
      BY RunIsLogin DEF App!Next
    <2> QED BY <2>1, TabIsFunction DEF Inv, LoginType
  <1>2. ASSUME Keeps, UNCHANGED verified \/ Verify(v)
        PROVE  LoginType' /\ verified \subseteq verified' /\ clock' = clock
    <2>1. /\ verified \subseteq verified'
          /\ verified' \subseteq [user : Users, what : {"password", "token"}, at : 0 .. clock]
      BY <1>2, VerifyType DEF Inv, LoginType
    <2> QED BY <1>1, <1>2, <2>1 DEF LoginType
  <1>3. ASSUME NEW u, NEW c, Redirect(t, q, u, c)
        PROVE  /\ Keeps
               /\ granted' = granted \cup {App!Grant(q, u)}
               /\ \A k \in LoginCookies' \ LoginCookies :
                     u # NoUser /\ k = Cgi!set_l_cookie(u, q.creds, c, clock)
    <2>1. sent' = [sent EXCEPT ![t] =
              IF u = NoUser THEN {} ELSE {Cgi!set_l_cookie(u, q.creds, c, clock)}]
          /\ form_ts' = [form_ts EXCEPT ![t] = 0]
          /\ cookie' = cookie /\ clock' = clock
      BY <1>3 DEF Redirect
    <2>2. Keeps
      <3>1. DOMAIN sent' = Tabs /\ \A x \in Tabs : sent'[x] = {} \/ \E k : sent'[x] = {k}
        BY <2>1 DEF Inv, LoginType
      <3>2. DOMAIN form_ts' = Tabs /\ \A x \in Tabs : form_ts'[x] \in 0 .. clock
        BY <1>0, <2>1 DEF Inv, LoginType
      <3> QED BY <2>1, <3>1, <3>2
    <2>3. \A k \in LoginCookies' \ LoginCookies :
              u # NoUser /\ k = Cgi!set_l_cookie(u, q.creds, c, clock)
      BY <2>1 DEF LoginCookies, Inv, LoginType
    <2> QED BY <1>3, <2>2, <2>3 DEF Redirect
  <1>4. CASE print_login_page(t, q, v)
    <2>1. form_ts' = [form_ts EXCEPT ![t] = clock] /\ Verify(v)
          /\ UNCHANGED <<clock, granted, cookie, sent, gone>>
      BY <1>4 DEF print_login_page, ShowForm
    <2>2. Keeps
      <3>1. \A x \in Tabs : form_ts'[x] \in 0 .. clock
        BY <1>0, <2>1 DEF Inv, LoginType
      <3> QED BY <2>1, <3>1 DEF Inv, LoginType
    <2>3. LoginCookies' = LoginCookies
      BY <2>1 DEF LoginCookies
    <2> HIDE DEF Keeps
    <2>4. Verify(v)
      BY <2>1
    <2>5. LoginType' /\ verified \subseteq verified' /\ clock' = clock
      BY <1>2, <2>2, <2>4
    <2> QED BY <2>1, <2>3, <2>5
  <1>5. CASE LoginOK(t, q, v)
    <2>1. Redirect(t, q, VisitUser(v), Cgi!Renewed(v, cookie, clock))
          /\ Verify(v) /\ Outcome(v, "login") /\ gone' = {}
      BY <1>5 DEF LoginOK
    <2>2. LoginType' /\ verified \subseteq verified' /\ clock' = clock
      BY <1>2, <1>3, <2>1
    <2> QED BY <1>3, <2>1, <2>2, LoginBacked
  <1>6. CASE RideOK(t, q, v)
    <2>1. Redirect(t, q, VisitUser(v), cookie) /\ Outcome(v, "ride") /\ UNCHANGED <<verified, gone>>
      BY <1>6 DEF RideOK
    <2>2. LoginType' /\ verified \subseteq verified' /\ clock' = clock
      BY <1>2, <1>3, <2>1 DEF Inv, LoginType
    <2> QED BY <1>3, <2>1, <2>2, RideBacked
  <1>7. CASE QuietOK(t, q, v)
    <2>1. Redirect(t, q, NoUser, cookie) /\ UNCHANGED <<verified, gone>>
      BY <1>7 DEF QuietOK
    <2>2. LoginType' /\ verified \subseteq verified' /\ clock' = clock
      BY <1>2, <1>3, <2>1 DEF Inv, LoginType
    <2>3. GrantBacked(verified', App!Grant(q, NoUser))
      BY DEF GrantBacked, App!Grant
    <2> QED BY <1>3, <2>1, <2>2, <2>3
  <1> QED BY <1>4, <1>5, <1>6, <1>7 DEF Runs, Script

\* All steps but those of the script and the clock: nobody is verified or
\* granted, and but for the logout no login cookie is new.
LEMMA OtherSteps ==
    ASSUME Inv, App!TypeOK', tab' = [t \in Tabs |-> tab'[t]],
           UNCHANGED <<clock, granted, verified>>, NEW t \in Tabs,
           form_ts' = form_ts \/ form_ts' = [form_ts EXCEPT ![t] = 0],
           cookie' \in {cookie} \cup sent[t],
           sent' = sent \/ \E c : /\ sent' = [sent EXCEPT ![t] = c]
                                  /\ c = {} \/ \E k : /\ c = {k}
                                                      /\ k # Nothing => CookieBacked(verified, clock, k)
    PROVE  Inv'
  <1>1. clock \in Nat
    BY DEF Inv, App!TypeOK
  <1>2. DOMAIN form_ts' = Tabs /\ \A x \in Tabs : form_ts'[x] \in 0 .. clock
    BY <1>1 DEF Inv, LoginType
  <1>3. DOMAIN sent' = Tabs /\ \A x \in Tabs : sent'[x] = {} \/ \E c : sent'[x] = {c}
    BY DEF Inv, LoginType
  <1>4. LoginType'
    BY <1>2, <1>3 DEF Inv, LoginType
  <1>5. \A c \in LoginCookies' \ LoginCookies : CookieBacked(verified, clock, c)
    <2> SUFFICES ASSUME NEW c \in LoginCookies' \ LoginCookies
                 PROVE  CookieBacked(verified, clock, c)
      OBVIOUS
    <2>1. c # Nothing /\ c # cookie /\ \A x \in Tabs : c \notin sent[x]
      BY DEF LoginCookies
    <2>2. c = cookie' \/ \E x \in Tabs : c \in sent'[x]
      BY DEF LoginCookies
    <2>3. PICK x \in Tabs : c \in sent'[x]
      BY <2>1, <2>2
    <2>4. x = t /\ \E k : sent'[t] = {k} /\ (k # Nothing => CookieBacked(verified, clock, k))
      BY <2>1, <2>3 DEF Inv, LoginType
    <2> QED BY <2>1, <2>3, <2>4
  <1> QED BY <1>1, <1>4, <1>5, AddsBacked

LEMMA InvNext == Inv /\ [Next]_vars => Inv'
  <1> SUFFICES ASSUME Inv, [Next]_vars PROVE Inv'
    OBVIOUS
  <1>1. [App!Next]_(App!vars)
    BY AppStep
  <1>2. App!TypeOK'
    BY <1>1, App!TypeNext, Params DEF Inv
  <1>3. tab' = [t \in Tabs |-> tab'[t]]
    BY <1>1, TabIsFunction DEF Inv, LoginType
  <1>4. clock \in Nat
    BY DEF Inv, App!TypeOK
  <1>5. CASE Tick
    <2>1. clock' = clock + 1 /\ granted' = granted /\ UNCHANGED loginvars
      BY <1>5 DEF Tick, App!Tick, App!history
    <2>2. LoginCookies' = LoginCookies
      BY <2>1 DEF loginvars, LoginCookies
    <2>3. LoginType'
      BY <1>3, <1>4, <2>1 DEF Inv, LoginType, loginvars
    <2> QED BY <1>2, <1>4, <2>1, <2>2, <2>3, AddsBacked DEF loginvars
  <1>6. CASE UNCHANGED vars
    <2>1. LoginCookies' = LoginCookies
      BY <1>6 DEF vars, loginvars, LoginCookies
    <2>2. LoginType'
      BY <1>6 DEF vars, appvars, loginvars, Inv, LoginType
    <2> QED BY <1>2, <1>4, <1>6, <2>1, <2>2, AddsBacked DEF vars, appvars, loginvars
  <1>7. ASSUME NEW t \in Tabs, Visit(t) \/ Reply(t) PROVE Inv'
    <2>1. PICK v : Runs(t, v)
      BY <1>7, AllRuns
    <2> QED BY <1>2, <1>4, <2>1, RunAdds, AddsBacked
  <1>8. ASSUME NEW t \in Tabs, Request(t) PROVE Inv'
    <2>1. UNCHANGED <<clock, granted>>
      BY <1>8
      DEF Request, App!Request, App!EndSession, App!do_end_session_redirect, App!OpenSession,
          App!UseSession, App!AskLogin, App!StopTheShow, App!Unauthorized, App!Ends, App!history
    <2> QED BY <1>2, <1>3, <1>4, <1>8, <2>1, OtherSteps DEF Request, loginvars
  <1>9. ASSUME NEW t \in Tabs, Status(t) \/ login_reply_handler(t) PROVE Inv'
    <2>1. UNCHANGED <<clock, granted>> /\ UNCHANGED loginvars
      BY <1>9
      DEF Status, login_reply_handler, App!LoginStatus, App!login_reply_handler, App!history
    <2> QED BY <1>2, <1>3, <1>4, <2>1, OtherSteps DEF loginvars
  <1>10. ASSUME NEW t \in Tabs, logout(t) PROVE Inv'
    <2> DEFINE u == IF cookie = Nothing THEN NoUser ELSE cookie.user
               k == Cgi!expire_login_cookie(u, clock)
    <2>1. UNCHANGED <<clock, granted, cookie, form_ts, verified, gone>>
      BY <1>10 DEF logout, App!LoginLogout, App!history
    <2>2. u \in Users \cup {NoUser}
      BY DEF Inv, LoginCookies, CookieBacked, Cgi!LoginCookie
    <2>3. CookieBacked(verified, clock, k)
      <3> HIDE DEF u
      <3> QED BY <1>4, <2>2, SameCreds
          DEF CookieBacked, Cgi!expire_login_cookie, Cgi!LoginCookie, Cgi!Time
    <2>4. \E c : /\ sent' = [sent EXCEPT ![t] = c]
                 /\ c \in {{}, {Nothing}, {k}}
      BY <1>10 DEF logout
    <2> HIDE DEF k
    <2>5. \E c : /\ sent' = [sent EXCEPT ![t] = c]
                 /\ c = {} \/ \E x : c = {x} /\ (x # Nothing => CookieBacked(verified, clock, x))
      BY <2>3, <2>4
    <2> QED BY <1>2, <1>3, <1>4, <2>1, <2>5, OtherSteps
  <1>11. ASSUME NEW t \in Tabs, NEW l \in Locations, Browse(t, l) PROVE Inv'
    <2>1. UNCHANGED <<clock, granted, cookie, sent, verified, gone>>
          /\ form_ts' = [form_ts EXCEPT ![t] = 0]
      BY <1>11 DEF Browse, App!Browse, App!history
    <2> QED BY <1>2, <1>3, <1>4, <2>1, OtherSteps
  <1>12. ASSUME NEW t \in Tabs, Receive(t) \/ ReceivePage(t) PROVE Inv'
    <2>1. UNCHANGED <<clock, granted, form_ts, verified>>
          /\ sent' = [sent EXCEPT ![t] = {}]
          /\ cookie' = IF sent[t] = {} THEN cookie ELSE CHOOSE c \in sent[t] : TRUE
      BY <1>4, <1>12 DEF Receive, ReceivePage, Arrives, App!Receive, appvars
    <2>2. cookie' \in {cookie} \cup sent[t]
      BY <2>1
    <2> QED BY <1>2, <1>3, <2>1, <2>2, OtherSteps
  <1>13. ASSUME NEW t \in Tabs, Lose(t) \/ LosePage(t) PROVE Inv'
    <2>1. UNCHANGED <<clock, granted, cookie, form_ts, verified, gone>>
          /\ sent' = [sent EXCEPT ![t] = {}]
      BY <1>13 DEF Lose, LosePage, App!Lose, App!history, appvars
    <2> QED BY <1>2, <1>3, <1>4, <2>1, OtherSteps
  <1>14. ASSUME NEW t \in Tabs, BrowseLogin(t) PROVE Inv'
    <2>1. UNCHANGED <<clock, granted, cookie, sent, verified, gone>>
          /\ form_ts' = [form_ts EXCEPT ![t] = 0]
      BY <1>14 DEF BrowseLogin, App!BrowseLogin, App!history
    <2> QED BY <1>2, <1>3, <1>4, <2>1, OtherSteps
  <1> QED BY <1>5, <1>6, <1>7, <1>8, <1>9, <1>10, <1>11, <1>12, <1>13, <1>14 DEF Next

(***************************************************************************)
(* What follows.                                                           *)
(***************************************************************************)
\* What both servers keep in the browser is well formed, a run of the login
\* script takes what it finds there for what it is.
THEOREM TypesHold == Spec => []TypeOK
  <1>1. Inv /\ gone \subseteq App!SSlots => TypeOK
    <2> SUFFICES ASSUME Inv, gone \subseteq App!SSlots PROVE TypeOK
      OBVIOUS
    <2>1. LoginCookies \subseteq Cgi!LoginCookie
      BY DEF Inv, CookieBacked
    <2>2. \A t \in Tabs : Cardinality(sent[t]) <= 1
      <3> SUFFICES ASSUME NEW t \in Tabs PROVE Cardinality(sent[t]) <= 1
        OBVIOUS
      <3>1. Cardinality({}) = 0 /\ \A c : Cardinality({c}) = 1
        BY FS_EmptySet, FS_Singleton
      <3>2. sent[t] = {} \/ \E c : sent[t] = {c}
        BY DEF Inv, LoginType
      <3>3. Cardinality(sent[t]) \in {0, 1}
        BY <3>1, <3>2
      <3> QED BY <3>3
    <2> QED BY <2>1, <2>2 DEF TypeOK, Inv, LoginType
  <1> DEFINE GoneType == gone \subseteq App!SSlots
  <1>2. Init => GoneType
    BY DEF Init
  <1>3. Inv /\ GoneType /\ [Next]_vars => GoneType'
    <2> SUFFICES ASSUME Inv, GoneType, [Next]_vars
                 PROVE  gone' = gone \/ gone' = {} \/ gone' = gone \cup {k \in App!SSlots : jar[k] = Nothing}
      BY DEF Inv, App!TypeOK
    <2> QED
      BY DEF Next, vars, loginvars, Tick, Request, Visit, Reply, Script, print_login_page, LoginOK,
             RideOK, QuietOK, Status, logout, login_reply_handler, Receive, Lose, ReceivePage,
             LosePage, BrowseLogin, Browse
  <1>4. Inv /\ GoneType => TypeOK
    BY <1>1
  <1> HIDE DEF GoneType
  <1> QED BY <1>2, <1>3, <1>4, InvInit, InvNext, PTL DEF Spec

\* Single sign-on implements AppSessions: vector_request, the flavors and
\* the login cookie grant only what was asked for, to a user or, where that
\* is allowed, to nobody, and answer as the applications expect.
THEOREM ImplementsAppSessions == Spec => AppSpec
  BY InvInit, InvNext, AppInit, AppStep, PTL DEF Spec, AppSpec, App!Spec

\* So every page served rests on a grant to its application, as proved of
\* AppSessions.
THEOREM PagesAreGrantedHere == Spec => []ServedOnlyWhenGranted
  <1>1. App!Spec => []App!ServedOnlyWhenGranted
    BY App!PagesAreGranted, Params, PTL
  <1> QED BY <1>1, ImplementsAppSessions, PTL DEF AppSpec, ServedOnlyWhenGranted

\* And, as every grant rests on what the user typed, so does every page: on
\* a password no older than a sign-on, a granting cookie and a session last
\* together and, where a token is wanted, on a code no older than its grace;
\* a run of the script being one step, in which no login cookie expires.
THEOREM PagesRestOnVerification == Spec => []PagesAreVerified
  <1>1. Inv /\ ServedOnlyWhenGranted => PagesAreVerified
    <2> SUFFICES ASSUME Inv, ServedOnlyWhenGranted,
                        NEW p \in App!PagesServed, p.user # NoUser
                 PROVE  /\ \E x \in verified : x.what = "password" /\ RestsOn(p, x, LoginExpire)
                        /\ Config[p.loc].creds = PBC_UWSECURID_CRED_ID =>
                              \E x \in verified : x.what = "token" /\ RestsOn(p, x, MinRideFree)
      BY DEF PagesAreVerified
    <2> DEFINE c == Config[p.loc]
    <2>1. p.loc \in Locations /\ p.at \in Int
      <3>1. PICK t \in Tabs : tab[t].pc = "wait" /\ p = tab[t].next /\ p.pc = "page"
        BY DEF App!PagesServed
      <3>2. App!TabOK(tab[t])
        BY DEF Inv, App!TypeOK
      <3>3. p \in App!TabState
        BY <3>1, <3>2, App!TabFields, Params
      <3> QED BY <3>1, <3>3 DEF App!TabState, App!Time
    <2>2. PICK g \in granted : /\ g.user = p.user /\ g.creds = c.creds
                               /\ g.create_ts <= p.at
                               /\ p.at < g.create_ts + GrantingExpire + c.hard_exp
      BY DEF ServedOnlyWhenGranted, App!ServedOnlyWhenGranted, App!Supports, App!GrantFor
    <2>3. GrantBacked(verified, g) /\ g.create_ts \in Int
      BY DEF Inv, App!TypeOK, App!GrantingCookie, App!Time
    <2>4. c.hard_exp \in Nat /\ GrantingExpire \in Nat /\ LoginExpire \in Nat /\ MinRideFree \in Nat
      BY <2>1, ConfigAssumption, ExpireAssumption, DurationAssumption DEF DirConfig
    <2>5. \E x \in verified : x.what = "password" /\ RestsOn(p, x, LoginExpire)
      <3>1. PICK at \in 0 .. g.create_ts :
                KnownFor(verified, g.user, "password", at) /\ g.create_ts <= at + LoginExpire
        BY <2>2, <2>3 DEF GrantBacked
      <3> DEFINE x == [user |-> g.user, what |-> "password", at |-> at]
      <3>2. x \in verified
        BY <3>1 DEF KnownFor
      <3>3. RestsOn(p, x, LoginExpire)
        BY <2>1, <2>2, <2>3, <2>4, <3>1 DEF RestsOn
      <3> QED BY <3>2, <3>3
    <2>6. ASSUME c.creds = PBC_UWSECURID_CRED_ID
          PROVE  \E x \in verified : x.what = "token" /\ RestsOn(p, x, MinRideFree)
      <3>1. PICK at \in 0 .. g.create_ts :
                KnownFor(verified, g.user, "token", at) /\ g.create_ts < at + MinRideFree
        BY <2>2, <2>3, <2>6 DEF GrantBacked
      <3> DEFINE x == [user |-> g.user, what |-> "token", at |-> at]
      <3>2. x \in verified
        BY <3>1 DEF KnownFor
      <3>3. RestsOn(p, x, MinRideFree)
        BY <2>1, <2>2, <2>3, <2>4, <3>1 DEF RestsOn
      <3> QED BY <3>2, <3>3
    <2> QED BY <2>5, <2>6
  <1> QED BY <1>1, InvInit, InvNext, PagesAreGrantedHere, PTL DEF Spec
=============================================================================
