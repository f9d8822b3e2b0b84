------------------------- MODULE AppSessionsProofs -------------------------
(***************************************************************************)
(* What AppSessions guarantees for every set of users, servers, locations  *)
(* and windows, and for all lifetimes.                                     *)
(***************************************************************************)
EXTENDS AppSessions, TLAPS

(***************************************************************************)
(* Slots and headers.                                                      *)
(***************************************************************************)
\* What may be found in the slots of a location's server.
LEMMA SlotContents ==
    ASSUME NEW srv \in Servers
    PROVE  /\ GSlot(srv) \in Slots
           /\ Contents(GSlot(srv)) = {Nothing} \cup GrantingCookie
           /\ PreSlot(srv) \in Slots
           /\ Contents(PreSlot(srv)) = {Nothing} \cup Tokens
  <1>1. GSlot(srv) \in GSlots /\ PreSlot(srv) \in PreSlots
    BY DEF GSlots, PreSlots
  <1>2. \A k \in SSlots : k[1] = "pubcookie_s"
    BY DEF SSlots, SSlot
  <1>3. \A k \in GSlots : k[1] = "pubcookie_g"
    BY DEF GSlots, GSlot
  <1>4. \A k \in PreSlots : k[1] = "pubcookie_pre_s"
    BY DEF PreSlots, PreSlot
  <1> QED BY <1>1, <1>2, <1>3, <1>4 DEF Slots, Contents

\* A granting request may lie in the slot for one, and nowhere else is one looked for.
LEMMA ReqContents ==
    /\ ReqSlot \in Slots
    /\ Contents(ReqSlot) = {Nothing} \cup GrantingRequest
  <1>1. \A k \in SSlots : k[1] = "pubcookie_s"
    BY DEF SSlots, SSlot
  <1>2. \A k \in GSlots : k[1] = "pubcookie_g"
    BY DEF GSlots, GSlot
  <1>3. \A k \in PreSlots : k[1] = "pubcookie_pre_s"
    BY DEF PreSlots, PreSlot
  <1>4. ReqSlot[1] = "pubcookie_g_req"
    BY DEF ReqSlot
  <1> QED BY <1>1, <1>2, <1>3, <1>4 DEF Slots, Contents

\* What lies in a session slot is a session cookie or nothing.
LEMMA SessionContents ==
    ASSUME NEW l \in Locations
    PROVE  /\ SSlot(Config[l].srv, Config[l].sname) \in SSlots \cap Slots
           /\ Contents(SSlot(Config[l].srv, Config[l].sname)) = {Nothing} \cup SessionCookie
  BY DEF SSlots, Slots, Contents

\* Headers stay well formed as a handler adds to them.
LEMMA NoHeadersOK == HeadersOK(NoHeaders)
  BY DEF HeadersOK, NoHeaders

\* ... by setting one slot to what belongs there,
LEMMA SetCookieOK ==
    ASSUME NEW h, HeadersOK(h), NEW k \in Slots, NEW v \in Contents(k)
    PROVE  HeadersOK(SetCookie(h, k, v))
  BY DEF HeadersOK, SetCookie

\* ... or by clearing some;
LEMMA ClearCookiesOK ==
    ASSUME NEW h, HeadersOK(h), NEW K, K \subseteq Slots
    PROVE  HeadersOK(ClearCookies(h, K))
  BY DEF HeadersOK, ClearCookies, Contents

\* ... and so does the jar that receives them.
LEMMA ApplyHeadersOK ==
    ASSUME NEW j, DOMAIN j = Slots, HeadersOK(j), NEW h, HeadersOK(h)
    PROVE  DOMAIN ApplyHeaders(j, h) = Slots /\ HeadersOK(ApplyHeaders(j, h))
  BY DEF HeadersOK, ApplyHeaders

\* The directives of a location have the types of pubcookie_dir_rec.
LEMMA ConfigType ==
    ASSUME NEW l \in Locations
    PROVE  /\ Config[l] \in DirConfig
           /\ Config[l].srv \in Servers
           /\ Config[l].appid \in AppIds
           /\ Config[l].creds \in Creds
  BY ConfigAssumption DEF DirConfig, Servers, AppIds, Creds

(***************************************************************************)
(* The handlers.                                                           *)
(***************************************************************************)
\* A granting cookie is traded for a session only if it is meant for this
\* application and still young.
LEMMA GrantChecked ==
    ASSUME NEW l \in Locations, DOMAIN jar = Slots, HeadersOK(jar),
           pubcookie_user(Config[l], jar, clock) = "grant"
    PROVE  LET g == jar[GSlot(Config[l].srv)]
           IN /\ g \in GrantingCookie
              /\ g # Nothing
              /\ SameIdentity(Config[l], g)
              /\ check_exp(g.create_ts, GrantingExpire, clock)
              /\ ~Config[l].noprompt => g.user # NoUser
              /\ Config[l].session_reauth > 0 => g.reauth
  <1> DEFINE c == Config[l]
             g == jar[GSlot(c.srv)]
  <1>1. SessionVerdict(c, SessionData(c, jar), clock) # "grant"
    BY DEF SessionVerdict
  <1>2. HasGrant(c, jar) /\ GrantVerdict(c, g, jar[PreSlot(c.srv)], clock) = "grant"
    BY <1>1 DEF pubcookie_user
  <1>3. /\ check_exp(g.create_ts, GrantingExpire, clock) /\ SameIdentity(c, g)
        /\ ~c.noprompt => g.user # NoUser
        /\ c.session_reauth > 0 => g.reauth
    BY <1>2 DEF GrantVerdict
  <1>4. g # Nothing
    BY <1>2 DEF HasGrant, SeesGrant
  <1>5. g \in GrantingCookie
    BY <1>4, ConfigType, SlotContents DEF HeadersOK
  <1> QED BY <1>3, <1>4, <1>5

\* What is accepted as a session is a session cookie, though a granting
\* cookie for another application may lie where one is looked for.
LEMMA SessionChecked ==
    ASSUME NEW l \in Locations, DOMAIN jar = Slots, HeadersOK(jar),
           pubcookie_user(Config[l], jar, clock) = "session"
    PROVE  LET s == jar[SSlot(Config[l].srv, Config[l].sname)]
           IN /\ s \in SessionCookie
              /\ s # Nothing
              /\ s = SessionData(Config[l], jar)
              /\ LiveSession(Config[l], s, clock)
  <1> DEFINE c == Config[l]
             s == jar[SSlot(c.srv, c.sname)]
             d == SessionData(c, jar)
  <1>1. GrantVerdict(c, jar[GSlot(c.srv)], jar[PreSlot(c.srv)], clock) # "session"
    BY DEF GrantVerdict
  <1>2. ~HasGrant(c, jar) /\ SessionVerdict(c, d, clock) = "session"
    BY <1>1 DEF pubcookie_user
  <1>3. d # Nothing /\ LiveSession(c, d, clock)
    BY <1>2 DEF SessionVerdict
  <1>4. s # Nothing
    <2> SUFFICES ASSUME s = Nothing PROVE FALSE
      OBVIOUS
    <2>1. SeesGrant(c, jar) /\ ~ForeignGrant(c, jar) /\ d = jar[GSlot(c.srv)]
      BY <1>3 DEF SessionData
    <2>2. d.appid # c.appid
      BY <1>2, <2>1 DEF HasGrant, ForeignGrant
    <2> QED BY <1>3, <2>2 DEF LiveSession, SameIdentity
  <1>5. d = s
    BY <1>4 DEF SessionData
  <1>6. s \in SessionCookie
    BY <1>4, SessionContents DEF HeadersOK
  <1> QED BY <1>3, <1>4, <1>5, <1>6

\* The headers pubcookie_user adds name slots of the location's server.
LEMMA GrantHeadersOK ==
    ASSUME NEW l \in Locations
    PROVE  HeadersOK(GrantHeaders(Config[l], jar))
  <1> DEFINE c == Config[l]
  <1>1. GSlot(c.srv) \in Slots /\ PreSlot(c.srv) \in Slots
    BY ConfigType, SlotContents
  <1> QED BY <1>1, NoHeadersOK, ClearCookiesOK DEF GrantHeaders

\* So do those of stop_the_show and do_end_session_redirect.
LEMMA ClearAllOK ==
    ASSUME NEW l \in Locations, NEW h, HeadersOK(h)
    PROVE  HeadersOK(ClearAll(h, Config[l]))
  <1> DEFINE c == Config[l]
  <1>1. {GSlot(c.srv), PreSlot(c.srv), SSlot(c.srv, c.sname)} \subseteq Slots
    BY ConfigType, SlotContents, SessionContents
  <1> QED BY <1>1, ClearCookiesOK DEF ClearAll

\* auth_failed_handler asks for what the login server understands,
LEMMA MakeRequestType ==
    ASSUME NEW l \in Locations, NEW tok \in Tokens
    PROVE  MakeRequest(Config[l], l, tok) \in GrantingRequest
  BY ConfigType DEF MakeRequest, GrantingRequest, DirConfig

\* ... and sends it in the slots where it is looked for.
LEMMA RequestHeadersOK ==
    ASSUME NEW l \in Locations, NEW tok \in Tokens, NEW h, HeadersOK(h)
    PROVE  HeadersOK(RequestHeaders(h, Config[l], l, tok))
  <1> DEFINE c == Config[l]
             h1 == SetCookie(h, PreSlot(c.srv), tok)
  <1>1. HeadersOK(h1)
    BY ConfigType, SlotContents, SetCookieOK
  <1>2. HeadersOK(SetCookie(h1, ReqSlot, MakeRequest(c, l, tok)))
    BY <1>1, ReqContents, MakeRequestType, SetCookieOK
  <1> QED BY <1>2 DEF RequestHeaders

\* set_session_cookie makes session cookies of granting cookies,
LEMMA NewSessionType ==
    ASSUME NEW l \in Locations, NEW g \in GrantingCookie, NEW now \in Nat
    PROVE  NewSession(Config[l], g, now) \in SessionCookie
  BY ConfigType DEF NewSession, SessionCookie, GrantingCookie, DirConfig, Time

\* ... and libpbc_update_lastts of session cookies.
LEMMA TouchSessionType ==
    ASSUME NEW s \in SessionCookie, NEW now \in Nat
    PROVE  TouchSession(s, now) \in SessionCookie
  BY DEF TouchSession, SessionCookie, Time

\* create_cookie makes granting cookies of granting requests.
LEMMA GrantType ==
    ASSUME NEW q \in GrantingRequest, NEW u \in Users \cup {NoUser}, clock \in Nat
    PROVE  Grant(q, u) \in GrantingCookie
  BY DEF Grant, GrantingRequest, GrantingCookie, Time

(***************************************************************************)
(* Type correctness.                                                       *)
(***************************************************************************)
\* What the state of a window carries along.
LEMMA TabFields ==
    ASSUME NEW s, TabOK(s)
    PROVE  /\ s.pc \in {"goto", "logout"} => s.loc \in Locations
           /\ s.pc = "login" => s.greq \in GrantingRequest \cup {Nothing}
           /\ s.pc = "form" => s.greq \in GrantingRequest
           /\ s.pc = "reply" => s.cookie \in GrantingCookie /\ s.loc \in Locations
           /\ s.pc = "wait" => /\ s = Waiting(s.headers, s.next)
                               /\ HeadersOK(s.headers)
                               /\ s.next \in TabState
  BY DEF TabOK, TabState, Waiting

\* The states of a window that carry no headers.
LEMMA TabStates ==
    /\ Idle \in TabState
    /\ NoPage \in TabState
    /\ \A l \in Locations : GoTo(l) \in TabState /\ ToLogout(l) \in TabState
    /\ \A l \in Locations, u \in Users \cup {NoUser}, now \in Nat : Page(l, u, now) \in TabState
    /\ \A q \in GrantingRequest : Form(q) \in TabState
    /\ \A q \in GrantingRequest \cup {Nothing} : ToLogin(q) \in TabState
    /\ \A g \in GrantingCookie, l \in Locations : ToReply(g, l) \in TabState
  BY DEF TabState, Idle, NoPage, GoTo, ToLogout, Page, Form, ToLogin, ToReply, Time

\* A well-formed answer leaves every window well formed;
LEMMA AnswerOK ==
    ASSUME TypeOK, NEW t \in Tabs, NEW h, HeadersOK(h), NEW next \in TabState,
           Answer(t, h, next)
    PROVE  DOMAIN tab' = Tabs /\ \A x \in Tabs : TabOK(tab'[x])
  BY DEF TypeOK, Answer, Waiting, TabOK

\* ... so does a step of the window itself.
LEMMA AnswerAtOnceOK ==
    ASSUME TypeOK, NEW t \in Tabs, NEW next \in TabState, AnswerAtOnce(t, next)
    PROVE  DOMAIN tab' = Tabs /\ \A x \in Tabs : TabOK(tab'[x])
  BY DEF TypeOK, AnswerAtOnce, TabOK

\* A request brought to the login server is one, if there is one at all.
LEMMA BroughtType ==
    ASSUME TypeOK, NEW t \in Tabs, tab[t].pc = "login"
    PROVE  Brought(t) \in GrantingRequest \cup {Nothing}
  <1>1. TabOK(tab[t])
    BY DEF TypeOK
  <1>2. jar[ReqSlot] \in GrantingRequest \cup {Nothing}
    BY ReqContents DEF TypeOK, HeadersOK
  <1> QED BY <1>1, <1>2, TabFields DEF Brought

\* Init has every cookie, window and history in place.
LEMMA TypeInit == Init => TypeOK
  <1> SUFFICES ASSUME Init PROVE TypeOK
    OBVIOUS
  <1>1. DOMAIN jar = Slots /\ HeadersOK(jar)
    BY DEF Init, HeadersOK, Contents
  <1>2. DOMAIN tab = Tabs /\ \A t \in Tabs : TabOK(tab[t])
    BY TabStates DEF Init, TabOK
  <1> QED BY <1>1, <1>2 DEF Init, TypeOK, Time

\* The record of the sessions under way to their end.
LEMMA EndsType ==
    ASSUME TypeOK, NEW t \in Tabs, NEW k \in SSlots, Ends(t, k)
    PROVE  /\ ending' \in [Tabs -> SUBSET SSlots]
           /\ UNCHANGED <<granted, active, ended>>
  BY DEF Ends, TypeOK

\* Every action keeps the types.
LEMMA TypeRequest ==
    ASSUME TypeOK, NEW t \in Tabs, Request(t)
    PROVE  TypeOK'
  <1> PICK l \in Locations :
          \/ EndSession(t, l)
          \/ do_end_session_redirect(t, l)
          \/ OpenSession(t, l)
          \/ UseSession(t, l)
          \/ AskLogin(t, l)
          \/ StopTheShow(t, l)
          \/ Unauthorized(t, l)
    BY DEF Request
  <1> DEFINE c == Config[l]
             k == SessionSlot(l)
             h == GrantHeaders(c, jar)
  <1> USE DEF history
  <1>0. /\ k \in SSlots \cap Slots
        /\ Contents(k) = {Nothing} \cup SessionCookie
        /\ HeadersOK(h)
    BY SessionContents, GrantHeadersOK DEF SessionSlot
  <1>1. CASE EndSession(t, l)
    <2>1. HeadersOK(ClearCookies(NoHeaders, {k}))
      BY <1>0, NoHeadersOK, ClearCookiesOK
    <2>2. Page(l, NoUser, clock) \in TabState
      BY TabStates DEF TypeOK
    <2>3. DOMAIN tab' = Tabs /\ \A x \in Tabs : TabOK(tab'[x])
      BY <1>1, <2>1, <2>2, AnswerOK DEF EndSession
    <2> QED BY <1>0, <1>1, <2>3, EndsType DEF EndSession, TypeOK
  <1>2. CASE do_end_session_redirect(t, l)
    <2>1. HeadersOK(ClearAll(NoHeaders, c))
      BY NoHeadersOK, ClearAllOK
    <2>2. DOMAIN tab' = Tabs /\ \A x \in Tabs : TabOK(tab'[x])
      BY <1>2, <2>1, TabStates, AnswerOK DEF do_end_session_redirect
    <2> QED BY <1>0, <1>2, <2>2, EndsType DEF do_end_session_redirect, TypeOK
  <1>3. CASE OpenSession(t, l)
    <2> DEFINE g == jar[GSlot(c.srv)]
    <2>1. g \in GrantingCookie
      BY <1>3, GrantChecked DEF OpenSession, Verdict, TypeOK
    <2>2. HeadersOK(SetCookie(h, k, NewSession(c, g, clock)))
      BY <1>0, <2>1, NewSessionType, SetCookieOK DEF TypeOK
    <2>3. Page(l, g.user, clock) \in TabState
      BY <2>1, TabStates DEF GrantingCookie, TypeOK
    <2>4. DOMAIN tab' = Tabs /\ \A x \in Tabs : TabOK(tab'[x])
      BY <1>3, <2>2, <2>3, AnswerOK DEF OpenSession
    <2>5. active' \in [SSlots -> Time] /\ ended' \subseteq SSlots
      BY <1>0, <1>3 DEF OpenSession, TypeOK, Time
    <2> QED BY <1>3, <2>4, <2>5 DEF OpenSession, TypeOK
  <1>4. CASE UseSession(t, l)
    <2> DEFINE s == SessionData(c, jar)
               h2 == IF c.inact_exp > 0 THEN SetCookie(h, k, TouchSession(s, clock)) ELSE h
    <2>1. s \in SessionCookie
      BY <1>4, SessionChecked DEF UseSession, Verdict, TypeOK, SessionSlot
    <2>2. HeadersOK(h2)
      BY <1>0, <2>1, TouchSessionType, SetCookieOK DEF TypeOK
    <2>3. Page(l, s.user, clock) \in TabState
      BY <2>1, TabStates DEF SessionCookie, TypeOK
    <2>4. DOMAIN tab' = Tabs /\ \A x \in Tabs : TabOK(tab'[x])
      BY <1>4, <2>2, <2>3, AnswerOK DEF UseSession
    <2>5. active' \in [SSlots -> Time]
      BY <1>0, <1>4 DEF UseSession, TypeOK, Time
    <2> QED BY <1>4, <2>4, <2>5 DEF UseSession, TypeOK
  <1>5. CASE AskLogin(t, l)
    <2> PICK tok \in Tokens :
            Answer(t, RequestHeaders(h, c, l, tok),
                   ToLogin(IF UsePost THEN MakeRequest(c, l, tok) ELSE Nothing))
      BY <1>5 DEF AskLogin
    <2>1. HeadersOK(RequestHeaders(h, c, l, tok))
      BY <1>0, RequestHeadersOK
    <2>2. ToLogin(IF UsePost THEN MakeRequest(c, l, tok) ELSE Nothing) \in TabState
      BY MakeRequestType, TabStates
    <2>3. DOMAIN tab' = Tabs /\ \A x \in Tabs : TabOK(tab'[x])
      BY <2>1, <2>2, AnswerOK
    <2> QED BY <1>5, <2>3 DEF AskLogin, TypeOK
  <1>6. CASE StopTheShow(t, l)
    <2>1. HeadersOK(ClearAll(h, c))
      BY <1>0, ClearAllOK
    <2>2. DOMAIN tab' = Tabs /\ \A x \in Tabs : TabOK(tab'[x])
      BY <1>6, <2>1, TabStates, AnswerOK DEF StopTheShow
    <2> QED BY <1>6, <2>2 DEF StopTheShow, TypeOK
  <1>7. CASE Unauthorized(t, l)
    <2>1. DOMAIN tab' = Tabs /\ \A x \in Tabs : TabOK(tab'[x])
      BY <1>7, TabStates, AnswerAtOnceOK DEF Unauthorized
    <2> QED BY <1>7, <2>1 DEF Unauthorized, TypeOK
  <1> QED BY <1>1, <1>2, <1>3, <1>4, <1>5, <1>6, <1>7

\* The steps of the login server keep the types.
LEMMA TypeLogin ==
    ASSUME TypeOK, NEW t \in Tabs, Login(t)
    PROVE  TypeOK'
  <1> USE DEF history
  <1>0. TabOK(tab[t])
    BY DEF TypeOK
  <1>1. CASE LoginStatus(t) \/ LoginLogout(t)
    <2>1. DOMAIN tab' = Tabs /\ \A x \in Tabs : TabOK(tab'[x])
      BY <1>1, TabStates, AnswerAtOnceOK DEF LoginStatus, LoginLogout
    <2> QED BY <1>1, <2>1 DEF LoginStatus, LoginLogout, TypeOK
  <1>2. CASE LoginForm(t)
    <2>1. Form(Brought(t)) \in TabState
      BY <1>2, BroughtType, TabStates DEF LoginForm
    <2>2. DOMAIN tab' = Tabs /\ \A x \in Tabs : TabOK(tab'[x])
      BY <1>2, <2>1, AnswerAtOnceOK DEF LoginForm
    <2> QED BY <1>2, <2>2 DEF LoginForm, TypeOK
  <1>3. ASSUME NEW u \in Users \cup {NoUser}, LoginGrant(t, u) PROVE TypeOK'
    <2> DEFINE q == IF tab[t].pc = "form" THEN tab[t].greq ELSE Brought(t)
               g == Grant(q, u)
               h == SetCookie(ClearCookies(NoHeaders, {ReqSlot}), GSlot(q.srv), g)
    <2>1. q \in GrantingRequest
      BY <1>0, <1>3, TabFields, BroughtType DEF LoginGrant
    <2>2. g \in GrantingCookie
      BY <2>1, GrantType DEF TypeOK
    <2>3. q.srv \in Servers /\ q.uri \in Locations
      BY <2>1 DEF GrantingRequest
    <2>4. HeadersOK(h)
      BY <2>2, <2>3, ReqContents, SlotContents, NoHeadersOK, ClearCookiesOK, SetCookieOK
    <2>5. AnswerAtOnce(t, ToReply(g, q.uri)) \/ Answer(t, h, GoTo(q.uri))
      BY <1>3 DEF LoginGrant
    <2>6. ToReply(g, q.uri) \in TabState /\ GoTo(q.uri) \in TabState
      BY <2>2, <2>3, TabStates
    <2>7. DOMAIN tab' = Tabs /\ \A x \in Tabs : TabOK(tab'[x])
      BY <2>4, <2>5, <2>6, AnswerOK, AnswerAtOnceOK
    <2>8. granted' \subseteq GrantingCookie
      BY <1>3, <2>2 DEF LoginGrant, TypeOK
    <2> QED BY <1>3, <2>7, <2>8 DEF LoginGrant, TypeOK
  <1>4. CASE login_reply_handler(t)
    <2> DEFINE g == tab[t].cookie
    <2>1. g \in GrantingCookie /\ tab[t].loc \in Locations
      BY <1>0, <1>4, TabFields DEF login_reply_handler
    <2>2. HeadersOK(SetCookie(NoHeaders, GSlot(g.srv), g))
      BY <2>1, SlotContents, NoHeadersOK, SetCookieOK DEF GrantingCookie
    <2>3. DOMAIN tab' = Tabs /\ \A x \in Tabs : TabOK(tab'[x])
      BY <1>4, <2>1, <2>2, TabStates, AnswerOK DEF login_reply_handler
    <2> QED BY <1>4, <2>3 DEF login_reply_handler, TypeOK
  <1> QED BY <1>1, <1>2, <1>3, <1>4 DEF Login

\* The browser's receiving an answer keeps the types.
LEMMA TypeReceive ==
    ASSUME TypeOK, NEW t \in Tabs, Receive(t)
    PROVE  TypeOK'
  <1>1. HeadersOK(tab[t].headers) /\ tab[t].next \in TabState
    BY TabFields DEF Receive, TypeOK
  <1>2. DOMAIN jar' = Slots /\ HeadersOK(jar')
    BY <1>1, ApplyHeadersOK DEF Receive, TypeOK
  <1>3. DOMAIN tab' = Tabs /\ \A x \in Tabs : TabOK(tab'[x])
    BY <1>1, TabStates DEF Receive, TypeOK, TabOK
  <1>4. ended' \subseteq SSlots
    BY DEF Receive, TypeOK
  <1> QED BY <1>2, <1>3, <1>4 DEF Receive, TypeOK

\* The types are inductive by themselves.
LEMMA TypeNext == TypeOK /\ [Next]_vars => TypeOK'
  <1> SUFFICES ASSUME TypeOK, [Next]_vars PROVE TypeOK'
    OBVIOUS
  <1> USE DEF history
  <1>1. CASE UNCHANGED vars
    BY <1>1 DEF vars, TypeOK
  <1>2. CASE Tick
    BY <1>2 DEF Tick, TypeOK
  <1>3. ASSUME NEW t \in Tabs, Lose(t) PROVE TypeOK'
    <2>1. DOMAIN tab' = Tabs /\ \A x \in Tabs : TabOK(tab'[x])
      BY <1>3, TabStates DEF Lose, TypeOK, TabOK
    <2> QED BY <1>3, <2>1 DEF Lose, TypeOK
  <1>4. ASSUME NEW t \in Tabs, NEW l \in Locations, Browse(t, l) PROVE TypeOK'
    <2>1. DOMAIN tab' = Tabs /\ \A x \in Tabs : TabOK(tab'[x])
      BY <1>4, TabStates DEF Browse, TypeOK, TabOK
    <2> QED BY <1>4, <2>1 DEF Browse, TypeOK
  <1>5. ASSUME NEW t \in Tabs, BrowseLogin(t) PROVE TypeOK'
    <2>1. DOMAIN tab' = Tabs /\ \A x \in Tabs : TabOK(tab'[x])
      BY <1>5, TabStates DEF BrowseLogin, TypeOK, TabOK
    <2> QED BY <1>5, <2>1 DEF BrowseLogin, TypeOK
  <1> QED BY <1>1, <1>2, <1>3, <1>4, <1>5, TypeRequest, TypeLogin, TypeReceive DEF Next

\* Every cookie, request and answer has the shape its place calls for,
\* whatever is protected and however many windows there are: what
\* pubcookie_user, auth_failed_handler, login_reply_handler and the login
\* server put into a slot is what they look for there.
THEOREM TypeCorrect == Spec => []TypeOK
  BY TypeInit, TypeNext, PTL DEF Spec

\* A step that is not about window t leaves it alone: if its request is
\* answered with a page, it is for that very location and by a grant or a
\* session, unless the location ends one.
LEMMA ServedBy ==
    ASSUME TypeOK, NEW t \in Tabs, NEW l \in Locations, [Next]_vars,
           tab[t] = GoTo(l), ~EndsSession(Config[l]),
           tab'[t].pc = "wait", tab'[t].next.pc = "page"
    PROVE  OpenSession(t, l) \/ UseSession(t, l)
  <1> USE DEF history
  <1>1. tab[t] = [pc |-> "goto", loc |-> l] /\ tab'[t].pc = "wait" /\ tab'[t].next.pc = "page"
    BY DEF GoTo
  <1>2. tab' # tab
    BY <1>1
  <1>3. \A x \in Tabs : \A s, h :
            /\ AnswerAtOnce(x, s) => x # t \/ s.pc = "wait"
            /\ x # t => ~Answer(x, h, s) /\ ~AnswerAtOnce(x, s)
    BY <1>1 DEF TypeOK, Answer, AnswerAtOnce
  <1>4. ASSUME NEW x \in Tabs, Request(x) PROVE OpenSession(t, l) \/ UseSession(t, l)
    <2> PICK m \in Locations :
            \/ EndSession(x, m)
            \/ do_end_session_redirect(x, m)
            \/ OpenSession(x, m)
            \/ UseSession(x, m)
            \/ AskLogin(x, m)
            \/ StopTheShow(x, m)
            \/ Unauthorized(x, m)
      BY <1>4 DEF Request
    <2>1. x = t
      BY <1>3 DEF EndSession, do_end_session_redirect, OpenSession, UseSession, AskLogin,
             StopTheShow, Unauthorized
    <2>2. tab[t] = GoTo(m)
      BY <2>1 DEF EndSession, do_end_session_redirect, OpenSession, UseSession, AskLogin,
             StopTheShow, Unauthorized, Asked, Verdict
    <2>3. m = l
      BY <1>1, <2>2 DEF GoTo
    <2>4. ~EndSession(x, m)
      BY <2>3 DEF EndSession
    <2>5. \A h, n : Answer(t, h, n) => n.pc = "page"
      BY <1>1 DEF TypeOK, Answer, Waiting
    <2>6. ~do_end_session_redirect(x, m) /\ ~AskLogin(x, m) /\ ~StopTheShow(x, m)
      <3>1. ToLogout(m).pc # "page" /\ NoPage.pc # "page" /\ \A q : ToLogin(q).pc # "page"
        BY DEF ToLogout, ToLogin, NoPage
      <3> QED BY <2>1, <2>5, <3>1 DEF do_end_session_redirect, AskLogin, StopTheShow
    <2>7. ~Unauthorized(x, m)
      BY <1>3, <2>1 DEF Unauthorized, Idle
    <2> QED BY <2>1, <2>3, <2>4, <2>6, <2>7
  <1>5. ASSUME NEW x \in Tabs, Login(x) PROVE FALSE
    <2>1. x = t
      BY <1>3, <1>5 DEF Login, LoginStatus, LoginLogout, LoginForm, LoginGrant,
           login_reply_handler
    <2>2. tab[t].pc \in {"login", "form", "logout", "reply"}
      BY <1>5, <2>1 DEF Login, LoginStatus, LoginLogout, LoginForm, LoginGrant,
             login_reply_handler
    <2> QED BY <1>1, <2>2
  <1>6. ASSUME NEW x \in Tabs, Receive(x) \/ Lose(x) PROVE FALSE
    BY <1>1, <1>6 DEF Receive, Lose, TypeOK
  <1>7. ASSUME NEW x \in Tabs, NEW m \in Locations, Browse(x, m) PROVE FALSE
    BY <1>1, <1>7 DEF Browse, TypeOK
  <1>8. ASSUME NEW x \in Tabs, BrowseLogin(x) PROVE FALSE
    BY <1>1, <1>8 DEF BrowseLogin, TypeOK
  <1> QED BY <1>2, <1>4, <1>5, <1>6, <1>7, <1>8 DEF Next, Tick, vars

(***************************************************************************)
(* Where every page comes from.  The invariants about served pages are not *)
(* inductive: a page may be served on a session cookie that was set long   *)
(* ago, or is still under way to the browser.  So what is shown to be      *)
(* inductive follows a grant through every place it passes: the cookie in  *)
(* the jar or in an answer, the session made from it, the page.            *)
(***************************************************************************)
\* No location says "PubcookieSessionCauseReAuth off".
NoReauthOff == \A l \in Locations : Config[l].session_reauth # 0

\* Session cookie s was made from a grant of G while that could be traded.
Traces(G, s) ==
    \E g \in G :
        /\ g.user = s.user /\ g.srv = s.srv /\ g.appid = s.appid /\ g.creds = s.creds
        /\ s.create_ts < g.create_ts + GrantingExpire
        /\ NoReauthOff /\ s.tok = ReauthMark => g.reauth

Backed(G, k, v) ==
    /\ k \in GSlots /\ v # Nothing => v \in G
    /\ k \in SSlots /\ v # Nothing => Traces(G, v)

HeadersBacked(G, h) == \A k \in DOMAIN h : Backed(G, k, h[k])

\* A page for user u of location l, served at the instant at.
PageBacked(G, l, u, at) ==
    LET c == Config[l] IN
    ~EndsSession(c) =>
        /\ ~c.noprompt => u \in Users
        /\ \E g \in G : /\ GrantFor(g, c, u)
                        /\ g.create_ts <= at
                        /\ at < g.create_ts + GrantingExpire + c.hard_exp
                        /\ NoReauthOff /\ c.session_reauth > 0 => g.reauth

StateBacked(G, s) ==
    /\ s.pc = "reply" => s.cookie \in G
    /\ s.pc = "page" => PageBacked(G, s.loc, s.user, s.at)

TabBacked(G, s) ==
    IF s.pc = "wait" THEN HeadersBacked(G, s.headers) /\ StateBacked(G, s.next)
    ELSE StateBacked(G, s)

GrantsStamped == \A g \in granted : g.create_ts <= clock

IInv ==
    /\ TypeOK
    /\ GrantsStamped
    /\ HeadersBacked(granted, jar)
    /\ \A t \in Tabs : TabBacked(granted, tab[t])

\* What is backed stays so as more is granted.
LEMMA StaysBacked ==
    ASSUME NEW G, NEW H, G \subseteq H
    PROVE  /\ \A h : HeadersBacked(G, h) => HeadersBacked(H, h)
           /\ \A s : TabBacked(G, s) => TabBacked(H, s)
  <1>1. \A k, v : Backed(G, k, v) => Backed(H, k, v)
    BY DEF Backed, Traces
  <1>2. \A h : HeadersBacked(G, h) => HeadersBacked(H, h)
    BY <1>1 DEF HeadersBacked
  <1>3. \A s : StateBacked(G, s) => StateBacked(H, s)
    BY DEF StateBacked, PageBacked
  <1> QED BY <1>2, <1>3 DEF TabBacked

\* The slots of the three kinds are different ones.
LEMMA SlotsDiffer ==
    /\ GSlots \cap SSlots = {}
    /\ PreSlots \cap (GSlots \cup SSlots) = {}
    /\ ReqSlot \notin GSlots \cup SSlots
  BY DEF GSlots, SSlots, PreSlots, GSlot, SSlot, PreSlot, ReqSlot

\* Clearing cookies, and setting a pre-session cookie or a granting request,
\* calls for no grant.
LEMMA ClearedBacked ==
    ASSUME NEW G, NEW h, HeadersBacked(G, h), NEW K
    PROVE  HeadersBacked(G, ClearCookies(h, K))
  BY DEF HeadersBacked, ClearCookies, Backed

\* No header needs a grant;
LEMMA NoHeadersBacked == \A G : HeadersBacked(G, NoHeaders)
  BY DEF HeadersBacked, NoHeaders

\* ... a header that is backed joins others that are;
LEMMA SetBacked ==
    ASSUME NEW G, NEW h, HeadersBacked(G, h), NEW k, NEW v, Backed(G, k, v)
    PROVE  HeadersBacked(G, SetCookie(h, k, v))
  BY DEF HeadersBacked, SetCookie

\* ... and a request for a login needs none.
LEMMA RequestBacked ==
    ASSUME NEW G, NEW h, HeadersBacked(G, h), NEW l \in Locations, NEW tok
    PROVE  HeadersBacked(G, RequestHeaders(h, Config[l], l, tok))
  <1> DEFINE c == Config[l]
             h1 == SetCookie(h, PreSlot(c.srv), tok)
  <1>1. PreSlot(c.srv) \in PreSlots
    BY ConfigType DEF PreSlots
  <1>2. HeadersBacked(G, h1)
    BY <1>1, SlotsDiffer, SetBacked DEF Backed
  <1>3. HeadersBacked(G, SetCookie(h1, ReqSlot, MakeRequest(c, l, tok)))
    BY <1>2, SlotsDiffer, SetBacked DEF Backed
  <1> QED BY <1>3 DEF RequestHeaders

\* Headers that are backed leave a jar backed.
LEMMA ApplyBacked ==
    ASSUME NEW G, NEW j, HeadersBacked(G, j), NEW h, HeadersBacked(G, h)
    PROVE  HeadersBacked(G, ApplyHeaders(j, h))
  BY DEF HeadersBacked, ApplyHeaders

\* An answer that is backed leaves every window backed.
LEMMA AnswerBacked ==
    ASSUME IInv, NEW t \in Tabs, granted \subseteq granted', NEW h, NEW next,
           \/ Answer(t, h, next) /\ HeadersBacked(granted', h)
           \/ AnswerAtOnce(t, next) /\ next \in TabState,
           StateBacked(granted', next)
    PROVE  \A x \in Tabs : TabBacked(granted', tab'[x])
  <1>1. \A x \in Tabs : TabBacked(granted', tab[x])
    BY StaysBacked DEF IInv
  <1>2. CASE Answer(t, h, next) /\ HeadersBacked(granted', h)
    BY <1>1, <1>2 DEF IInv, TypeOK, Answer, Waiting, TabBacked
  <1>3. CASE AnswerAtOnce(t, next) /\ next \in TabState
    <2>1. next.pc # "wait"
      BY <1>3 DEF TabState
    <2> QED BY <1>1, <1>3, <2>1 DEF IInv, TypeOK, AnswerAtOnce, TabBacked
  <1> QED BY <1>2, <1>3

\* Trading a grant: the session it makes traces back to it, as does the page.
LEMMA OpenBacked ==
    ASSUME IInv, NEW l \in Locations, pubcookie_user(Config[l], jar, clock) = "grant"
    PROVE  LET g == jar[GSlot(Config[l].srv)]
           IN /\ Traces(granted, NewSession(Config[l], g, clock))
              /\ PageBacked(granted, l, g.user, clock)
  <1> DEFINE c == Config[l]
             g == jar[GSlot(c.srv)]
             s == NewSession(c, g, clock)
  <1>1. /\ g \in GrantingCookie /\ g # Nothing
        /\ SameIdentity(c, g)
        /\ clock < g.create_ts + GrantingExpire
        /\ ~c.noprompt => g.user # NoUser
        /\ c.session_reauth > 0 => g.reauth
    BY GrantChecked, ExpireAssumption DEF IInv, TypeOK, check_exp, GrantingCookie, Time
  <1>2. g \in granted
    <2>1. GSlot(c.srv) \in GSlots /\ GSlot(c.srv) \in Slots
      BY ConfigType, SlotContents DEF GSlots
    <2> QED BY <1>1, <2>1 DEF IInv, TypeOK, HeadersBacked, Backed
  <1>3. c.session_reauth \in Int /\ c.hard_exp \in Nat /\ clock \in Nat
    BY ConfigType DEF DirConfig, IInv, TypeOK
  <1>4. NoReauthOff /\ s.tok = ReauthMark => g.reauth
    BY <1>1, <1>3 DEF NewSession, NoReauthOff, ReauthMark, NoReauthMark
  <1>5. Traces(granted, s)
    BY <1>1, <1>2, <1>4 DEF Traces, NewSession, SameIdentity
  <1>6. g.create_ts <= clock /\ g.create_ts \in Int /\ g.user \in Users \cup {NoUser}
    BY <1>1, <1>2 DEF IInv, GrantsStamped, GrantingCookie, Time
  <1>7. PageBacked(granted, l, g.user, clock)
    BY <1>1, <1>2, <1>3, <1>6, ExpireAssumption DEF PageBacked, GrantFor, SameIdentity
  <1> QED BY <1>5, <1>7

\* Using a session: its grant is the page's, and touching it keeps it so.
LEMMA UseBacked ==
    ASSUME IInv, NEW l \in Locations, pubcookie_user(Config[l], jar, clock) = "session"
    PROVE  LET s == SessionData(Config[l], jar)
           IN /\ Traces(granted, TouchSession(s, clock))
              /\ PageBacked(granted, l, s.user, clock)
  <1> DEFINE c == Config[l]
             s == SessionData(c, jar)
  <1>1. /\ s \in SessionCookie /\ s # Nothing /\ LiveSession(c, s, clock)
        /\ s = jar[SessionSlot(l)]
    BY SessionChecked DEF IInv, TypeOK, SessionSlot
  <1>2. Traces(granted, s)
    <2>1. SessionSlot(l) \in SSlots \cap Slots
      BY SessionContents DEF SessionSlot
    <2> QED BY <1>1, <2>1 DEF IInv, TypeOK, HeadersBacked, Backed
  <1>3. Traces(granted, TouchSession(s, clock))
    BY <1>1, <1>2 DEF Traces, TouchSession, SessionCookie
  <1>4. PICK g \in granted :
            /\ g.user = s.user /\ g.srv = s.srv /\ g.appid = s.appid /\ g.creds = s.creds
            /\ s.create_ts < g.create_ts + GrantingExpire
            /\ NoReauthOff /\ s.tok = ReauthMark => g.reauth
    BY <1>2 DEF Traces
  <1>5. /\ c.session_reauth \in Int /\ c.hard_exp \in Nat /\ clock \in Nat
        /\ g.create_ts \in Int /\ s.create_ts \in Int
        /\ s.user \in Users \cup {NoUser} /\ s.tok \in {NoReauthMark, ReauthMark}
    BY <1>1, ConfigType DEF DirConfig, IInv, TypeOK, GrantingCookie, SessionCookie, Time
  <1>6. g.create_ts <= clock
    BY DEF IInv, GrantsStamped
  <1>7. GrantFor(g, c, s.user)
    BY <1>1, <1>4 DEF GrantFor, LiveSession, SameIdentity
  <1>8. clock < g.create_ts + GrantingExpire + c.hard_exp
    BY <1>1, <1>4, <1>5, ExpireAssumption DEF LiveSession, check_exp
  <1>9. /\ ~c.noprompt => s.user \in Users
        /\ NoReauthOff /\ c.session_reauth > 0 => g.reauth
    BY <1>1, <1>4, <1>5 DEF LiveSession
  <1>10. PageBacked(granted, l, s.user, clock)
    BY <1>6, <1>7, <1>8, <1>9 DEF PageBacked
  <1> QED BY <1>3, <1>10

\* Initially nothing is granted and nothing needs to be.
LEMMA IInvInit == Init => IInv
  <1> SUFFICES ASSUME Init PROVE IInv
    OBVIOUS
  <1>1. HeadersBacked(granted, jar)
    BY DEF Init, HeadersBacked, Backed
  <1>2. \A t \in Tabs : TabBacked(granted, tab[t])
    BY DEF Init, Idle, TabBacked, StateBacked
  <1> QED BY <1>1, <1>2, TypeInit DEF Init, IInv, GrantsStamped

\* A request changes neither the jar nor what was granted.
LEMMA IInvRequest ==
    ASSUME IInv, NEW t \in Tabs, Request(t)
    PROVE  IInv'
  <1> PICK l \in Locations :
          \/ EndSession(t, l)
          \/ do_end_session_redirect(t, l)
          \/ OpenSession(t, l)
          \/ UseSession(t, l)
          \/ AskLogin(t, l)
          \/ StopTheShow(t, l)
          \/ Unauthorized(t, l)
    BY DEF Request
  <1> DEFINE c == Config[l]
             k == SessionSlot(l)
             h == GrantHeaders(c, jar)
  <1>1. UNCHANGED <<clock, jar, granted>>
    BY DEF EndSession, do_end_session_redirect, OpenSession, UseSession, AskLogin,
           StopTheShow, Unauthorized, Ends, history
  <1>2. HeadersBacked(granted', h)
    BY NoHeadersBacked, ClearedBacked DEF GrantHeaders
  <1>3. k \in SSlots /\ k \notin GSlots
    BY SessionContents, SlotsDiffer DEF SessionSlot
  <1>4. \A x \in Tabs : TabBacked(granted', tab'[x])
    <2>1. CASE EndSession(t, l)
      <3>1. HeadersBacked(granted', ClearCookies(NoHeaders, {k}))
        BY NoHeadersBacked, ClearedBacked
      <3>2. StateBacked(granted', Page(l, NoUser, clock))
        BY <2>1 DEF EndSession, StateBacked, Page, PageBacked
      <3> QED BY <1>1, <2>1, <3>1, <3>2, AnswerBacked DEF EndSession
    <2>2. CASE do_end_session_redirect(t, l)
      <3>1. HeadersBacked(granted', ClearAll(NoHeaders, c))
        BY NoHeadersBacked, ClearedBacked DEF ClearAll
      <3>2. StateBacked(granted', ToLogout(l))
        BY DEF StateBacked, ToLogout
      <3> QED BY <1>1, <2>2, <3>1, <3>2, AnswerBacked DEF do_end_session_redirect
    <2>3. CASE OpenSession(t, l)
      <3> DEFINE g == jar[GSlot(c.srv)]
                 s == NewSession(c, g, clock)
      <3>1. Traces(granted, s) /\ PageBacked(granted, l, g.user, clock)
        BY <2>3, OpenBacked DEF OpenSession, Verdict
      <3>2. HeadersBacked(granted', SetCookie(h, k, s))
        BY <1>1, <1>2, <1>3, <3>1, SetBacked DEF Backed
      <3>3. StateBacked(granted', Page(l, g.user, clock))
        BY <1>1, <3>1 DEF StateBacked, Page
      <3> QED BY <1>1, <2>3, <3>2, <3>3, AnswerBacked DEF OpenSession
    <2>4. CASE UseSession(t, l)
      <3> DEFINE s == SessionData(c, jar)
                 h2 == IF c.inact_exp > 0 THEN SetCookie(h, k, TouchSession(s, clock)) ELSE h
      <3>1. Traces(granted, TouchSession(s, clock)) /\ PageBacked(granted, l, s.user, clock)
        BY <2>4, UseBacked DEF UseSession, Verdict
      <3>2. HeadersBacked(granted', h2)
        BY <1>1, <1>2, <1>3, <3>1, SetBacked DEF Backed
      <3>3. StateBacked(granted', Page(l, s.user, clock))
        BY <1>1, <3>1 DEF StateBacked, Page
      <3> QED BY <1>1, <2>4, <3>2, <3>3, AnswerBacked DEF UseSession
    <2>5. CASE AskLogin(t, l)
      <3> PICK tok \in Tokens :
              Answer(t, RequestHeaders(h, c, l, tok),
                     ToLogin(IF UsePost THEN MakeRequest(c, l, tok) ELSE Nothing))
        BY <2>5 DEF AskLogin
      <3>1. HeadersBacked(granted', RequestHeaders(h, c, l, tok))
        BY <1>2, RequestBacked
      <3>2. \A q : StateBacked(granted', ToLogin(q))
        BY DEF StateBacked, ToLogin
      <3> QED BY <1>1, <3>1, <3>2, AnswerBacked
    <2>6. CASE StopTheShow(t, l)
      <3>1. HeadersBacked(granted', ClearAll(h, c))
        BY <1>2, ClearedBacked DEF ClearAll
      <3>2. StateBacked(granted', NoPage)
        BY DEF StateBacked, NoPage
      <3> QED BY <1>1, <2>6, <3>1, <3>2, AnswerBacked DEF StopTheShow
    <2>7. CASE Unauthorized(t, l)
      <3>1. StateBacked(granted', Idle)
        BY DEF StateBacked, Idle
      <3> QED BY <1>1, <2>7, <3>1, TabStates, AnswerBacked DEF Unauthorized
    <2> QED BY <2>1, <2>2, <2>3, <2>4, <2>5, <2>6, <2>7
  <1>5. TypeOK'
    BY TypeRequest DEF IInv
  <1> QED BY <1>1, <1>4, <1>5 DEF IInv, GrantsStamped

\* The login server puts into its answer just what it grants.
LEMMA IInvLogin ==
    ASSUME IInv, NEW t \in Tabs, Login(t)
    PROVE  IInv'
  <1>0. TypeOK'
    BY TypeLogin DEF IInv
  <1> USE DEF history
  <1>1. StateBacked(granted', Idle) /\ \A q : StateBacked(granted', Form(q))
    BY DEF StateBacked, Idle, Form
  <1>2. CASE LoginStatus(t) \/ LoginLogout(t)
    <2>1. \A x \in Tabs : TabBacked(granted', tab'[x])
      BY <1>1, <1>2, TabStates, AnswerBacked DEF LoginStatus, LoginLogout
    <2> QED BY <1>0, <1>2, <2>1 DEF LoginStatus, LoginLogout, IInv, GrantsStamped
  <1>3. CASE LoginForm(t)
    <2>1. Form(Brought(t)) \in TabState
      BY <1>3, BroughtType, TabStates DEF LoginForm, IInv
    <2>2. \A x \in Tabs : TabBacked(granted', tab'[x])
      BY <1>1, <1>3, <2>1, AnswerBacked DEF LoginForm
    <2> QED BY <1>0, <1>3, <2>2 DEF LoginForm, IInv, GrantsStamped
  <1>4. ASSUME NEW u \in Users \cup {NoUser}, LoginGrant(t, u) PROVE IInv'
    <2> DEFINE q == IF tab[t].pc = "form" THEN tab[t].greq ELSE Brought(t)
               g == Grant(q, u)
               h == SetCookie(ClearCookies(NoHeaders, {ReqSlot}), GSlot(q.srv), g)
    <2>1. granted' = granted \cup {g} /\ UNCHANGED <<clock, jar>>
      BY <1>4 DEF LoginGrant
    <2>2. AnswerAtOnce(t, ToReply(g, q.uri)) \/ Answer(t, h, GoTo(q.uri))
      BY <1>4 DEF LoginGrant
    <2>3. q \in GrantingRequest
      BY <1>4, TabFields, BroughtType DEF LoginGrant, IInv, TypeOK
    <2>4. g \in GrantingCookie /\ q.uri \in Locations /\ q.srv \in Servers
      BY <2>3, GrantType DEF IInv, TypeOK, GrantingRequest
    <2>5. HeadersBacked(granted', h)
      <3>1. GSlot(q.srv) \notin SSlots
        BY <2>4, SlotsDiffer DEF GSlots
      <3> QED BY <2>1, <3>1, NoHeadersBacked, ClearedBacked, SetBacked DEF Backed
    <2>6. StateBacked(granted', ToReply(g, q.uri)) /\ StateBacked(granted', GoTo(q.uri))
      BY <2>1 DEF StateBacked, ToReply, GoTo
    <2>7. ToReply(g, q.uri) \in TabState
      BY <2>4, TabStates
    <2>8. \A x \in Tabs : TabBacked(granted', tab'[x])
      BY <2>1, <2>2, <2>5, <2>6, <2>7, AnswerBacked
    <2>9. GrantsStamped'
      BY <2>1 DEF IInv, TypeOK, GrantsStamped, Grant
    <2>10. HeadersBacked(granted', jar')
      BY <2>1, StaysBacked DEF IInv
    <2> QED BY <1>0, <2>8, <2>9, <2>10 DEF IInv
  <1>5. CASE login_reply_handler(t)
    <2> DEFINE g == tab[t].cookie
    <2>1. g \in granted /\ g.srv \in Servers
      BY <1>5, TabFields DEF login_reply_handler, IInv, TypeOK, TabBacked, StateBacked, GrantingCookie
    <2>2. HeadersBacked(granted, SetCookie(NoHeaders, GSlot(g.srv), g))
      <3>1. GSlot(g.srv) \notin SSlots
        BY <2>1, SlotsDiffer DEF GSlots
      <3> QED BY <2>1, <3>1, NoHeadersBacked, SetBacked DEF Backed
    <2>3. StateBacked(granted, GoTo(tab[t].loc))
      BY DEF StateBacked, GoTo
    <2>4. \A x \in Tabs : TabBacked(granted', tab'[x])
      BY <1>5, <2>2, <2>3, AnswerBacked DEF login_reply_handler
    <2> QED BY <1>0, <1>5, <2>4 DEF login_reply_handler, IInv, GrantsStamped
  <1> QED BY <1>2, <1>3, <1>4, <1>5 DEF Login

\* Receiving an answer moves backed headers into a backed jar.
LEMMA IInvReceive ==
    ASSUME IInv, NEW t \in Tabs, Receive(t)
    PROVE  IInv'
  <1>1. TypeOK'
    BY TypeReceive DEF IInv
  <1>2. HeadersBacked(granted, tab[t].headers) /\ StateBacked(granted, tab[t].next)
    BY DEF Receive, IInv, TabBacked
  <1>3. HeadersBacked(granted', jar')
    BY <1>2, ApplyBacked DEF Receive, IInv
  <1>4. tab[t].next.pc # "wait"
    BY TabFields DEF Receive, IInv, TypeOK, TabState
  <1>5. \A x \in Tabs : TabBacked(granted', tab'[x])
    BY <1>2, <1>4 DEF Receive, IInv, TypeOK, TabBacked, StateBacked, Idle
  <1> QED BY <1>1, <1>3, <1>5 DEF Receive, IInv, GrantsStamped

\* The invariant is inductive.
LEMMA IInvNext == IInv /\ [Next]_vars => IInv'
  <1> SUFFICES ASSUME IInv, [Next]_vars PROVE IInv'
    OBVIOUS
  <1> USE DEF history
  <1>0. TypeOK'
    BY TypeNext DEF IInv
  <1>1. CASE UNCHANGED vars
    BY <1>0, <1>1 DEF vars, IInv, GrantsStamped
  <1>2. CASE Tick
    BY <1>0, <1>2 DEF Tick, IInv, TypeOK, GrantsStamped, GrantingCookie, Time
  <1>3. ASSUME NEW t \in Tabs, Lose(t) PROVE IInv'
    <2>1. \A x \in Tabs : TabBacked(granted', tab'[x])
      BY <1>3 DEF Lose, IInv, TypeOK, TabBacked, StateBacked, Idle
    <2> QED BY <1>0, <1>3, <2>1 DEF Lose, IInv, GrantsStamped
  <1>4. ASSUME NEW t \in Tabs, NEW l \in Locations, Browse(t, l) PROVE IInv'
    <2>1. \A x \in Tabs : TabBacked(granted', tab'[x])
      BY <1>4 DEF Browse, IInv, TypeOK, TabBacked, StateBacked, GoTo
    <2> QED BY <1>0, <1>4, <2>1 DEF Browse, IInv, GrantsStamped
  <1>5. ASSUME NEW t \in Tabs, BrowseLogin(t) PROVE IInv'
    <2>1. \A x \in Tabs : TabBacked(granted', tab'[x])
      BY <1>5 DEF BrowseLogin, IInv, TypeOK, TabBacked, StateBacked, ToLogin
    <2> QED BY <1>0, <1>5, <2>1 DEF BrowseLogin, IInv, GrantsStamped
  <1> QED BY <1>1, <1>2, <1>3, <1>4, <1>5, IInvRequest, IInvLogin, IInvReceive DEF Next

\* What holds of the pages under way.
LEMMA IInvPages ==
    ASSUME IInv
    PROVE  /\ ServedOnlyWhenGranted
           /\ PromptLocationsNameUser
           /\ NoReauthOff => ReauthLocationsReauthenticate
  <1>1. \A p \in PagesServed : PageBacked(granted, p.loc, p.user, p.at) /\ ~EndsSession(Config[p.loc])
    BY DEF PagesServed, IInv, TabBacked, StateBacked
  <1>2. ServedOnlyWhenGranted
    <2> SUFFICES ASSUME NEW p \in PagesServed
                 PROVE  \E g \in granted : Supports(g, p)
      BY DEF ServedOnlyWhenGranted
    <2>1. PageBacked(granted, p.loc, p.user, p.at) /\ ~EndsSession(Config[p.loc])
      BY <1>1
    <2>2. PICK g \in granted :
              /\ GrantFor(g, Config[p.loc], p.user)
              /\ g.create_ts <= p.at
              /\ p.at < g.create_ts + GrantingExpire + Config[p.loc].hard_exp
              /\ NoReauthOff /\ Config[p.loc].session_reauth > 0 => g.reauth
      BY <2>1 DEF PageBacked
    <2> QED BY <2>2 DEF Supports
  <1>3. PromptLocationsNameUser
    BY <1>1 DEF PageBacked, PromptLocationsNameUser
  <1>4. ASSUME NoReauthOff PROVE ReauthLocationsReauthenticate
    <2> SUFFICES ASSUME NEW p \in PagesServed, Config[p.loc].session_reauth > 0
                 PROVE  \E g \in granted : Supports(g, p) /\ g.reauth
      BY DEF ReauthLocationsReauthenticate
    <2>1. PageBacked(granted, p.loc, p.user, p.at) /\ ~EndsSession(Config[p.loc])
      BY <1>1
    <2>2. PICK g \in granted :
              /\ GrantFor(g, Config[p.loc], p.user)
              /\ g.create_ts <= p.at
              /\ p.at < g.create_ts + GrantingExpire + Config[p.loc].hard_exp
              /\ NoReauthOff /\ Config[p.loc].session_reauth > 0 => g.reauth
      BY <2>1 DEF PageBacked
    <2> QED BY <1>4, <2>2 DEF Supports
  <1> QED BY <1>2, <1>3, <1>4

\* A page of an application is served only for a user the login server
\* granted to it, and no longer ago than a granting cookie and a session
\* live together, whatever is protected, in however many windows, and in
\* whatever order their answers arrive (pubcookie_user, set_session_cookie,
\* login_reply_handler, print_redirect_page).
THEOREM PagesAreGranted == Spec => []ServedOnlyWhenGranted
  BY IInvInit, IInvNext, IInvPages, PTL DEF Spec

\* A location without noprompt never serves a page for the empty user, even
\* if it shares its session cookies with quiet locations (pubcookie_user).
THEOREM NoEmptyUser == Spec => []PromptLocationsNameUser
  BY IInvInit, IInvNext, IInvPages, PTL DEF Spec

\* Where no location says "PubcookieSessionCauseReAuth off", a page of a
\* location that says otherwise rests on a grant given under such a demand,
\* and young enough to be behind it (marks 23 and 24 of the session cookie).
THEOREM ReauthDemanded ==
    ASSUME NoReauthOff
    PROVE  Spec => []ReauthLocationsReauthenticate
  BY IInvInit, IInvNext, IInvPages, PTL DEF Spec

(***************************************************************************)
(* The granting requests that windows and cookies carry about.             *)
(***************************************************************************)
\* Request q is the one the location it names makes.
Made(q) == q = MakeRequest(Config[q.uri], q.uri, q.tok)

HeadersMade(h) == ReqSlot \in DOMAIN h /\ h[ReqSlot] # Nothing => Made(h[ReqSlot])
StateMade(s)   == s.pc \in {"login", "form"} /\ s.greq # Nothing => Made(s.greq)
TabMade(s) ==
    /\ s.pc = "wait" => HeadersMade(s.headers) /\ StateMade(s.next)
    /\ StateMade(s)

RequestsMade == HeadersMade(jar) /\ \A t \in Tabs : TabMade(tab[t])

LEMMA RequestsMadeInit == Init => RequestsMade
  BY DEF Init, RequestsMade, HeadersMade, TabMade, StateMade, Idle

LEMMA MadeHeaders ==
    /\ HeadersMade(NoHeaders)
    /\ \A h, C : HeadersMade(h) => HeadersMade(ClearCookies(h, C))
    /\ \A h, k, v : HeadersMade(h) /\ (k = ReqSlot => Made(v)) => HeadersMade(SetCookie(h, k, v))
    /\ \A j, h : HeadersMade(j) /\ HeadersMade(h) => HeadersMade(ApplyHeaders(j, h))
  <1>1. HeadersMade(NoHeaders)
    BY DEF HeadersMade, NoHeaders
  <1>2. \A h, C : HeadersMade(h) => HeadersMade(ClearCookies(h, C))
    BY DEF HeadersMade, ClearCookies
  <1>3. \A h, k, v : HeadersMade(h) /\ (k = ReqSlot => Made(v)) => HeadersMade(SetCookie(h, k, v))
    BY DEF HeadersMade, SetCookie
  <1>4. \A j, h : HeadersMade(j) /\ HeadersMade(h) => HeadersMade(ApplyHeaders(j, h))
    BY DEF HeadersMade, ApplyHeaders
  <1> QED BY <1>1, <1>2, <1>3, <1>4

LEMMA AnswerMade ==
    ASSUME TypeOK, RequestsMade, NEW t \in Tabs, NEW h, NEW n, jar' = jar,
           \/ Answer(t, h, n) /\ HeadersMade(h) /\ StateMade(n)
           \/ AnswerAtOnce(t, n) /\ TabMade(n)
    PROVE  RequestsMade'
  <1>1. TabMade(Waiting(h, n)) <=> HeadersMade(h) /\ StateMade(n)
    BY DEF TabMade, StateMade, Waiting
  <1>2. \E s : tab' = [tab EXCEPT ![t] = s] /\ TabMade(s)
    BY <1>1 DEF Answer, AnswerAtOnce
  <1>3. \A x \in Tabs : TabMade(tab'[x])
    BY <1>2 DEF TypeOK, RequestsMade
  <1> QED BY <1>3 DEF RequestsMade

\* A request is carried on as it was made: from the location that asked for
\* the login, in the cookie or the form, to the grant that answers it.
LEMMA RequestsMadeNext == TypeOK /\ RequestsMade /\ [Next]_vars => RequestsMade'
  <1> SUFFICES ASSUME TypeOK, RequestsMade, [Next]_vars PROVE RequestsMade'
    OBVIOUS
  <1>1. /\ \A t \in Tabs : TabMade(tab[t])
        /\ HeadersMade(jar)
        /\ TabMade(Idle) /\ TabMade(ToLogin(Nothing)) /\ StateMade(NoPage)
        /\ \A l : TabMade(GoTo(l)) /\ StateMade(GoTo(l)) /\ StateMade(ToLogout(l))
        /\ \A l, u, at : StateMade(Page(l, u, at))
        /\ \A g, l : TabMade(ToReply(g, l))
    BY DEF RequestsMade, TabMade, StateMade, Idle, ToLogin, NoPage, GoTo, ToLogout, Page, ToReply
  <1>2. CASE UNCHANGED vars \/ Tick
    BY <1>2 DEF vars, Tick, RequestsMade
  <1>3. ASSUME NEW t \in Tabs, Request(t) PROVE RequestsMade'
    <2> PICK l \in Locations :
            \/ EndSession(t, l)
            \/ do_end_session_redirect(t, l)
            \/ OpenSession(t, l)
            \/ UseSession(t, l)
            \/ AskLogin(t, l)
            \/ StopTheShow(t, l)
            \/ Unauthorized(t, l)
      BY <1>3 DEF Request
    <2> DEFINE c == Config[l]
               h == GrantHeaders(c, jar)
    <2>1. /\ \A C : HeadersMade(ClearCookies(NoHeaders, C))
          /\ HeadersMade(h) /\ HeadersMade(ClearAll(h, c)) /\ HeadersMade(ClearAll(NoHeaders, c))
      BY MadeHeaders DEF GrantHeaders, ClearAll
    <2>2. \A v : HeadersMade(SetCookie(h, SessionSlot(l), v))
      <3>1. SessionSlot(l) # ReqSlot
        BY SessionContents, SlotsDiffer DEF SessionSlot
      <3> QED BY <2>1, <3>1, MadeHeaders
    <2> DEFINE Goal == RequestsMade'
    <2>3. \A g, n : /\ jar' = jar
                    /\ \/ Answer(t, g, n) /\ HeadersMade(g) /\ StateMade(n)
                       \/ AnswerAtOnce(t, n) /\ TabMade(n)
                    => Goal
      BY AnswerMade
    <2>4. jar' = jar
      BY DEF EndSession, do_end_session_redirect, OpenSession, UseSession, AskLogin,
             StopTheShow, Unauthorized, history
    <2> SUFFICES Goal
      OBVIOUS
    <2> HIDE DEF Goal
    <2>5. CASE EndSession(t, l) \/ do_end_session_redirect(t, l)
      BY <1>1, <2>1, <2>3, <2>4, <2>5 DEF EndSession, do_end_session_redirect
    <2>6. CASE OpenSession(t, l)
      BY <1>1, <2>2, <2>3, <2>4, <2>6 DEF OpenSession
    <2>7. CASE UseSession(t, l)
      BY <1>1, <2>1, <2>2, <2>3, <2>4, <2>7 DEF UseSession
    <2>8. CASE AskLogin(t, l)
      <3> PICK tok \in Tokens :
              Answer(t, RequestHeaders(h, c, l, tok),
                     ToLogin(IF UsePost THEN MakeRequest(c, l, tok) ELSE Nothing))
        BY <2>8 DEF AskLogin
      <3>1. Made(MakeRequest(c, l, tok))
        BY DEF Made, MakeRequest
      <3>2. StateMade(ToLogin(IF UsePost THEN MakeRequest(c, l, tok) ELSE Nothing))
        BY <3>1 DEF StateMade, ToLogin
      <3>3. HeadersMade(RequestHeaders(h, c, l, tok))
        <4>1. PreSlot(c.srv) # ReqSlot
          BY DEF PreSlot, ReqSlot
        <4>2. HeadersMade(SetCookie(h, PreSlot(c.srv), tok))
          BY <2>1, <4>1, MadeHeaders
        <4>3. HeadersMade(SetCookie(SetCookie(h, PreSlot(c.srv), tok), ReqSlot,
                                    MakeRequest(c, l, tok)))
          BY <3>1, <4>2, MadeHeaders
        <4> QED BY <2>1, <4>3 DEF RequestHeaders
      <3> QED BY <2>3, <2>4, <3>2, <3>3
    <2>9. CASE StopTheShow(t, l)
      BY <1>1, <2>1, <2>3, <2>4, <2>9 DEF StopTheShow
    <2>10. CASE Unauthorized(t, l)
      BY <1>1, <2>3, <2>4, <2>10 DEF Unauthorized
    <2> QED BY <2>5, <2>6, <2>7, <2>8, <2>9, <2>10
  <1>4. ASSUME NEW t \in Tabs, Login(t) PROVE RequestsMade'
    <2>1. CASE LoginStatus(t) \/ LoginLogout(t)
      BY <1>1, <2>1, AnswerMade DEF LoginStatus, LoginLogout
    <2>2. CASE LoginForm(t)
      <3>1. Made(Brought(t))
        <4>0. tab[t].pc = "login" /\ Brought(t) # Nothing
          BY <2>2 DEF LoginForm
        <4>1. CASE UsePost
          BY <1>1, <4>0, <4>1 DEF Brought, TabMade, StateMade
        <4>2. CASE ~UsePost
          <5>1. ReqSlot \in DOMAIN jar /\ Brought(t) = jar[ReqSlot]
            BY <4>2 DEF Brought, TypeOK, Slots
          <5> QED BY <1>1, <4>0, <5>1 DEF HeadersMade
        <4> QED BY <4>1, <4>2
      <3>2. TabMade(Form(Brought(t)))
        BY <3>1 DEF TabMade, StateMade, Form
      <3> QED BY <2>2, <3>2, AnswerMade DEF LoginForm
    <2>3. ASSUME NEW u \in Users \cup {NoUser}, LoginGrant(t, u) PROVE RequestsMade'
      <3> DEFINE q == IF tab[t].pc = "form" THEN tab[t].greq ELSE Brought(t)
                 g == Grant(q, u)
                 h == SetCookie(ClearCookies(NoHeaders, {ReqSlot}), GSlot(q.srv), g)
      <3>1. AnswerAtOnce(t, ToReply(g, q.uri)) \/ Answer(t, h, GoTo(q.uri))
        BY <2>3 DEF LoginGrant
      <3>2. jar' = jar
        BY <2>3 DEF LoginGrant
      <3>3. HeadersMade(h)
        <4>1. GSlot(q.srv) # ReqSlot
          BY DEF GSlot, ReqSlot
        <4> QED BY <4>1, MadeHeaders
      <3> HIDE DEF g, h, q
      <3> QED BY <1>1, <3>1, <3>2, <3>3, AnswerMade
    <2>4. CASE login_reply_handler(t)
      <3>1. \A srv, g : HeadersMade(SetCookie(NoHeaders, GSlot(srv), g))
        <4>1. \A srv : GSlot(srv) # ReqSlot
          BY DEF GSlot, ReqSlot
        <4> QED BY <4>1, MadeHeaders
      <3> QED BY <1>1, <2>4, <3>1, AnswerMade DEF login_reply_handler
    <2> QED BY <1>4, <2>1, <2>2, <2>3, <2>4 DEF Login
  <1>5. ASSUME NEW t \in Tabs, Receive(t) PROVE RequestsMade'
    <2>1. HeadersMade(tab[t].headers) /\ StateMade(tab[t].next)
      BY <1>1, <1>5 DEF Receive, TabMade
    <2>2. HeadersMade(jar')
      BY <1>1, <1>5, <2>1, MadeHeaders DEF Receive
    <2>3. tab[t].next.pc # "wait"
      BY <1>5, TabFields DEF Receive, TypeOK, TabState
    <2>4. \A x \in Tabs : TabMade(tab'[x])
      BY <1>1, <1>5, <2>1, <2>3 DEF Receive, TypeOK, TabMade
    <2> QED BY <2>2, <2>4 DEF RequestsMade
  <1>6. ASSUME NEW t \in Tabs, NEW l \in Locations, Browse(t, l) PROVE RequestsMade'
    BY <1>1, <1>6, AnswerMade DEF Browse, AnswerAtOnce
  <1>7. ASSUME NEW t \in Tabs, Lose(t) \/ BrowseLogin(t) PROVE RequestsMade'
    BY <1>1, <1>7, AnswerMade DEF Lose, BrowseLogin, AnswerAtOnce
  <1> QED BY <1>2, <1>3, <1>4, <1>5, <1>6, <1>7 DEF Next
=============================================================================
