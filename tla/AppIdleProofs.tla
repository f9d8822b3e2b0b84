--------------------------- MODULE AppIdleProofs ---------------------------
(***************************************************************************)
(* When the sessions of AppSessions end: by the idle timer, for all        *)
(* constants, and by the user's wish, in a browser with one window.        *)
(*                                                                         *)
(* A server knows when a session was last used only from the session       *)
(* cookie it is shown, which another window's answer may have put there    *)
(* late.  The first invariant is that no such cookie, in the jar or under  *)
(* way, is stamped later than the last use of its session: a cookie can    *)
(* only be too old, never too young.                                       *)
(***************************************************************************)
EXTENDS AppSessionsProofs

\* Session cookie v of slot k is stamped no later than A says k was used.
Stamped(A, k, v) == k \in SSlots /\ v # Nothing => v.last_ts <= A[k]

HeadersStamped(A, h) == \A k \in DOMAIN h : Stamped(A, k, h[k])

TabStamped(A, s) == s.pc = "wait" => HeadersStamped(A, s.headers)

UsesPast == \A k \in SSlots : active[k] <= clock

IdleInv ==
    /\ TypeOK
    /\ UsesPast
    /\ HeadersStamped(active, jar)
    /\ \A t \in Tabs : TabStamped(active, tab[t])

\* Clearing cookies stamps nothing,
LEMMA ClearedStamped ==
    ASSUME NEW A, NEW h, HeadersStamped(A, h), NEW K
    PROVE  HeadersStamped(A, ClearCookies(h, K))
  BY DEF HeadersStamped, ClearCookies, Stamped

\* ... nor does an answer without cookies;
LEMMA NoHeadersStamped == \A A : HeadersStamped(A, NoHeaders)
  BY DEF HeadersStamped, NoHeaders

\* ... a header joins others;
LEMMA SetStamped ==
    ASSUME NEW A, NEW h, HeadersStamped(A, h), NEW k, NEW v, Stamped(A, k, v)
    PROVE  HeadersStamped(A, SetCookie(h, k, v))
  BY DEF HeadersStamped, SetCookie

\* ... and a request for a login has no session cookie.
LEMMA RequestStamped ==
    ASSUME NEW A, NEW h, HeadersStamped(A, h), NEW l \in Locations, NEW tok
    PROVE  HeadersStamped(A, RequestHeaders(h, Config[l], l, tok))
  <1> DEFINE c == Config[l]
             h1 == SetCookie(h, PreSlot(c.srv), tok)
  <1>1. PreSlot(c.srv) \in PreSlots
    BY ConfigType DEF PreSlots
  <1>2. HeadersStamped(A, h1)
    BY <1>1, SlotsDiffer, SetStamped DEF Stamped
  <1>3. HeadersStamped(A, SetCookie(h1, ReqSlot, MakeRequest(c, l, tok)))
    BY <1>2, SlotsDiffer, SetStamped DEF Stamped
  <1> QED BY <1>3 DEF RequestHeaders

\* A session used once more is not stamped less late for it.
LEMMA StaysStamped ==
    ASSUME TypeOK, UsesPast, active' \in [SSlots -> Time],
           \A k \in SSlots : active'[k] = active[k] \/ active'[k] = clock
    PROVE  /\ \A h : HeadersOK(h) /\ HeadersStamped(active, h) => HeadersStamped(active', h)
           /\ \A t \in Tabs : TabStamped(active, tab[t]) => TabStamped(active', tab[t])
  <1>1. \A k \in SSlots : active[k] \in Int /\ active'[k] \in Int /\ active[k] <= active'[k]
    BY DEF TypeOK, UsesPast, Time
  <1>2. ASSUME NEW h, HeadersOK(h), HeadersStamped(active, h)
        PROVE  HeadersStamped(active', h)
    <2> SUFFICES ASSUME NEW k \in DOMAIN h, k \in SSlots, h[k] # Nothing
                 PROVE  h[k].last_ts <= active'[k]
      BY DEF HeadersStamped, Stamped
    <2>1. h[k] \in SessionCookie
      BY <1>2 DEF HeadersOK, Contents
    <2>2. h[k].last_ts \in Int
      BY <2>1 DEF SessionCookie, Time
    <2>3. h[k].last_ts <= active[k]
      BY <1>2 DEF HeadersStamped, Stamped
    <2> QED BY <1>1, <2>2, <2>3
  <1>3. ASSUME NEW t \in Tabs, TabStamped(active, tab[t])
        PROVE  TabStamped(active', tab[t])
    <2>1. tab[t].pc = "wait" => HeadersOK(tab[t].headers)
      BY TabFields DEF TypeOK
    <2> QED BY <1>2, <1>3, <2>1 DEF TabStamped
  <1> QED BY <1>2, <1>3

\* What an answer brings is stamped if its headers are.
LEMMA AnswerStamped ==
    ASSUME TypeOK, NEW t \in Tabs, NEW A, NEW h, NEW next,
           \A x \in Tabs : TabStamped(A, tab[x]),
           \/ Answer(t, h, next) /\ HeadersStamped(A, h)
           \/ AnswerAtOnce(t, next) /\ next \in TabState
    PROVE  \A x \in Tabs : TabStamped(A, tab'[x])
  <1>1. CASE Answer(t, h, next) /\ HeadersStamped(A, h)
    BY <1>1 DEF TypeOK, Answer, Waiting, TabStamped
  <1>2. CASE AnswerAtOnce(t, next) /\ next \in TabState
    <2>1. next.pc # "wait"
      BY <1>2 DEF TabState
    <2> QED BY <1>2, <2>1 DEF TypeOK, AnswerAtOnce, TabStamped
  <1> QED BY <1>1, <1>2

\* At first no session has been used and no cookie is stamped.
LEMMA IdleInit == Init => IdleInv
  <1> SUFFICES ASSUME Init PROVE IdleInv
    OBVIOUS
  <1>1. HeadersStamped(active, jar)
    BY DEF Init, HeadersStamped, Stamped
  <1>2. \A t \in Tabs : TabStamped(active, tab[t])
    BY DEF Init, Idle, TabStamped
  <1>3. UsesPast
    BY DEF Init, UsesPast
  <1> QED BY <1>1, <1>2, <1>3, TypeInit DEF IdleInv

\* A request stamps the session cookie it sends with the use it makes.
LEMMA IdleRequest ==
    ASSUME IdleInv, NEW t \in Tabs, Request(t)
    PROVE  IdleInv'
  <1> PICK l \in Locations :
          \/ EndSession(t, l)
          \/ do_end_session_redirect(t, l)
          \/ OpenSession(t, l)
          \/ UseSession(t, l)
          \/ AskLogin(t, l)
          \/ StopTheShow(t, l)
          \/ Unauthorized(t, l)
    BY DEF Request
  <1> DEFINE c == Config[l]
             k == SessionSlot(l)
             h == GrantHeaders(c, jar)
  <1>1. TypeOK /\ UNCHANGED <<clock, jar>>
    BY DEF IdleInv, EndSession, do_end_session_redirect, OpenSession, UseSession, AskLogin,
           StopTheShow, Unauthorized, Ends, history
  <1>2. TypeOK'
    BY TypeRequest DEF IdleInv
  <1>3. k \in SSlots /\ clock \in Int
    BY <1>1, SessionContents DEF SessionSlot, TypeOK
  <1>4. \/ active' = active
        \/ active' = [active EXCEPT ![k] = clock]
    BY DEF EndSession, do_end_session_redirect, OpenSession, UseSession, AskLogin,
           StopTheShow, Unauthorized, Ends, history
  <1>5. \A j \in SSlots : active'[j] = active[j] \/ active'[j] = clock
    BY <1>1, <1>4 DEF TypeOK
  <1>6. HeadersStamped(active', jar') /\ \A x \in Tabs : TabStamped(active', tab[x])
    BY <1>1, <1>2, <1>5, StaysStamped DEF IdleInv, TypeOK
  <1>7. HeadersStamped(active', h)
    BY NoHeadersStamped, ClearedStamped DEF GrantHeaders
  <1>8. UsesPast'
    BY <1>1, <1>3, <1>5 DEF IdleInv, UsesPast
  <1>9. \A x \in Tabs : TabStamped(active', tab'[x])
    <2>1. CASE EndSession(t, l)
      <3>1. HeadersStamped(active', ClearCookies(NoHeaders, {k}))
        BY NoHeadersStamped, ClearedStamped
      <3> QED BY <1>1, <1>6, <2>1, <3>1, AnswerStamped DEF EndSession
    <2>2. CASE do_end_session_redirect(t, l)
      <3>1. HeadersStamped(active', ClearAll(NoHeaders, c))
        BY NoHeadersStamped, ClearedStamped DEF ClearAll
      <3> QED BY <1>1, <1>6, <2>2, <3>1, AnswerStamped DEF do_end_session_redirect
    <2>3. CASE OpenSession(t, l)
      <3> DEFINE g == jar[GSlot(c.srv)]
                 s == NewSession(c, g, clock)
      <3>1. s.last_ts = clock /\ active'[k] = clock
        BY <1>1, <1>3, <2>3 DEF OpenSession, NewSession, TypeOK
      <3>2. HeadersStamped(active', SetCookie(h, k, s))
        BY <1>3, <1>7, <3>1, SetStamped DEF Stamped
      <3> QED BY <1>1, <1>6, <2>3, <3>2, AnswerStamped DEF OpenSession
    <2>4. CASE UseSession(t, l)
      <3> DEFINE s == SessionData(c, jar)
                 h2 == IF c.inact_exp > 0 THEN SetCookie(h, k, TouchSession(s, clock)) ELSE h
      <3>1. s \in SessionCookie
        BY <1>1, <2>4, SessionChecked DEF UseSession, Verdict, TypeOK
      <3>2. TouchSession(s, clock).last_ts = clock /\ active'[k] = clock
        BY <1>1, <1>3, <2>4, <3>1 DEF UseSession, TouchSession, SessionCookie, TypeOK
      <3>3. HeadersStamped(active', h2)
        BY <1>3, <1>7, <3>2, SetStamped DEF Stamped
      <3> QED BY <1>1, <1>6, <2>4, <3>3, AnswerStamped DEF UseSession
    <2>5. CASE AskLogin(t, l)
      <3> PICK tok \in Tokens :
              Answer(t, RequestHeaders(h, c, l, tok),
                     ToLogin(IF UsePost THEN MakeRequest(c, l, tok) ELSE Nothing))
        BY <2>5 DEF AskLogin
      <3>1. HeadersStamped(active', RequestHeaders(h, c, l, tok))
        BY <1>7, RequestStamped
      <3> QED BY <1>1, <1>6, <3>1, AnswerStamped
    <2>6. CASE StopTheShow(t, l)
      <3>1. HeadersStamped(active', ClearAll(h, c))
        BY <1>7, ClearedStamped DEF ClearAll
      <3> QED BY <1>1, <1>6, <2>6, <3>1, AnswerStamped DEF StopTheShow
    <2>7. CASE Unauthorized(t, l)
      BY <1>1, <1>6, <2>7, TabStates, AnswerStamped DEF Unauthorized
    <2> QED BY <2>1, <2>2, <2>3, <2>4, <2>5, <2>6, <2>7
  <1> QED BY <1>2, <1>6, <1>8, <1>9 DEF IdleInv

\* The login server has no session cookies.
LEMMA IdleLogin ==
    ASSUME IdleInv, NEW t \in Tabs, Login(t)
    PROVE  IdleInv'
  <1>1. TypeOK /\ TypeOK' /\ UNCHANGED <<clock, jar, active>>
    BY TypeLogin DEF IdleInv, Login, LoginStatus, LoginLogout, LoginForm, LoginGrant,
           login_reply_handler, history
  <1>2. \A x \in Tabs : TabStamped(active, tab[x])
    BY DEF IdleInv
  <1>3. \A x \in Tabs : TabStamped(active, tab'[x])
    <2>1. CASE LoginStatus(t) \/ LoginLogout(t)
      BY <1>1, <1>2, <2>1, TabStates, AnswerStamped DEF LoginStatus, LoginLogout
    <2>2. CASE LoginForm(t)
      <3>1. Form(Brought(t)) \in TabState
        BY <1>1, <2>2, BroughtType, TabStates DEF LoginForm
      <3> QED BY <1>1, <1>2, <2>2, <3>1, AnswerStamped DEF LoginForm
    <2>3. ASSUME NEW u \in Users \cup {NoUser}, LoginGrant(t, u)
          PROVE  \A x \in Tabs : TabStamped(active, tab'[x])
      <3> DEFINE q == IF tab[t].pc = "form" THEN tab[t].greq ELSE Brought(t)
                 g == Grant(q, u)
                 h == SetCookie(ClearCookies(NoHeaders, {ReqSlot}), GSlot(q.srv), g)
      <3>1. AnswerAtOnce(t, ToReply(g, q.uri)) \/ Answer(t, h, GoTo(q.uri))
        BY <2>3 DEF LoginGrant
      <3>2. q \in GrantingRequest
        BY <1>1, <2>3, TabFields, BroughtType DEF LoginGrant, TypeOK
      <3>3. g \in GrantingCookie /\ q.uri \in Locations /\ q.srv \in Servers
        BY <1>1, <3>2, GrantType DEF TypeOK, GrantingRequest
      <3>4. HeadersStamped(active, h)
        <4>1. GSlot(q.srv) \notin SSlots
          BY <3>3, SlotsDiffer DEF GSlots
        <4> QED BY <4>1, NoHeadersStamped, ClearedStamped, SetStamped DEF Stamped
      <3>5. ToReply(g, q.uri) \in TabState
        BY <3>3, TabStates
      <3> QED BY <1>1, <1>2, <3>1, <3>4, <3>5, AnswerStamped
    <2>4. CASE login_reply_handler(t)
      <3> DEFINE g == tab[t].cookie
      <3>1. g.srv \in Servers
        BY <1>1, <2>4, TabFields DEF login_reply_handler, TypeOK, GrantingCookie
      <3>2. HeadersStamped(active, SetCookie(NoHeaders, GSlot(g.srv), g))
        <4>1. GSlot(g.srv) \notin SSlots
          BY <3>1, SlotsDiffer DEF GSlots
        <4> QED BY <4>1, NoHeadersStamped, SetStamped DEF Stamped
      <3> QED BY <1>1, <1>2, <2>4, <3>2, AnswerStamped DEF login_reply_handler
    <2> QED BY <2>1, <2>2, <2>3, <2>4 DEF Login
  <1> QED BY <1>1, <1>3 DEF IdleInv, UsesPast

\* The browser only moves cookies, and time only makes uses older.
LEMMA IdleNext == IdleInv /\ [Next]_vars => IdleInv'
  <1> SUFFICES ASSUME IdleInv, [Next]_vars PROVE IdleInv'
    OBVIOUS
  <1> USE DEF history
  <1>0. TypeOK'
    BY TypeNext DEF IdleInv
  <1>1. CASE UNCHANGED vars
    BY <1>0, <1>1 DEF vars, IdleInv, UsesPast
  <1>2. CASE Tick
    <2>1. UsesPast'
      BY <1>2 DEF Tick, IdleInv, TypeOK, UsesPast, Time
    <2> QED BY <1>0, <1>2, <2>1 DEF Tick, IdleInv
  <1>3. ASSUME NEW t \in Tabs, Lose(t) PROVE IdleInv'
    <2>1. \A x \in Tabs : TabStamped(active', tab'[x])
      BY <1>3 DEF Lose, IdleInv, TypeOK, TabStamped, Idle
    <2> QED BY <1>0, <1>3, <2>1 DEF Lose, IdleInv, UsesPast
  <1>4. ASSUME NEW t \in Tabs, NEW l \in Locations, Browse(t, l) PROVE IdleInv'
    <2>1. \A x \in Tabs : TabStamped(active', tab'[x])
      BY <1>4 DEF Browse, IdleInv, TypeOK, TabStamped, GoTo
    <2> QED BY <1>0, <1>4, <2>1 DEF Browse, IdleInv, UsesPast
  <1>5. ASSUME NEW t \in Tabs, Receive(t) PROVE IdleInv'
    <2>1. HeadersStamped(active, tab[t].headers)
      BY <1>5 DEF Receive, IdleInv, TabStamped
    <2>2. HeadersStamped(active', jar')
      BY <1>5, <2>1 DEF Receive, IdleInv, HeadersStamped, ApplyHeaders
    <2>3. tab[t].next.pc # "wait"
      BY <1>5, TabFields DEF Receive, IdleInv, TypeOK, TabState
    <2>4. \A x \in Tabs : TabStamped(active', tab'[x])
      BY <1>5, <2>3 DEF Receive, IdleInv, TypeOK, TabStamped, Idle
    <2> QED BY <1>0, <1>5, <2>2, <2>4 DEF Receive, IdleInv, UsesPast
  <1>6. ASSUME NEW t \in Tabs, BrowseLogin(t) PROVE IdleInv'
    <2>1. \A x \in Tabs : TabStamped(active', tab'[x])
      BY <1>6 DEF BrowseLogin, IdleInv, TypeOK, TabStamped, ToLogin
    <2> QED BY <1>0, <1>6, <2>1 DEF BrowseLogin, IdleInv, UsesPast
  <1> QED BY <1>1, <1>2, <1>3, <1>4, <1>5, <1>6, IdleRequest, IdleLogin DEF Next

\* A request answered by its session cookie is one UseSession answers.
LEMMA AnsweredByRequest ==
    ASSUME TypeOK, NEW t \in Tabs, NEW l \in Locations, [Next]_vars, ServesSession(t, l)
    PROVE  UseSession(t, l)
  <1>1. OpenSession(t, l) \/ UseSession(t, l)
    BY ServedBy DEF ServesSession
  <1>2. ~HasGrant(Config[l], jar)
    BY DEF ServesSession
  <1>3. pubcookie_user(Config[l], jar, clock) # "grant"
    BY <1>2 DEF pubcookie_user, SessionVerdict
  <1> QED BY <1>1, <1>3 DEF OpenSession, Verdict

\* A session is accepted only within its idle time: the step from a state
\* of the invariant reads a cookie stamped no later than the last use.
LEMMA IdleStep ==
    ASSUME IdleInv, [Next]_vars, NEW t \in Tabs, NEW l \in Locations,
           ServesSession(t, l), Config[l].inact_exp # -1
    PROVE  clock < active[SessionSlot(l)] + Config[l].inact_exp
  <1> DEFINE c == Config[l]
             k == SessionSlot(l)
             s == jar[k]
  <1>1. UseSession(t, l)
    BY AnsweredByRequest DEF IdleInv
  <1>2. s \in SessionCookie /\ s # Nothing /\ LiveSession(c, s, clock)
    BY <1>1, SessionChecked DEF IdleInv, TypeOK, UseSession, Verdict, SessionSlot
  <1>3. k \in SSlots \cap Slots
    BY SessionContents DEF SessionSlot
  <1>4. s.last_ts <= active[k]
    BY <1>2, <1>3 DEF IdleInv, TypeOK, HeadersStamped, Stamped
  <1>5. clock < s.last_ts + c.inact_exp
    BY <1>2 DEF LiveSession, check_exp
  <1>6. clock \in Int /\ s.last_ts \in Int /\ active[k] \in Int /\ c.inact_exp \in Int
    BY <1>2, <1>3, ConfigType DEF IdleInv, TypeOK, SessionCookie, Time, DirConfig
  <1> QED BY <1>4, <1>5, <1>6

\* A session left unused for the idle time of a location is not accepted
\* there, in whatever order the answers that restart its timer arrive
\* (pubcookie_user, set_session_cookie, libpbc_update_lastts).
THEOREM IdleTimerHolds == Spec => IdleSessionsEnd
  <1>1. IdleInv /\ [Next]_vars =>
            [\A t \in Tabs, l \in Locations :
                ServesSession(t, l) /\ Config[l].inact_exp # -1
                => clock < active[SessionSlot(l)] + Config[l].inact_exp]_vars
    BY IdleStep
  <1> QED BY <1>1, IdleInit, IdleNext, PTL DEF Spec, IdleSessionsEnd

(***************************************************************************)
(* The sessions a user has ended, in a browser with one window.  (With two *)
(* windows an answer that is late brings the session back.)  The invariant *)
(* is that no session cookie is left for them and none under way, and that *)
(* an answer that ends a session brings the header that clears its cookie. *)
(***************************************************************************)
OneWindow == \A t, x \in Tabs : t = x

\* Jar or headers h hold no cookie in the slots K.
NoCookie(K, h) == \A k \in DOMAIN h : k \in K => h[k] = Nothing

\* Headers h clear the cookies in the slots K.
Clears(K, h) == \A k \in K : k \in DOMAIN h /\ h[k] = Nothing

\* Window state s with the sessions E ended before, and D to end with its answer.
TabEnded(E, D, s) ==
    IF s.pc = "wait" THEN NoCookie(E, s.headers) /\ Clears(D, s.headers) ELSE D = {}

EndedInv ==
    /\ TypeOK
    /\ NoCookie(ended, jar)
    /\ \A t \in Tabs : TabEnded(ended, ending[t], tab[t])

LEMMA NoCookieHeaders ==
    /\ \A K : NoCookie(K, NoHeaders)
    /\ \A K, h, C : NoCookie(K, h) => NoCookie(K, ClearCookies(h, C))
    /\ \A K, h, k, v : NoCookie(K, h) /\ k \notin K => NoCookie(K, SetCookie(h, k, v))
    /\ \A K, j, h : NoCookie(K, j) /\ NoCookie(K, h) => NoCookie(K, ApplyHeaders(j, h))
    /\ \A h, k, C : k \in C => /\ k \in DOMAIN ClearCookies(h, C)
                               /\ ClearCookies(h, C)[k] = Nothing
  <1>1. \A K : NoCookie(K, NoHeaders)
    BY DEF NoCookie, NoHeaders
  <1>2. \A K, h, C : NoCookie(K, h) => NoCookie(K, ClearCookies(h, C))
    BY DEF NoCookie, ClearCookies
  <1>3. \A K, h, k, v : NoCookie(K, h) /\ k \notin K => NoCookie(K, SetCookie(h, k, v))
    BY DEF NoCookie, SetCookie
  <1>4. \A K, j, h : NoCookie(K, j) /\ NoCookie(K, h) => NoCookie(K, ApplyHeaders(j, h))
    BY DEF NoCookie, ApplyHeaders
  <1>5. \A h, k, C : k \in C => /\ k \in DOMAIN ClearCookies(h, C)
                                /\ ClearCookies(h, C)[k] = Nothing
    BY DEF ClearCookies
  <1> QED BY <1>1, <1>2, <1>3, <1>4, <1>5

\* A step of the one window.
LEMMA AnswerEnded ==
    ASSUME OneWindow, EndedInv, TypeOK', NEW t \in Tabs, NEW h, NEW n, jar' = jar, ended' \subseteq ended,
           \/ Answer(t, h, n) /\ NoCookie(ended', h) /\ Clears(ending'[t], h)
           \/ AnswerAtOnce(t, n) /\ n.pc # "wait" /\ ending'[t] = {}
    PROVE  EndedInv'
  <1>1. NoCookie(ended', jar')
    BY DEF EndedInv, NoCookie
  <1>2. TabEnded(ended', ending'[t], tab'[t])
    BY DEF EndedInv, TypeOK, Answer, AnswerAtOnce, TabEnded, Waiting
  <1> QED BY <1>1, <1>2 DEF EndedInv, OneWindow

LEMMA EndedRequest ==
    ASSUME OneWindow, EndedInv, NEW t \in Tabs, Request(t)
    PROVE  EndedInv'
  <1> PICK l \in Locations :
          \/ EndSession(t, l)
          \/ do_end_session_redirect(t, l)
          \/ OpenSession(t, l)
          \/ UseSession(t, l)
          \/ AskLogin(t, l)
          \/ StopTheShow(t, l)
          \/ Unauthorized(t, l)
    BY DEF Request
  <1> DEFINE c == Config[l]
             k == SessionSlot(l)
             h == GrantHeaders(c, jar)
             Goal == EndedInv'
  <1>1. TypeOK' /\ k \in SSlots /\ k \notin GSlots /\ ended \subseteq SSlots /\ jar' = jar
    BY TypeRequest, SessionContents, SlotsDiffer
    DEF EndedInv, TypeOK, SessionSlot, EndSession, do_end_session_redirect, OpenSession,
        UseSession, AskLogin, StopTheShow, Unauthorized, Ends, history
  <1>2. \A K : NoCookie(K, h)
    BY NoCookieHeaders DEF GrantHeaders
  <1>3. \A g, n : /\ ended' \subseteq ended
                  /\ \/ Answer(t, g, n) /\ NoCookie(ended', g) /\ Clears(ending'[t], g)
                     \/ AnswerAtOnce(t, n) /\ n.pc # "wait" /\ ending'[t] = {}
                  => Goal
    BY <1>1, AnswerEnded
  <1>4. ending[t] = {} /\ \A g : Clears({}, g)
    <2>1. tab[t].pc # "wait"
      BY DEF EndSession, do_end_session_redirect, OpenSession, UseSession, AskLogin, StopTheShow,
             Unauthorized, Verdict, Asked, GoTo
    <2> QED BY <2>1 DEF EndedInv, TabEnded, Clears
  <1> SUFFICES Goal
    OBVIOUS
  <1> HIDE DEF Goal
  <1>5. CASE EndSession(t, l)
    <2> DEFINE g == ClearCookies(NoHeaders, {k})
               n == Page(l, NoUser, clock)
    <2>1. Answer(t, g, n) /\ ended' = ended /\ ending'[t] \subseteq {k}
      BY <1>4, <1>5 DEF EndSession, Ends, EndedInv, TypeOK
    <2>2. NoCookie(ended', g) /\ k \in DOMAIN g /\ g[k] = Nothing
      BY NoCookieHeaders
    <2> HIDE DEF g, n
    <2> QED BY <1>3, <2>1, <2>2 DEF Clears
  <1>6. CASE do_end_session_redirect(t, l)
    <2> DEFINE g == ClearAll(NoHeaders, c)
               n == ToLogout(l)
    <2>1. Answer(t, g, n) /\ ended' = ended /\ ending'[t] \subseteq {k}
      BY <1>4, <1>6 DEF do_end_session_redirect, Ends, EndedInv, TypeOK
    <2>2. NoCookie(ended', g) /\ k \in DOMAIN g /\ g[k] = Nothing
      BY NoCookieHeaders DEF ClearAll, SessionSlot
    <2> HIDE DEF g, n
    <2> QED BY <1>3, <2>1, <2>2 DEF Clears
  <1>7. CASE OpenSession(t, l)
    <2> DEFINE g == jar[GSlot(c.srv)]
               s == NewSession(c, g, clock)
    <2>1. NoCookie(ended', SetCookie(h, k, s)) /\ ended' \subseteq ended
      BY <1>2, <1>7, NoCookieHeaders DEF OpenSession
    <2>2. ending'[t] = {}
      BY <1>4, <1>7 DEF OpenSession
    <2> QED BY <1>3, <1>4, <1>7, <2>1, <2>2 DEF OpenSession
  <1>8. CASE UseSession(t, l)
    <2> DEFINE s == SessionData(c, jar)
               h2 == IF c.inact_exp > 0 THEN SetCookie(h, k, TouchSession(s, clock)) ELSE h
    <2>1. k \notin ended
      <3>1. jar[k] # Nothing /\ k \in DOMAIN jar
        BY <1>8, SessionChecked, SessionContents
        DEF UseSession, Verdict, SessionSlot, EndedInv, TypeOK
      <3> QED BY <3>1 DEF EndedInv, NoCookie
    <2>2. ended' = ended /\ NoCookie(ended', h2)
      BY <1>2, <1>8, <2>1, NoCookieHeaders DEF UseSession
    <2> QED BY <1>3, <1>4, <1>8, <2>2 DEF UseSession
  <1>9. CASE AskLogin(t, l)
    <2> PICK tok \in Tokens :
            Answer(t, RequestHeaders(h, c, l, tok),
                   ToLogin(IF UsePost THEN MakeRequest(c, l, tok) ELSE Nothing))
      BY <1>9 DEF AskLogin
    <2> DEFINE h1 == SetCookie(h, PreSlot(c.srv), tok)
    <2>1. PreSlot(c.srv) \notin ended /\ ReqSlot \notin ended
      BY <1>1, ConfigType, SlotsDiffer DEF PreSlots
    <2>2. NoCookie(ended, SetCookie(h1, ReqSlot, MakeRequest(c, l, tok)))
      BY <1>2, <2>1, NoCookieHeaders
    <2>3. /\ UNCHANGED <<ended, ending>>
          /\ NoCookie(ended', RequestHeaders(h, c, l, tok))
      BY <1>2, <1>9, <2>2 DEF AskLogin, history, RequestHeaders
    <2> QED BY <1>3, <1>4, <2>3
  <1>10. CASE StopTheShow(t, l)
    <2>1. UNCHANGED <<ended, ending>> /\ NoCookie(ended', ClearAll(h, c))
      BY <1>2, <1>10, NoCookieHeaders DEF StopTheShow, history, ClearAll
    <2> QED BY <1>3, <1>4, <1>10, <2>1 DEF StopTheShow
  <1>11. CASE Unauthorized(t, l)
    BY <1>3, <1>4, <1>11 DEF Unauthorized, history, Idle
  <1> QED BY <1>5, <1>6, <1>7, <1>8, <1>9, <1>10, <1>11

LEMMA EndedLogin ==
    ASSUME OneWindow, EndedInv, NEW t \in Tabs, Login(t)
    PROVE  EndedInv'
  <1>1. TypeOK' /\ UNCHANGED <<jar, ending, ended>> /\ ended \subseteq SSlots
    BY TypeLogin DEF EndedInv, TypeOK, Login, LoginStatus, LoginLogout, LoginForm, LoginGrant,
           login_reply_handler, history
  <1>2. ending'[t] = {} /\ \A h : Clears(ending'[t], h)
    <2>1. tab[t].pc # "wait"
      BY DEF Login, LoginStatus, LoginLogout, LoginForm, LoginGrant, login_reply_handler
    <2> QED BY <1>1, <2>1 DEF EndedInv, TabEnded, Clears
  <1>3. CASE LoginStatus(t) \/ LoginLogout(t) \/ LoginForm(t)
    BY <1>1, <1>3, <1>2, AnswerEnded DEF LoginStatus, LoginLogout, LoginForm, Idle, Form
  <1>4. ASSUME NEW h, NoCookie(ended, h), NEW srv \in Servers, NEW g
        PROVE  NoCookie(ended, SetCookie(h, GSlot(srv), g))
    BY <1>1, <1>4, SlotsDiffer, NoCookieHeaders DEF GSlots
  <1>5. ASSUME NEW u \in Users \cup {NoUser}, LoginGrant(t, u) PROVE EndedInv'
    <2> DEFINE q == IF tab[t].pc = "form" THEN tab[t].greq ELSE Brought(t)
               g == Grant(q, u)
               h == SetCookie(ClearCookies(NoHeaders, {ReqSlot}), GSlot(q.srv), g)
               n == ToReply(g, q.uri)
    <2>1. AnswerAtOnce(t, n) \/ Answer(t, h, GoTo(q.uri))
      BY <1>5 DEF LoginGrant
    <2>2. q.srv \in Servers
      <3>1. q \in GrantingRequest
        BY <1>5, TabFields, BroughtType DEF LoginGrant, EndedInv, TypeOK
      <3> QED BY <3>1 DEF GrantingRequest
    <2>3. NoCookie(ended', h)
      BY <1>1, <1>4, <2>2, NoCookieHeaders
    <2>4. n.pc # "wait"
      BY DEF ToReply
    <2> HIDE DEF q, g, h, n
    <2> QED BY <1>1, <1>2, <2>1, <2>3, <2>4, AnswerEnded
  <1>6. CASE login_reply_handler(t)
    <2> DEFINE g == tab[t].cookie
    <2>1. g.srv \in Servers
      BY <1>6, TabFields DEF login_reply_handler, EndedInv, TypeOK, GrantingCookie
    <2>2. NoCookie(ended', SetCookie(NoHeaders, GSlot(g.srv), g))
      BY <1>1, <1>4, <2>1, NoCookieHeaders
    <2> QED BY <1>1, <1>2, <1>6, <2>2, AnswerEnded DEF login_reply_handler
  <1> QED BY <1>3, <1>5, <1>6 DEF Login

LEMMA EndedNext == OneWindow /\ EndedInv /\ [Next]_vars => EndedInv'
  <1> SUFFICES ASSUME OneWindow, EndedInv, [Next]_vars PROVE EndedInv'
    OBVIOUS
  <1>0. TypeOK'
    BY TypeNext DEF EndedInv
  <1>1. CASE UNCHANGED vars \/ Tick
    BY <1>0, <1>1 DEF vars, Tick, history, EndedInv
  <1>2. ASSUME NEW t \in Tabs, NEW n, AnswerAtOnce(t, n), n.pc # "wait", ending'[t] = {},
               UNCHANGED <<jar, ended>>
        PROVE  EndedInv'
    BY <1>0, <1>2, AnswerEnded
  <1>3. ASSUME NEW t \in Tabs, Lose(t) \/ BrowseLogin(t) \/ \E l \in Locations : Browse(t, l)
        PROVE  EndedInv'
    <2>1. PICK n \in {Idle, ToLogin(Nothing)} \cup {GoTo(l) : l \in Locations} : AnswerAtOnce(t, n)
      BY <1>3 DEF Lose, BrowseLogin, Browse, AnswerAtOnce
    <2>2. n.pc # "wait"
      BY DEF Idle, ToLogin, GoTo
    <2>3. ending'[t] = {}
      BY <1>3 DEF Lose, BrowseLogin, Browse, history, EndedInv, TypeOK, TabEnded
    <2> QED BY <1>2, <1>3, <2>1, <2>2, <2>3 DEF Lose, BrowseLogin, Browse, history
  <1>4. ASSUME NEW t \in Tabs, Receive(t) PROVE EndedInv'
    <2> DEFINE h == tab[t].headers
               n == tab[t].next
    <2>1. /\ tab[t].pc = "wait" /\ jar' = ApplyHeaders(jar, h)
          /\ ended' = ended \cup ending[t]
      BY <1>4 DEF Receive
    <2>2. NoCookie(ended, h) /\ Clears(ending[t], h) /\ NoCookie(ended, jar)
      BY <2>1 DEF EndedInv, TabEnded
    <2>3. NoCookie(ended, jar')
      BY <2>1, <2>2, NoCookieHeaders
    <2>4. \A k \in ended' \ ended : k \in DOMAIN h /\ h[k] = Nothing
      BY <2>1, <2>2 DEF Clears
    <2>5. \A k \in DOMAIN h : jar'[k] = h[k] \/ k \notin DOMAIN jar'
      BY <2>1 DEF ApplyHeaders
    <2>6. NoCookie(ended', jar')
      BY <2>3, <2>4, <2>5 DEF NoCookie
    <2>7. tab'[t].pc # "wait"
      BY <1>4, TabFields DEF Receive, EndedInv, TypeOK, TabState, Idle
    <2>8. ending'[t] = {}
      BY <1>4 DEF Receive, EndedInv, TypeOK
    <2> QED BY <1>0, <2>6, <2>7, <2>8 DEF EndedInv, TabEnded, OneWindow
  <1> QED BY <1>1, <1>2, <1>3, <1>4, EndedRequest, EndedLogin DEF Next

\* In a browser with one window, a session that a location with
\* PubcookieEndSession ended, and whose answer has arrived, is not accepted
\* again without a new login (do_end_session_redirect, clear_session_cookie).
THEOREM EndedForGood ==
    ASSUME OneWindow
    PROVE  Spec => EndedSessionsStayEnded
  <1>1. Init => EndedInv
    BY TypeInit DEF Init, EndedInv, NoCookie, TabEnded, Idle
  <1>2. EndedInv /\ [Next]_vars =>
            [\A t \in Tabs, l \in Locations :
                ServesSession(t, l) => SessionSlot(l) \notin ended]_vars
    <2> SUFFICES ASSUME EndedInv, [Next]_vars, NEW t \in Tabs, NEW l \in Locations,
                        ServesSession(t, l)
                 PROVE  SessionSlot(l) \notin ended
      OBVIOUS
    <2>1. UseSession(t, l)
      BY AnsweredByRequest DEF EndedInv
    <2>2. jar[SessionSlot(l)] # Nothing /\ SessionSlot(l) \in DOMAIN jar
      BY <2>1, SessionChecked, SessionContents
      DEF UseSession, Verdict, SessionSlot, EndedInv, TypeOK
    <2> QED BY <2>2 DEF EndedInv, NoCookie
  <1> QED BY <1>1, <1>2, EndedNext, PTL DEF Spec, EndedSessionsStayEnded
=============================================================================
