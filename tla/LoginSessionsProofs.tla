------------------------ MODULE LoginSessionsProofs ------------------------
(***************************************************************************)
(* Theorems about LoginSessions, for any users, windows, requests and      *)
(* lifetimes: what a login cookie says of its user was verified, when it   *)
(* says so, and no sign-on outlives its password but one used at its end.  *)
(***************************************************************************)
EXTENDS LoginSessions, TLAPS

USE LoginUserAssumption, DurationAssumption, RequestAssumption, NoCookieAssumption,
    LoginBoundAssumption

(***************************************************************************)
(* Types.                                                                  *)
(***************************************************************************)
LEMMA CredValues ==
    PBC_CREDS_NONE = 0 /\ PBC_BASIC_CRED_ID = 1 /\ PBC_UWSECURID_CRED_ID = 3
  BY DEF PBC_CREDS_NONE, PBC_BASIC_CRED_ID, PBC_UWSECURID_CRED_ID

LEMMA TabFields ==
    ASSUME NEW s \in TabState
    PROVE  /\ s.pc \in {"idle", "visit", "form", "script", "wait"}
           /\ s.pc = "visit" => s.visit \in Visit
           /\ s.pc = "form" => /\ s.req \in LoginRequest
                               /\ s.pinit \in BOOLEAN /\ s.ts \in Time
           /\ s.pc = "script" => /\ s.visit \in Visit
                                 /\ s.user \in Users \cup {NoUser}
                                 /\ s.cookie \in LoginCookie \cup {Nothing}
                                 /\ s.at \in Time
           /\ s.pc = "wait" => /\ s.cookie \in LoginCookie \cup {Nothing}
                               /\ s.logout \in BOOLEAN
  BY DEF TabState

LEMMA TabStates ==
    ASSUME clock \in Nat
    PROVE  /\ Idle \in TabState
           /\ \A v \in Visit : Visiting(v) \in TabState
           /\ \A r \in LoginRequest, p \in BOOLEAN, ts \in Time : Form(r, p, ts) \in TabState
           /\ \A v \in Visit, u \in Users \cup {NoUser}, c \in LoginCookie \cup {Nothing} :
                 Script(v, u, c) \in TabState
           /\ \A c \in LoginCookie \cup {Nothing}, b \in BOOLEAN : Waiting(c, b) \in TabState
  BY DEF TabState, Idle, Visiting, Form, Script, Waiting, Time

\* A visit is for a user or for nobody; who has typed the right password or
\* token code is a user.
LEMMA VisitUserType ==
    ASSUME NEW v \in Visit, NEW c \in LoginCookie \cup {Nothing}, NEW now \in Nat
    PROVE  /\ LoginUser(v, c, now) \in Users \cup {NoUser}
           /\ PasswordRight(v, c, now) \/ TokenRight(v, c, now) => LoginUser(v, c, now) \in Users
  <1>1. v.user \in Users \cup {NoUser}
        /\ v.pass \in Users \cup {NoUser} /\ v.pass2 \in Users \cup {NoUser}
    BY DEF Visit
  <1>2. c # Nothing => c.user \in Users \cup {NoUser}
    BY DEF LoginCookie
  <1>3. CookieHolds(c, now) => c # Nothing
    BY DEF CookieHolds, check_l_cookie_expire
  <1> QED BY <1>1, <1>2, <1>3 DEF LoginUser, PasswordRight, TokenRight

\* The record of the cookie after a login.
LEMMA RenewedFields ==
    ASSUME NEW v \in Visit, NEW c \in LoginCookie, NEW now \in Nat
    PROVE  LET r == Renewed(v, c, now) IN
           /\ r \in LoginCookie /\ r # Nothing
           /\ r.create_ts = now /\ r.expire_ts = c.expire_ts
           /\ r.creds = 3 => ~IsBasic(v)
  <1> DEFINE creds == IF IsBasic(v) /\ c.creds = 3 THEN 1 ELSE c.creds
             r == Renewed(v, c, now)
  <1>1. c # Nothing /\ c.creds \in {0, 1, 3}
    BY CredValues DEF LoginCookie
  <1>2. r = [c EXCEPT !.create_ts = now, !.creds = creds]
    BY <1>1, CredValues DEF Renewed
  <1>3. creds \in {0, 1, 3} /\ (creds = 3 => ~IsBasic(v))
    BY <1>1
  <1> HIDE DEF r, creds
  <1>4. r = [user |-> c.user, creds |-> creds, create_ts |-> now, expire_ts |-> c.expire_ts]
    BY <1>2 DEF LoginCookie
  <1>5. r \in LoginCookie
    BY <1>3, <1>4, CredValues DEF LoginCookie, Time
  <1> QED BY <1>3, <1>4, <1>5 DEF r

LEMMA RenewedNone == \A v, now : Renewed(v, Nothing, now) = Nothing
  BY DEF Renewed

\* The cookies the script sends.
LEMMA IssuedType ==
    ASSUME NEW u \in Users \cup {NoUser}, NEW creds \in {1, 3},
           NEW c \in LoginCookie \cup {Nothing}, NEW at \in Nat
    PROVE  set_l_cookie(u, creds, c, at) \in LoginCookie
  <1> DEFINE m == IF c # Nothing /\ c.creds > creds THEN c.creds ELSE creds
             ts == IF c = Nothing THEN at ELSE c.create_ts
             e == LaterExpire(c, at)
  <1>1. c # Nothing => c.creds \in {0, 1, 3} /\ c.create_ts \in Int /\ c.expire_ts \in Int
    BY CredValues DEF LoginCookie, Time
  <1>2. m \in {1, 3} /\ ts \in Int
    BY <1>1
  <1>3. e \in Int
    BY <1>1 DEF LaterExpire
  <1>4. set_l_cookie(u, creds, c, at) = [user |-> u, creds |-> m, create_ts |-> ts, expire_ts |-> e]
    BY DEF set_l_cookie
  <1> HIDE DEF m, ts, e
  <1> QED BY <1>2, <1>3, <1>4, CredValues DEF LoginCookie, Time

LEMMA ExpiredType ==
    ASSUME NEW u \in Users \cup {NoUser}, NEW at \in Nat
    PROVE  LET n == expire_login_cookie(u, at) IN
           n \in LoginCookie /\ n.creds = PBC_CREDS_NONE /\ n.expire_ts = at
  BY DEF expire_login_cookie, LoginCookie, Time

\* The user of window t's visit, and what is verified of him.
LEMMA VisitType ==
    ASSUME TypeOK, NEW t \in Tabs, tab[t].pc = "visit"
    PROVE  /\ tab[t].visit \in Visit
           /\ VisitUser(t) \in Users \cup {NoUser}
           /\ PasswordRight(tab[t].visit, cookie, clock) \/ TokenRight(tab[t].visit, cookie, clock)
              => VisitUser(t) \in Users
           /\ cookie # Nothing => Renewed(tab[t].visit, cookie, clock) \in LoginCookie
           /\ Renewed(tab[t].visit, cookie, clock) \in LoginCookie \cup {Nothing}
  <1>1. tab[t].visit \in Visit
    BY TabFields DEF TypeOK
  <1> QED BY <1>1, VisitUserType, RenewedFields, RenewedNone DEF TypeOK, VisitUser

LEMMA VerifyType ==
    ASSUME TypeOK, NEW t \in Tabs, tab[t].pc = "visit", Verify(t)
    PROVE  /\ verified \subseteq verified' /\ verified' \subseteq Verification
           /\ PasswordChecked(tab[t].visit, cookie, clock) => Verified(t, "password") \in verified'
           /\ TokenChecked(tab[t].visit, cookie, clock) => Verified(t, "token") \in verified'
  <1>1. PasswordChecked(tab[t].visit, cookie, clock) \/ TokenChecked(tab[t].visit, cookie, clock)
        => VisitUser(t) \in Users
    BY VisitType DEF PasswordChecked, TokenChecked, SecuridLogin
  <1>2. clock \in Time
    BY DEF TypeOK, Time
  <1>3. \A x \in verified' \ verified : x \in Verification
    BY <1>1, <1>2 DEF Verify, Verified, Verification
  <1> QED BY <1>3 DEF Verify, TypeOK

\* One step in window t.
Step(t) ==
    \/ \E r \in Requests : Visits(t, r)
    \/ \E u \in Users, pw, tk \in Users \cup {NoUser} : Submit(t, u, pw, tk)
    \/ LoginOK(t) \/ RideOK(t) \/ QuietOK(t) \/ print_login_page(t)
    \/ pinit(t)
    \/ IssueCookies(t)
    \/ \E clear \in BOOLEAN : logout(t, clear)
    \/ Receive(t)
    \/ Lose(t)

LEMMA AskType ==
    ASSUME NEW r \in LoginRequest
    PROVE  /\ Ask(r) \in Visit
           /\ \A p \in BOOLEAN, ts \in Time, u \in Users, pw, tk \in Users \cup {NoUser} :
                 [Ask(r) EXCEPT !.pinit = p, !.reply = TRUE, !.form_ts = ts,
                                !.user = u, !.pass = pw, !.pass2 = tk] \in Visit
  <1>1. Ask(r) \in Visit
    BY DEF Ask, Visit, Time
  <1>2. ASSUME NEW p \in BOOLEAN, NEW ts \in Time, NEW u \in Users,
               NEW pw \in Users \cup {NoUser}, NEW tk \in Users \cup {NoUser}
        PROVE  [Ask(r) EXCEPT !.pinit = p, !.reply = TRUE, !.form_ts = ts,
                              !.user = u, !.pass = pw, !.pass2 = tk] \in Visit
    <2>1. [Ask(r) EXCEPT !.pinit = p] \in Visit
      BY <1>1 DEF Visit
    <2>2. [Ask(r) EXCEPT !.pinit = p, !.reply = TRUE] \in Visit
      BY <2>1 DEF Visit
    <2>3. [Ask(r) EXCEPT !.pinit = p, !.reply = TRUE, !.form_ts = ts] \in Visit
      BY <2>2 DEF Visit
    <2>4. [Ask(r) EXCEPT !.pinit = p, !.reply = TRUE, !.form_ts = ts, !.user = u] \in Visit
      BY <2>3 DEF Visit
    <2>5. [Ask(r) EXCEPT !.pinit = p, !.reply = TRUE, !.form_ts = ts, !.user = u,
                         !.pass = pw] \in Visit
      BY <2>4 DEF Visit
    <2> QED BY <2>5 DEF Visit
  <1> QED BY <1>1, <1>2

\* What a step of window t makes of the window, and of the rest.
LEMMA StepType ==
    ASSUME TypeOK, NEW t \in Tabs, Step(t)
    PROVE  /\ \E s \in TabState : Becomes(t, s)
           /\ cookie' \in LoginCookie \cup {Nothing}
           /\ verified \subseteq verified' /\ verified' \subseteq Verification
           /\ overtaken \subseteq overtaken' /\ overtaken' \subseteq [user : Users, at : Time]
           /\ out' \in BOOLEAN /\ clock' = clock
  <1> USE DEF history
  <1>1. clock \in Nat /\ clock \in Time /\ tab[t] \in TabState
    BY DEF TypeOK, Time
  <1>2. ASSUME NEW r \in Requests, Visits(t, r) PROVE \E s \in TabState : Becomes(t, s)
    BY <1>1, <1>2, AskType, TabStates DEF Visits
  <1>3. ASSUME NEW u \in Users, NEW pw \in Users \cup {NoUser}, NEW tk \in Users \cup {NoUser},
               Submit(t, u, pw, tk)
        PROVE  \E s \in TabState : Becomes(t, s)
    <2>1. tab[t].req \in LoginRequest /\ tab[t].pinit \in BOOLEAN /\ tab[t].ts \in Time
      BY <1>1, <1>3, TabFields DEF Submit
    <2> DEFINE v == [Ask(tab[t].req) EXCEPT
                       !.pinit = tab[t].pinit, !.reply = TRUE, !.form_ts = tab[t].ts,
                       !.user = u, !.pass = pw, !.pass2 = tk]
    <2>2. v \in Visit
      BY <2>1, AskType
    <2>3. Becomes(t, Visiting(v))
      BY <1>3 DEF Submit
    <2> HIDE DEF v
    <2> QED BY <1>1, <2>2, <2>3, TabStates
  <1>4. ASSUME LoginOK(t) \/ RideOK(t) \/ QuietOK(t)
        PROVE  \E s \in TabState : Becomes(t, s)
    <2>1. tab[t].pc = "visit"
      BY <1>4 DEF LoginOK, RideOK, QuietOK, Outcome
    <2>2. cookie \in LoginCookie \cup {Nothing}
      BY DEF TypeOK
    <2> QED BY <1>1, <1>4, <2>1, <2>2, VisitType, TabStates DEF LoginOK, RideOK, QuietOK
  <1>5. ASSUME print_login_page(t) PROVE \E s \in TabState : Becomes(t, s)
    <2>1. tab[t].pc = "visit"
      BY <1>5 DEF print_login_page, Outcome
    <2>2. tab[t].visit.req \in LoginRequest /\ tab[t].visit.pinit \in BOOLEAN
      BY <2>1, VisitType DEF Visit
    <2> QED BY <1>1, <1>5, <2>2, TabStates DEF print_login_page
  <1>6. ASSUME pinit(t) PROVE \E s \in TabState : Becomes(t, s)
    <2>1. PinitRequest \in LoginRequest
      BY CredValues DEF PinitRequest, LoginRequest
    <2> QED BY <1>1, <1>6, <2>1, TabStates DEF pinit
  <1>7. ASSUME IssueCookies(t) PROVE \E s \in TabState : Becomes(t, s)
    <2> DEFINE s == tab[t]
               n == set_l_cookie(s.user, s.visit.req.creds, s.cookie, clock)
    <2>1. s.visit \in Visit /\ s.user \in Users \cup {NoUser}
          /\ s.cookie \in LoginCookie \cup {Nothing}
      BY <1>1, <1>7, TabFields DEF IssueCookies
    <2>2. s.visit.req.creds \in {1, 3}
      BY <2>1, CredValues DEF Visit, LoginRequest
    <2>3. n \in LoginCookie
      BY <1>1, <2>1, <2>2, IssuedType
    <2>4. Becomes(t, Idle) \/ Becomes(t, Waiting(n, FALSE))
      BY <1>7 DEF IssueCookies
    <2> QED BY <1>1, <2>3, <2>4, TabStates
  <1>8. ASSUME NEW clear \in BOOLEAN, logout(t, clear) PROVE \E s \in TabState : Becomes(t, s)
    <2> DEFINE u == IF cookie = Nothing THEN NoUser ELSE cookie.user
    <2>1. u \in Users \cup {NoUser}
      BY DEF TypeOK, LoginCookie
    <2>2. expire_login_cookie(u, clock) \in LoginCookie
      BY <1>1, <2>1, ExpiredType
    <2>3. Becomes(t, Waiting(Nothing, TRUE)) \/ Becomes(t, Waiting(expire_login_cookie(u, clock), TRUE))
      BY <1>8 DEF logout
    <2> QED BY <1>1, <2>2, <2>3, TabStates
  <1>9. ASSUME Receive(t) \/ Lose(t) PROVE \E s \in TabState : Becomes(t, s)
    BY <1>1, <1>9, TabStates DEF Receive, Lose
  <1>10. \E s \in TabState : Becomes(t, s)
    BY <1>2, <1>3, <1>4, <1>5, <1>6, <1>7, <1>8, <1>9 DEF Step
  <1>11. cookie' \in LoginCookie \cup {Nothing} /\ out' \in BOOLEAN
    <2>1. Receive(t) => tab[t].cookie \in LoginCookie \cup {Nothing} /\ tab[t].logout \in BOOLEAN
      BY <1>1, TabFields DEF Receive
    <2> QED BY <2>1
        DEF Step, TypeOK, Visits, Submit, LoginOK, RideOK, QuietOK, print_login_page, pinit,
            IssueCookies, logout, Receive, Lose
  <1>12. verified \subseteq verified' /\ verified' \subseteq Verification /\ clock' = clock
    <2>1. LoginOK(t) \/ print_login_page(t) =>
             verified \subseteq verified' /\ verified' \subseteq Verification
      BY VerifyType DEF LoginOK, print_login_page, Outcome
    <2> QED BY <2>1
        DEF Step, TypeOK, Visits, Submit, LoginOK, RideOK, QuietOK, print_login_page, pinit,
            IssueCookies, logout, Receive, Lose
  <1>13. overtaken \subseteq overtaken' /\ overtaken' \subseteq [user : Users, at : Time]
    <2>1. ASSUME IssueCookies(t) PROVE Overtaken(tab[t], clock) \subseteq [user : Users, at : Time]
      <3>1. tab[t].user \in Users \cup {NoUser}
        BY <1>1, <2>1, TabFields DEF IssueCookies
      <3> QED BY <1>1, <3>1 DEF Overtaken
    <2>2. CASE IssueCookies(t)
      BY <2>1, <2>2 DEF IssueCookies, TypeOK
    <2>3. CASE ~IssueCookies(t)
      BY <2>3
      DEF Step, TypeOK, Visits, Submit, LoginOK, RideOK, QuietOK, print_login_page, pinit,
          logout, Receive, Lose
    <2> QED BY <2>2, <2>3
  <1> QED BY <1>10, <1>11, <1>12, <1>13

LEMMA TypeInit == Init => TypeOK
  <1> SUFFICES ASSUME Init PROVE TypeOK
    OBVIOUS
  <1>1. Idle \in TabState
    BY DEF Idle, TabState
  <1> QED BY <1>1 DEF Init, TypeOK

LEMMA TypeNext == TypeOK /\ [Next]_vars => TypeOK'
  <1> SUFFICES ASSUME TypeOK, [Next]_vars PROVE TypeOK'
    OBVIOUS
  <1>1. CASE Tick
    BY <1>1 DEF Tick, TypeOK, history
  <1>2. CASE UNCHANGED vars
    BY <1>2 DEF vars, history, TypeOK
  <1>3. ASSUME NEW t \in Tabs, Step(t) PROVE TypeOK'
    <2>1. PICK s \in TabState : tab' = [tab EXCEPT ![t] = s]
      BY <1>3, StepType DEF Becomes
    <2>2. tab' \in [Tabs -> TabState]
      BY <2>1 DEF TypeOK
    <2> QED BY <1>3, <2>2, StepType DEF TypeOK
  <1> QED BY <1>1, <1>2, <1>3 DEF Next, Step

\* Every visit, form, cookie and verification is what its place calls for,
\* whatever windows and requests there are (get_query, cgiMain).
THEOREM TypeCorrect == Spec => []TypeOK
  BY TypeInit, TypeNext, PTL DEF Spec

(***************************************************************************)
(* The invariant.  A cookie that speaks for its user rests on what was     *)
(* verified of him; and so does every cookie that a run of the script may  *)
(* still write, at whatever time it does.                                  *)
(***************************************************************************)
\* Cookie c was made of a verification of its user (LoginsAreVerified).
MadeOf(V, c) ==
    \E x \in V :
        /\ x.user = c.user
        /\ x.what = IF c.creds = PBC_UWSECURID_CRED_ID THEN "token" ELSE "password"
        /\ x.at <= c.create_ts /\ c.create_ts <= x.at + CgiTime

\* ... and lasts a sign-on from a password, or from the end of the last
\* sign-on if a run of the script overlooked it (SignOnExpires).
SignedOn(V, O, c) ==
    \/ \E x \in V :
          /\ x.user = c.user /\ x.what = "password"
          /\ c.expire_ts <= x.at + CgiTime + LoginExpire
    \/ \E o \in O : o.user = c.user /\ c.expire_ts <= o.at + LoginExpire

CookieBacked(V, O, c) ==
    c.creds # PBC_CREDS_NONE => MadeOf(V, c) /\ SignedOn(V, O, c)

\* The cookie a run of the script in state s writes at the time given.
Issued(s, at) == set_l_cookie(s.user, s.visit.req.creds, s.cookie, at)

ScriptBacked(V, O, s) ==
    s.user # NoUser =>
        /\ \A at \in s.at .. s.at + CgiTime :
              CookieBacked(V, O \cup Overtaken(s, at), Issued(s, at))
        /\ (IsBasic(s.visit) => s.visit.req.session_reauth # 0) =>
              \E x \in V : x.user = s.user /\ RequiredLogin(s.visit, x, s.at)

\* No cookie lasts longer than a sign-on from now.
Lasts(c, now) == c # Nothing => c.expire_ts <= now + LoginExpire

ScriptOK(V, O, s, now) ==
    s.pc = "script" => /\ s.at <= now /\ now <= s.at + CgiTime
                       /\ Lasts(s.cookie, now)
                       /\ ScriptBacked(V, O, s)

Inv ==
    /\ TypeOK
    /\ \A c \in LoginCookies : CookieBacked(verified, overtaken, c) /\ Lasts(c, clock)
    /\ \A t \in Tabs : ScriptOK(verified, overtaken, tab[t], clock)

\* What was verified stays so.
LEMMA StaysBacked ==
    ASSUME NEW V, NEW W, V \subseteq W, NEW O, NEW P, O \subseteq P
    PROVE  /\ \A c : CookieBacked(V, O, c) => CookieBacked(W, P, c)
           /\ \A s : ScriptBacked(V, O, s) => ScriptBacked(W, P, s)
  <1>1. \A c : CookieBacked(V, O, c) => CookieBacked(W, P, c)
    BY DEF CookieBacked, MadeOf, SignedOn
  <1>2. ASSUME NEW s, NEW at, CookieBacked(V, O \cup Overtaken(s, at), Issued(s, at))
        PROVE  CookieBacked(W, P \cup Overtaken(s, at), Issued(s, at))
    BY <1>2 DEF CookieBacked, MadeOf, SignedOn
  <1> QED BY <1>1, <1>2 DEF ScriptBacked

\* The cookie in the browser as a flavor finds it.
LEMMA CookieKnown ==
    ASSUME Inv, cookie # Nothing
    PROVE  /\ cookie \in LoginCookie /\ cookie.creds \in {0, 1, 3}
           /\ cookie.create_ts \in Int /\ cookie.expire_ts \in Int
           /\ cookie.expire_ts <= clock + LoginExpire
           /\ CookieBacked(verified, overtaken, cookie)
  <1>1. cookie \in LoginCookie /\ cookie \in LoginCookies
    BY DEF Inv, TypeOK, LoginCookies
  <1> QED BY <1>1, CredValues DEF Inv, Lasts, LoginCookie, Time

\* A step in window t adds to the login cookies that in its answer, if any.
LEMMA StepCookies ==
    ASSUME TypeOK, NEW t \in Tabs, NEW s, Becomes(t, s),
           cookie' = cookie \/ (tab[t].pc = "wait" /\ cookie' = tab[t].cookie)
    PROVE  \A c \in LoginCookies' \ LoginCookies : s.pc = "wait" /\ c = s.cookie
  BY DEF Becomes, TypeOK, LoginCookies

\* What must be shown of a step of window t to keep the invariant.
LEMMA StepKeeps ==
    ASSUME Inv, TypeOK', NEW t \in Tabs, NEW s, Becomes(t, s),
           cookie' = cookie \/ (tab[t].pc = "wait" /\ cookie' = tab[t].cookie),
           verified \subseteq verified', overtaken \subseteq overtaken', clock' = clock,
           s.pc = "wait" /\ s.cookie # Nothing =>
              CookieBacked(verified', overtaken', s.cookie) /\ Lasts(s.cookie, clock),
           ScriptOK(verified', overtaken', s, clock)
    PROVE  Inv'
  <1>1. \A c \in LoginCookies' : CookieBacked(verified', overtaken', c) /\ Lasts(c, clock)
    <2> SUFFICES ASSUME NEW c \in LoginCookies'
                 PROVE  CookieBacked(verified', overtaken', c) /\ Lasts(c, clock)
      OBVIOUS
    <2>1. CASE c \in LoginCookies
      BY <2>1, StaysBacked DEF Inv
    <2>2. CASE c \notin LoginCookies
      <3>1. s.pc = "wait" /\ c = s.cookie
        BY <2>2, StepCookies DEF Inv
      <3>2. c # Nothing
        BY DEF LoginCookies
      <3> QED BY <3>1, <3>2
    <2> QED BY <2>1, <2>2
  <1>2. \A x \in Tabs : ScriptOK(verified', overtaken', tab'[x], clock)
    <2> SUFFICES ASSUME NEW x \in Tabs PROVE ScriptOK(verified', overtaken', tab'[x], clock)
      OBVIOUS
    <2>1. CASE x = t
      BY <2>1 DEF Becomes, Inv, TypeOK
    <2>2. CASE x # t
      <3>1. tab'[x] = tab[x]
        BY <2>2 DEF Becomes, Inv, TypeOK
      <3> QED BY <3>1, StaysBacked DEF Inv, ScriptOK
    <2> QED BY <2>1, <2>2
  <1> QED BY <1>1, <1>2 DEF Inv

(***************************************************************************)
(* The script's outcomes.                                                  *)
(***************************************************************************)
LEMMA Outcomes ==
    ASSUME Inv, NEW t \in Tabs
    PROVE  LET v == tab[t].visit IN
           /\ Outcome(t, "login") => IF IsBasic(v) THEN BasicLogin(v, cookie, clock)
                                     ELSE SecuridLogin(v, cookie, clock)
           /\ Outcome(t, "ride") => IF IsBasic(v) THEN BasicRide(v, cookie, clock)
                                    ELSE SecuridRide(v, cookie, clock)
           /\ \A o : Outcome(t, o) => tab[t].pc = "visit"
  BY DEF Outcome, vector_request

LEMMA VisitFields ==
    ASSUME Inv, NEW t \in Tabs, tab[t].pc = "visit"
    PROVE  LET v == tab[t].visit IN
           /\ v \in Visit /\ v.req.creds \in {1, 3} /\ (IsBasic(v) <=> v.req.creds = 1)
           /\ Grace(v.req.session_reauth) \in Nat
           /\ (IF v.req.token30 THEN Token30 ELSE MinRideFree) \in Nat
  <1>1. tab[t].visit \in Visit
    BY VisitType DEF Inv
  <1>2. tab[t].visit.req \in LoginRequest
    BY <1>1 DEF Visit
  <1> QED BY <1>1, <1>2, CredValues DEF LoginRequest, IsBasic, Grace

\* A verified login: a token's worth only with a token code, and no longer
\* than a sign-on from a password.
LEMMA LoginBacked ==
    ASSUME Inv, NEW t \in Tabs, Outcome(t, "login"), Verify(t)
    PROVE  ScriptOK(verified', overtaken, Script(tab[t].visit, VisitUser(t),
                                                 Renewed(tab[t].visit, cookie, clock)), clock)
  <1> DEFINE v == tab[t].visit
             u == VisitUser(t)
             r == Renewed(v, cookie, clock)
             s == Script(v, u, r)
             kind == IF IsBasic(v) THEN "password" ELSE "token"
  <1>1. clock \in Nat /\ tab[t].pc = "visit"
    BY Outcomes DEF Inv, TypeOK
  <1>2. /\ v \in Visit /\ v.req.creds \in {1, 3} /\ (IsBasic(v) <=> v.req.creds = 1)
        /\ Grace(v.req.session_reauth) \in Nat
        /\ (IF v.req.token30 THEN Token30 ELSE MinRideFree) \in Nat
    BY <1>1, VisitFields
  <1>3. IF IsBasic(v) THEN BasicLogin(v, cookie, clock) ELSE SecuridLogin(v, cookie, clock)
    BY Outcomes
  <1>4. u \in Users
    BY <1>1, <1>3, VisitType DEF Inv, BasicLogin, SecuridLogin
  <1>5. /\ PasswordRight(v, cookie, clock) => Verified(t, "password") \in verified'
        /\ ~IsBasic(v) => Verified(t, "token") \in verified'
    BY <1>1, <1>3, VerifyType
    DEF Inv, PasswordChecked, TokenChecked, BasicLogin, SecuridLogin, TokenAsked
  <1>6. Verified(t, kind) \in verified'
    BY <1>3, <1>5 DEF BasicLogin
  <1>7. r # Nothing => /\ cookie # Nothing /\ r \in LoginCookie
                       /\ r.create_ts = clock /\ r.expire_ts = cookie.expire_ts
                       /\ r.creds = 3 => ~IsBasic(v)
    BY <1>1, <1>2, CookieKnown, RenewedFields, RenewedNone
  <1>8. cookie # Nothing => r # Nothing
    BY <1>1, <1>2, CookieKnown, RenewedFields
  <1>9. s.pc = "script" /\ s.visit = v /\ s.user = u /\ s.cookie = r /\ s.at = clock
    BY DEF Script
  <1>10. r # Nothing => r.expire_ts \in Int /\ r.expire_ts <= clock + LoginExpire
    BY <1>7, CookieKnown
  <1>11. Verified(t, kind).user = u /\ Verified(t, kind).what = kind
         /\ Verified(t, kind).at = clock
    BY DEF Verified
  <1>12. \/ Verified(t, "password") \in verified'
         \/ /\ CookieHolds(cookie, clock) /\ u = cookie.user
    BY <1>3, <1>5
    DEF BasicLogin, SecuridLogin, TokenAsked, ride_free_zone, VisitUser, LoginUser
  <1>13. Verified(t, "password").user = u /\ Verified(t, "password").what = "password"
         /\ Verified(t, "password").at = clock
    BY DEF Verified
  <1>14. verified \subseteq verified'
    BY <1>1, VerifyType DEF Inv
  <1> HIDE DEF u, r, s
  <1>15. ASSUME NEW at \in clock .. clock + CgiTime
         PROVE  CookieBacked(verified', overtaken \cup Overtaken(s, at), Issued(s, at))
    <2> DEFINE n == Issued(s, at)
    <2>1. at \in Nat /\ clock <= at /\ at <= clock + CgiTime
      BY <1>1
    <2>2. /\ n.user = u
          /\ n.creds = 3 <=> v.req.creds = 3 \/ (r # Nothing /\ r.creds = 3)
          /\ n.create_ts = IF r = Nothing THEN at ELSE r.create_ts
          /\ n.expire_ts = LaterExpire(r, at)
          /\ \/ n.expire_ts = at + LoginExpire
             \/ r # Nothing /\ at <= r.expire_ts /\ n.expire_ts = r.expire_ts
          /\ r # Nothing /\ at <= r.expire_ts => n.expire_ts = r.expire_ts
      <3>1. n = set_l_cookie(u, v.req.creds, r, at)
        BY <1>9 DEF Issued
      <3>2. r # Nothing => r.creds \in {0, 1, 3} /\ r.create_ts \in Int /\ r.expire_ts \in Int
        BY <1>7, CredValues DEF LoginCookie, Time
      <3> HIDE DEF n
      <3> QED BY <1>2, <2>1, <3>1, <3>2 DEF set_l_cookie, LaterExpire
    <2> HIDE DEF n
    <2>3. n.creds = 3 <=> ~IsBasic(v)
      BY <1>2, <1>7, <2>2
    <2>4. clock <= n.create_ts /\ n.create_ts <= clock + CgiTime
      BY <1>1, <1>7, <2>1, <2>2
    <2>5. MadeOf(verified', n)
      BY <1>6, <1>11, <2>2, <2>3, <2>4, CredValues DEF MadeOf
    <2>6. SignedOn(verified', overtaken \cup Overtaken(s, at), n)
      <3>1. CASE Verified(t, "password") \in verified'
        <4>1. n.expire_ts <= clock + CgiTime + LoginExpire
          BY <1>1, <1>10, <2>1, <2>2
        <4> QED BY <1>13, <2>2, <3>1, <4>1 DEF SignedOn
      <3>2. CASE CookieHolds(cookie, clock) /\ u = cookie.user
        <4>1. cookie # Nothing /\ cookie.creds # PBC_CREDS_NONE /\ clock <= cookie.expire_ts
          BY <3>2 DEF CookieHolds, check_l_cookie_expire
        <4>2. r # Nothing /\ r.expire_ts = cookie.expire_ts
          BY <1>7, <1>8, <4>1
        <4>3. CASE at <= r.expire_ts
          <5>1. SignedOn(verified, overtaken, cookie)
            BY <4>1, CookieKnown DEF CookieBacked
          <5>2. n.expire_ts = cookie.expire_ts
            BY <2>2, <4>2, <4>3
          <5> QED BY <1>14, <2>2, <3>2, <5>1, <5>2 DEF SignedOn
        <4>4. CASE r.expire_ts < at
          <5>1. [user |-> u, at |-> at] \in Overtaken(s, at)
            BY <1>4, <1>9, <4>1, <4>2, <4>4, LoginUserAssumption DEF Overtaken
          <5>2. n.expire_ts = at + LoginExpire
            BY <1>10, <2>1, <2>2, <4>2, <4>4
          <5>3. n.expire_ts <= at + LoginExpire
            BY <1>1, <2>1, <5>2
          <5> QED BY <2>2, <5>1, <5>3 DEF SignedOn
        <4> QED BY <1>10, <2>1, <4>2, <4>3, <4>4
      <3> QED BY <1>12, <3>1, <3>2
    <2> QED BY <2>5, <2>6 DEF CookieBacked, n
  <1>16. RequiredLogin(v, Verified(t, kind), clock)
    BY <1>1, <1>2, <1>11 DEF RequiredLogin
  <1>17. ScriptBacked(verified', overtaken, s)
    BY <1>6, <1>9, <1>11, <1>15, <1>16 DEF ScriptBacked
  <1>18. ScriptOK(verified', overtaken, s, clock)
    BY <1>1, <1>9, <1>10, <1>17 DEF ScriptOK, Lasts
  <1> QED BY <1>18 DEF s, u, r

\* A free ride: as long and as much as the cookie it rests on.
LEMMA RideBacked ==
    ASSUME Inv, NEW t \in Tabs, Outcome(t, "ride")
    PROVE  ScriptOK(verified, overtaken, Script(tab[t].visit, VisitUser(t), cookie), clock)
  <1> DEFINE v == tab[t].visit
             u == VisitUser(t)
             s == Script(v, u, cookie)
  <1>1. clock \in Nat /\ tab[t].pc = "visit"
    BY Outcomes DEF Inv, TypeOK
  <1>2. /\ v \in Visit /\ v.req.creds \in {1, 3} /\ (IsBasic(v) <=> v.req.creds = 1)
        /\ Grace(v.req.session_reauth) \in Nat
        /\ (IF v.req.token30 THEN Token30 ELSE MinRideFree) \in Nat
    BY <1>1, VisitFields
  <1>3. IF IsBasic(v) THEN BasicRide(v, cookie, clock) ELSE SecuridRide(v, cookie, clock)
    BY Outcomes
  <1>4. CookieHolds(cookie, clock) /\ u = cookie.user
    BY <1>3 DEF BasicRide, SecuridRide, VisitUser, LoginUser
  <1>5. cookie # Nothing /\ cookie.creds # PBC_CREDS_NONE /\ clock <= cookie.expire_ts
    BY <1>4 DEF CookieHolds, check_l_cookie_expire
  <1>6. /\ cookie \in LoginCookie /\ cookie.creds \in {1, 3}
        /\ cookie.create_ts \in Int /\ cookie.expire_ts \in Int
        /\ cookie.expire_ts <= clock + LoginExpire
        /\ MadeOf(verified, cookie) /\ SignedOn(verified, overtaken, cookie)
    BY <1>5, CookieKnown, CredValues DEF CookieBacked
  <1>7. v.req.creds = 3 =>
            /\ cookie.creds = 3
            /\ clock < cookie.create_ts + (IF v.req.token30 THEN Token30 ELSE MinRideFree)
    BY <1>2, <1>3, CredValues DEF SecuridRide
  <1>8. IsBasic(v) /\ v.req.session_reauth # 0 =>
            clock <= cookie.create_ts + Grace(v.req.session_reauth)
    BY <1>2, <1>3, <1>6 DEF BasicRide
  <1>9. s.pc = "script" /\ s.visit = v /\ s.user = u /\ s.cookie = cookie /\ s.at = clock
    BY DEF Script
  <1> HIDE DEF u, s
  <1>10. ASSUME NEW at \in clock .. clock + CgiTime
         PROVE  CookieBacked(verified, overtaken \cup Overtaken(s, at), Issued(s, at))
    <2> DEFINE n == Issued(s, at)
    <2>1. at \in Nat /\ clock <= at /\ at <= clock + CgiTime
      BY <1>1
    <2>2. /\ n.user = u /\ n.creds \in {1, 3}
          /\ n.creds = 3 <=> v.req.creds = 3 \/ cookie.creds = 3
          /\ n.create_ts = cookie.create_ts
          /\ at <= cookie.expire_ts => n.expire_ts = cookie.expire_ts
          /\ cookie.expire_ts < at => n.expire_ts = at + LoginExpire
      <3>1. n = set_l_cookie(u, v.req.creds, cookie, at)
        BY <1>9 DEF Issued
      <3> HIDE DEF n
      <3> QED BY <1>2, <1>5, <1>6, <2>1, <3>1 DEF set_l_cookie, LaterExpire
    <2> HIDE DEF n
    <2>3. MadeOf(verified, n)
      BY <1>4, <1>6, <1>7, <2>2, CredValues DEF MadeOf
    <2>4. SignedOn(verified, overtaken \cup Overtaken(s, at), n)
      <3>1. CASE at <= cookie.expire_ts
        BY <1>4, <1>6, <2>2, <3>1 DEF SignedOn
      <3>2. CASE cookie.expire_ts < at
        <4>1. u \in Users
          BY <1>1, <1>4, <1>5, <1>6, CookieKnown, VisitType DEF Inv, LoginCookie, MadeOf, TypeOK, Verification
        <4>2. [user |-> u, at |-> at] \in Overtaken(s, at)
          BY <1>5, <1>9, <3>2, <4>1, LoginUserAssumption DEF Overtaken
        <4>3. n.expire_ts <= at + LoginExpire
          BY <2>1, <2>2, <3>2, DurationAssumption
        <4> QED BY <2>2, <4>2, <4>3 DEF SignedOn
      <3> QED BY <1>6, <2>1, <3>1, <3>2
    <2> QED BY <2>3, <2>4 DEF CookieBacked, n
  <1>11. ASSUME IsBasic(v) => v.req.session_reauth # 0
         PROVE  \E x \in verified : x.user = u /\ RequiredLogin(v, x, clock)
    <2>1. PICK x \in verified :
              /\ x.user = cookie.user
              /\ x.what = IF cookie.creds = 3 THEN "token" ELSE "password"
              /\ cookie.create_ts <= x.at + CgiTime
      BY <1>6, CredValues DEF MadeOf
    <2>2. x.at \in Int
      BY DEF Inv, TypeOK, Verification, Time
    <2>3. RequiredLogin(v, x, clock)
      BY <1>1, <1>2, <1>6, <1>7, <1>8, <1>11, <2>1, <2>2 DEF RequiredLogin
    <2> QED BY <1>4, <2>1, <2>3
  <1>12. ScriptBacked(verified, overtaken, s)
    BY <1>9, <1>10, <1>11 DEF ScriptBacked
  <1>13. ScriptOK(verified, overtaken, s, clock)
    BY <1>1, <1>6, <1>9, <1>12 DEF ScriptOK, Lasts
  <1> QED BY <1>13 DEF s, u

\* What a run writes rests on what it decided.
LEMMA IssueBacked ==
    ASSUME Inv, NEW t \in Tabs, tab[t].pc = "script", tab[t].user # NoUser
    PROVE  /\ CookieBacked(verified, overtaken \cup Overtaken(tab[t], clock), Issued(tab[t], clock))
           /\ Lasts(Issued(tab[t], clock), clock)
  <1> DEFINE s == tab[t]
             n == Issued(s, clock)
  <1>1. clock \in Nat /\ s \in TabState
    BY DEF Inv, TypeOK
  <1>2. s.at \in Int /\ s.cookie \in LoginCookie \cup {Nothing}
    BY <1>1, TabFields DEF Time
  <1>3. s.at <= clock /\ clock <= s.at + CgiTime /\ Lasts(s.cookie, clock) /\ ScriptBacked(verified, overtaken, s)
    BY DEF Inv, ScriptOK
  <1>4. clock \in s.at .. s.at + CgiTime
    BY <1>1, <1>2, <1>3
  <1>5. n.expire_ts = LaterExpire(s.cookie, clock)
    BY DEF Issued, set_l_cookie
  <1>6. n.expire_ts <= clock + LoginExpire
    <2>1. s.cookie # Nothing => s.cookie.expire_ts <= clock + LoginExpire
      BY <1>3 DEF Lasts
    <2> HIDE DEF n, s
    <2> QED BY <1>1, <1>5, <2>1 DEF LaterExpire
  <1> QED BY <1>3, <1>4, <1>6 DEF ScriptBacked, Lasts

LEMMA InvInit == Init => Inv
  <1> SUFFICES ASSUME Init PROVE Inv
    OBVIOUS
  <1>1. LoginCookies = {}
    BY DEF Init, LoginCookies, Idle
  <1>2. \A t \in Tabs : tab[t].pc # "script"
    BY DEF Init, Idle
  <1> QED BY <1>1, <1>2, TypeInit DEF Inv, ScriptOK

LEMMA InvNext == Inv /\ [Next]_vars => Inv'
  <1> SUFFICES ASSUME Inv, [Next]_vars PROVE Inv'
    OBVIOUS
  <1> USE DEF history
  <1>1. TypeOK'
    BY TypeNext DEF Inv
  <1>2. clock \in Nat
    BY DEF Inv, TypeOK
  <1>3. CASE UNCHANGED vars
    <2>1. LoginCookies' = LoginCookies
      BY <1>3 DEF vars, LoginCookies
    <2>2. UNCHANGED <<clock, tab, verified, overtaken>>
      BY <1>3 DEF vars
    <2> QED BY <1>1, <2>1, <2>2 DEF Inv
  <1>4. CASE Tick
    <2>1. clock' = clock + 1 /\ UNCHANGED <<cookie, tab, verified, overtaken>>
      BY <1>4 DEF Tick
    <2>2. LoginCookies' = LoginCookies
      BY <2>1 DEF LoginCookies
    <2>3. ASSUME NEW c \in LoginCookie \cup {Nothing}, Lasts(c, clock) PROVE Lasts(c, clock')
      <3>1. c # Nothing => c.expire_ts \in Int
        BY DEF LoginCookie, Time
      <3> QED BY <1>2, <2>1, <2>3, <3>1 DEF Lasts
    <2>4. LoginCookies \subseteq LoginCookie
      <3>1. \A t \in Tabs : tab[t] \in TabState
        BY DEF Inv, TypeOK
      <3> QED BY <3>1, TabFields DEF Inv, TypeOK, LoginCookies
    <2>5. ASSUME NEW t \in Tabs PROVE ScriptOK(verified, overtaken, tab[t], clock')
      <3> SUFFICES ASSUME tab[t].pc = "script" PROVE ScriptOK(verified, overtaken, tab[t], clock')
        BY DEF ScriptOK
      <3>1. tab[t].at \in Int /\ tab[t].cookie \in LoginCookie \cup {Nothing}
        BY TabFields DEF Inv, TypeOK, Time
      <3>2. clock < tab[t].at + CgiTime
        BY <1>4 DEF Tick
      <3>3. tab[t].at <= clock /\ Lasts(tab[t].cookie, clock) /\ ScriptBacked(verified, overtaken, tab[t])
        BY DEF Inv, ScriptOK
      <3>4. tab[t].at <= clock' /\ clock' <= tab[t].at + CgiTime
        BY <1>2, <2>1, <3>1, <3>2, <3>3
      <3> QED BY <2>3, <3>1, <3>3, <3>4 DEF ScriptOK
    <2>6. \A c \in LoginCookies : Lasts(c, clock')
      BY <2>3, <2>4 DEF Inv
    <2> QED BY <1>1, <2>1, <2>2, <2>5, <2>6 DEF Inv
  <1>5. ASSUME NEW t \in Tabs, \/ \E r \in Requests : Visits(t, r)
                               \/ \E u \in Users, pw, tk \in Users \cup {NoUser} : Submit(t, u, pw, tk)
                               \/ pinit(t)
                               \/ Receive(t)
                               \/ Lose(t)
        PROVE  Inv'
    <2>1. PICK s : Becomes(t, s) /\ s.pc \in {"idle", "visit", "form"}
      <3>1. /\ Idle.pc = "idle" /\ \A v : Visiting(v).pc = "visit"
            /\ \A r, p, ts : Form(r, p, ts).pc = "form"
        BY DEF Idle, Visiting, Form
      <3> QED BY <1>5, <3>1 DEF Visits, Submit, pinit, Receive, Lose
    <2>2. cookie' = cookie \/ (tab[t].pc = "wait" /\ cookie' = tab[t].cookie)
      BY <1>5 DEF Visits, Submit, pinit, Receive, Lose
    <2>3. \/ UNCHANGED <<clock, cookie, history>>
          \/ UNCHANGED <<clock, verified, overtaken>>
      BY <1>5 DEF Visits, Submit, pinit, Receive, Lose
    <2> QED BY <1>1, <2>1, <2>2, <2>3, StepKeeps DEF ScriptOK
  <1>6. ASSUME NEW t \in Tabs, LoginOK(t) PROVE Inv'
    <2> DEFINE s == Script(tab[t].visit, VisitUser(t), Renewed(tab[t].visit, cookie, clock))
    <2>1. /\ Outcome(t, "login") /\ Verify(t) /\ Becomes(t, s)
          /\ UNCHANGED <<clock, cookie, overtaken>>
      BY <1>6 DEF LoginOK
    <2>2. ScriptOK(verified', overtaken, s, clock)
      BY <2>1, LoginBacked
    <2>3. verified \subseteq verified'
      BY <2>1, Outcomes, VerifyType DEF Inv
    <2>4. s.pc = "script"
      BY DEF Script
    <2> HIDE DEF s
    <2> QED BY <1>1, <2>1, <2>2, <2>3, <2>4, StepKeeps
  <1>7. ASSUME NEW t \in Tabs, RideOK(t) PROVE Inv'
    <2> DEFINE s == Script(tab[t].visit, VisitUser(t), cookie)
    <2>1. Outcome(t, "ride") /\ Becomes(t, s) /\ UNCHANGED <<clock, cookie, verified, overtaken>>
      BY <1>7 DEF RideOK
    <2>2. ScriptOK(verified, overtaken, s, clock)
      BY <2>1, RideBacked
    <2>3. s.pc = "script"
      BY DEF Script
    <2> HIDE DEF s
    <2> QED BY <1>1, <2>1, <2>2, <2>3, StepKeeps
  <1>8. ASSUME NEW t \in Tabs, QuietOK(t) PROVE Inv'
    <2> DEFINE s == Script(tab[t].visit, NoUser, cookie)
    <2>1. Becomes(t, s) /\ UNCHANGED <<clock, cookie, verified, overtaken>>
      BY <1>8 DEF QuietOK
    <2>2. s.pc = "script" /\ s.user = NoUser /\ s.cookie = cookie /\ s.at = clock
      BY DEF Script
    <2> HIDE DEF s
    <2>3. Lasts(cookie, clock)
      BY CookieKnown DEF Lasts
    <2>4. ScriptOK(verified, overtaken, s, clock)
      BY <1>2, <2>2, <2>3 DEF ScriptOK, ScriptBacked
    <2> QED BY <1>1, <2>1, <2>2, <2>4, StepKeeps
  <1>9. ASSUME NEW t \in Tabs, print_login_page(t) PROVE Inv'
    <2>1. PICK s : Becomes(t, s) /\ s.pc = "form"
      BY <1>9 DEF print_login_page, Form
    <2>2. tab[t].pc = "visit" /\ Verify(t) /\ UNCHANGED <<clock, cookie, overtaken>>
      BY <1>9 DEF print_login_page, Outcome
    <2>3. verified \subseteq verified'
      BY <2>2, VerifyType DEF Inv
    <2> QED BY <1>1, <2>1, <2>2, <2>3, StepKeeps DEF ScriptOK
  <1>10. ASSUME NEW t \in Tabs, IssueCookies(t) PROVE Inv'
    <2> DEFINE n == Issued(tab[t], clock)
    <2>1. /\ tab[t].pc = "script" /\ UNCHANGED <<clock, cookie, verified>>
          /\ overtaken' = overtaken \cup Overtaken(tab[t], clock)
      BY <1>10 DEF IssueCookies
    <2>2. CASE tab[t].user = NoUser
      <3>1. Becomes(t, Idle) /\ Idle.pc = "idle"
        BY <1>10, <2>2 DEF IssueCookies, Idle
      <3> QED BY <1>1, <2>1, <3>1, StepKeeps DEF ScriptOK
    <2>3. CASE tab[t].user # NoUser
      <3> DEFINE s == Waiting(n, FALSE)
      <3>1. Becomes(t, s)
        BY <1>10, <2>3 DEF IssueCookies, Issued
      <3>2. s.pc = "wait" /\ s.cookie = n
        BY DEF Waiting
      <3>3. CookieBacked(verified, overtaken', n) /\ Lasts(n, clock)
        BY <2>1, <2>3, IssueBacked
      <3> HIDE DEF s, n
      <3> QED BY <1>1, <2>1, <3>1, <3>2, <3>3, StepKeeps DEF ScriptOK
    <2> QED BY <2>2, <2>3
  <1>11. ASSUME NEW t \in Tabs, NEW clear \in BOOLEAN, logout(t, clear) PROVE Inv'
    <2> DEFINE u == IF cookie = Nothing THEN NoUser ELSE cookie.user
               n == IF clear THEN Nothing ELSE expire_login_cookie(u, clock)
               s == Waiting(n, TRUE)
    <2>1. Becomes(t, s) /\ UNCHANGED <<clock, cookie, verified, overtaken>>
      BY <1>11 DEF logout
    <2>2. n # Nothing => n.creds = PBC_CREDS_NONE /\ n.expire_ts = clock
      BY DEF expire_login_cookie
    <2>3. s.pc = "wait" /\ s.cookie = n
      BY DEF Waiting
    <2> HIDE DEF s, n
    <2>4. n # Nothing => CookieBacked(verified, overtaken, n) /\ Lasts(n, clock)
      BY <1>2, <2>2 DEF CookieBacked, Lasts
    <2> QED BY <1>1, <2>1, <2>3, <2>4, StepKeeps DEF ScriptOK
  <1> QED BY <1>3, <1>4, <1>5, <1>6, <1>7, <1>8, <1>9, <1>10, <1>11 DEF Next

(***************************************************************************)
(* What follows.                                                           *)
(***************************************************************************)
\* Every login cookie that still speaks for its user was made of his own
\* verification, of a token code if it claims one, which happened at the time
\* the cookie says, or within a run of the script before, whoever else logs in
\* (set_l_cookie and both flavors).
THEOREM CookiesAreVerified == Spec => []LoginsAreVerified
  <1>1. Inv => LoginsAreVerified
    BY DEF Inv, LoginsAreVerified, CookieBacked, MadeOf
  <1> QED BY <1>1, InvInit, InvNext, PTL DEF Spec

\* A demand for a recent login, or for a token, is met within its grace and
\* the time a run of the script takes (process_basic, process_uwsecurid).
THEOREM DemandsAreMet == Spec => []ReauthIsRecent
  <1>1. Inv => ReauthIsRecent
    BY DEF Inv, ReauthIsRecent, ScriptOK, ScriptBacked
  <1> QED BY <1>1, InvInit, InvNext, PTL DEF Spec

\* A sign-on ends LoginExpire after a password and the run of the script that
\* saw it, through any sequence of free rides, logins with a token and races
\* between windows; unless it is used while it runs out, by a run that reads
\* the clock before in check_l_cookie and after in set_l_cookie (LaterExpire):
\* then LoginExpire after that use.
THEOREM SignOnEnds == Spec => []SignOnExpires
  <1>1. Inv => SignOnExpires
    BY DEF Inv, SignOnExpires, CookieBacked, SignedOn
  <1> QED BY <1>1, InvInit, InvNext, PTL DEF Spec

(***************************************************************************)
(* Logging out.  What a logout's answer leaves in the browser is no login  *)
(* cookie that a flavor would take for one, and so it stays until another  *)
(* answer arrives.                                                         *)
(***************************************************************************)
Dead(c) == c = Nothing \/ c.creds = PBC_CREDS_NONE

OutInv ==
    /\ TypeOK
    /\ out => Dead(cookie)
    /\ \A t \in Tabs : tab[t].pc = "wait" /\ tab[t].logout => Dead(tab[t].cookie)

LEMMA OutInit == Init => OutInv
  BY TypeInit DEF Init, OutInv, Idle, Dead

LEMMA OutNext == OutInv /\ [Next]_vars => OutInv'
  <1> SUFFICES ASSUME OutInv, [Next]_vars PROVE OutInv'
    OBVIOUS
  <1> USE DEF history
  <1>1. TypeOK'
    BY TypeNext DEF OutInv
  <1>2. CASE Tick \/ UNCHANGED vars
    <2>1. UNCHANGED <<cookie, tab, out>>
      BY <1>2 DEF Tick, vars
    <2> QED BY <1>1, <2>1 DEF OutInv, Dead
  <1>3. ASSUME NEW t \in Tabs, Step(t) PROVE OutInv'
    <2>1. PICK s : Becomes(t, s) /\ (s.pc = "wait" /\ s.logout => Dead(s.cookie))
      <3>1. /\ Idle.pc = "idle" /\ \A v : Visiting(v).pc = "visit"
            /\ \A r, p, ts : Form(r, p, ts).pc = "form"
            /\ \A v, u, c : Script(v, u, c).pc = "script"
            /\ \A c, b : Waiting(c, b).cookie = c /\ Waiting(c, b).logout = b
        BY DEF Idle, Visiting, Form, Script, Waiting
      <3>2. \A u, at : Dead(expire_login_cookie(u, at)) /\ Dead(Nothing)
        BY DEF Dead, expire_login_cookie
      <3>3. CASE IssueCookies(t)
        <4>1. Becomes(t, Idle) \/ \E c : Becomes(t, Waiting(c, FALSE))
          BY <3>3 DEF IssueCookies
        <4>2. \A c : ~Waiting(c, FALSE).logout
          BY DEF Waiting
        <4>3. CASE Becomes(t, Idle)
          BY <3>1, <4>3
        <4>4. CASE \E c : Becomes(t, Waiting(c, FALSE))
          <5>1. PICK c : Becomes(t, Waiting(c, FALSE))
            BY <4>4
          <5> DEFINE w == Waiting(c, FALSE)
          <5>2. Becomes(t, w) /\ ~w.logout
            BY <4>2, <5>1
          <5> HIDE DEF w
          <5> QED BY <5>2
        <4> QED BY <4>1, <4>3, <4>4
      <3>4. CASE \E clear \in BOOLEAN : logout(t, clear)
        <4>1. \E c : Becomes(t, Waiting(c, TRUE)) /\ Dead(c)
          BY <3>2, <3>4 DEF logout
        <4>2. PICK c : Becomes(t, Waiting(c, TRUE)) /\ Dead(c)
          BY <4>1
        <4> DEFINE w == Waiting(c, TRUE)
        <4>3. Becomes(t, w) /\ Dead(w.cookie)
          BY <4>2 DEF Dead, Waiting
        <4> HIDE DEF w
        <4> QED BY <4>3
      <3>5. CASE ~IssueCookies(t) /\ ~(\E clear \in BOOLEAN : logout(t, clear))
        BY <1>3, <3>1, <3>5
        DEF Step, Visits, Submit, LoginOK, RideOK, QuietOK, print_login_page, pinit,
            Receive, Lose
      <3> QED BY <3>3, <3>4, <3>5
    <2>2. \A x \in Tabs : tab'[x].pc = "wait" /\ tab'[x].logout => Dead(tab'[x].cookie)
      BY <2>1 DEF Becomes, OutInv, TypeOK
    <2>3. out' => Dead(cookie')
      <3>1. CASE Receive(t)
        BY <3>1 DEF Receive, OutInv
      <3>2. CASE ~Receive(t)
        <4>1. UNCHANGED <<cookie, out>>
          BY <1>3, <3>2
          DEF Step, Visits, Submit, LoginOK, RideOK, QuietOK, print_login_page, pinit,
              IssueCookies, logout, Lose
        <4> QED BY <4>1 DEF OutInv
      <3> QED BY <3>1, <3>2
    <2>4. Dead(cookie)' = Dead(cookie') /\ \A x \in Tabs : Dead(tab[x].cookie)' = Dead(tab'[x].cookie)
      BY DEF Dead
    <2> QED BY <1>1, <2>2, <2>3, <2>4 DEF OutInv
  <1> QED BY <1>2, <1>3 DEF Next, Step

\* A logged-out browser's visit gets a user by being verified now, or none.
LEMMA OutStep ==
    ASSUME OutInv, out, NEW t \in Tabs, Step(t), tab[t].pc = "visit", tab'[t].pc = "script"
    PROVE  \/ tab'[t].user = NoUser
           \/ [user |-> tab'[t].user, at |-> clock] \in
                 {[user |-> x.user, at |-> x.at] : x \in verified'}
  <1>1. ~CookieHolds(cookie, clock)
    BY DEF OutInv, Dead, CookieHolds, check_l_cookie_expire
  <1>2. LoginOK(t) \/ RideOK(t) \/ QuietOK(t)
    <2>1. LoginOK(t) \/ RideOK(t) \/ QuietOK(t) \/ print_login_page(t)
      BY DEF Step, Visits, Submit, pinit, IssueCookies, logout, Receive, Lose
    <2>2. ~print_login_page(t)
      <3>1. ASSUME print_login_page(t) PROVE tab'[t] = Form(tab[t].visit.req, tab[t].visit.pinit, clock)
        BY <3>1 DEF print_login_page, Becomes, OutInv, TypeOK
      <3> QED BY <3>1 DEF Form
    <2> QED BY <2>1, <2>2
  <1>3. ~RideOK(t)
    BY <1>1 DEF RideOK, Outcome, vector_request, BasicRide, SecuridRide
  <1>4. CASE QuietOK(t)
    BY <1>4 DEF QuietOK, Becomes, Script, OutInv, TypeOK
  <1>5. CASE LoginOK(t)
    <2>1. tab'[t].user = VisitUser(t)
      BY <1>5 DEF LoginOK, Becomes, Script, OutInv, TypeOK
    <2>2. PasswordChecked(tab[t].visit, cookie, clock)
      BY <1>1, <1>5
      DEF LoginOK, Outcome, vector_request, BasicLogin, SecuridLogin, TokenAsked,
          ride_free_zone, PasswordChecked
    <2>3. Verified(t, "password") \in verified'
      BY <1>5, <2>2, VerifyType DEF LoginOK, OutInv
    <2>4. Verified(t, "password").user = VisitUser(t) /\ Verified(t, "password").at = clock
      BY DEF Verified
    <2> QED BY <2>1, <2>3, <2>4
  <1> QED BY <1>2, <1>3, <1>4, <1>5

\* After a logout, and until another answer arrives, nobody rides free, in
\* whatever window, with whatever answers still under way (logout,
\* expire_login_cookie, check_l_cookie).
THEOREM LogoutLasts == Spec => LoggedOutStaysOut
  <1>1. OutInv /\ [Next]_vars =>
          [\A t \in Tabs :
             /\ out /\ tab[t].pc = "visit" /\ tab'[t].pc = "script"
             => \/ tab'[t].user = NoUser
                \/ [user |-> tab'[t].user, at |-> clock] \in
                      {[user |-> x.user, at |-> x.at] : x \in verified'}]_vars
    <2> SUFFICES ASSUME OutInv, [Next]_vars, ~UNCHANGED vars, NEW t \in Tabs,
                        out, tab[t].pc = "visit", tab'[t].pc = "script"
                 PROVE  \/ tab'[t].user = NoUser
                        \/ [user |-> tab'[t].user, at |-> clock] \in
                              {[user |-> x.user, at |-> x.at] : x \in verified'}
      OBVIOUS
    <2>1. ~Tick
      BY DEF Tick
    <2>2. PICK x \in Tabs : Step(x)
      BY <2>1 DEF Next, Step
    <2>3. x = t
      <3>1. PICK s : Becomes(x, s)
        BY <2>2, StepType DEF OutInv
      <3> QED BY <3>1 DEF Becomes, OutInv, TypeOK
    <2> QED BY <2>2, <2>3, OutStep
  <1> QED BY <1>1, OutInit, OutNext, PTL DEF Spec, LoggedOutStaysOut
=============================================================================
