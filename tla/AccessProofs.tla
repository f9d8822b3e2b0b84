---------------------------- MODULE AccessProofs ----------------------------
(***************************************************************************)
(* What single sign-on promises to those who run it: pages are served as   *)
(* Access has it, a logout holds, a demanded login is fresh.  For all      *)
(* locations and directives, users, windows, times and lifetimes.          *)
(***************************************************************************)
EXTENDS SingleSignOnProofs

(***************************************************************************)
(* The pages under way, as Access sees them.                               *)
(***************************************************************************)
View(p) == [loc |-> p.loc, user |-> p.user, at |-> p.at]
Shown   == {View(p) : p \in App!PagesServed}

\* What the state s of a window adds to them.
PageOf(s) ==
    {View(p) : p \in {q \in {s.next} : /\ s.pc = "wait" /\ q.pc = "page"
                                       /\ ~App!EndsSession(Config[q.loc])}}

LEMMA ShownByWindow ==
    /\ \A v : v \in Shown <=> \E t \in Tabs : v \in PageOf(tab[t])
    /\ \A v : v \in Shown' <=> \E t \in Tabs : v \in PageOf(tab'[t])
  <1>1. \A v : v \in Shown <=> \E t \in Tabs : v \in PageOf(tab[t])
    BY DEF Shown, App!PagesServed, PageOf
  <1>2. \A v : v \in Shown' <=> \E t \in Tabs : v \in PageOf(tab'[t])
    BY DEF Shown, App!PagesServed, PageOf
  <1> QED BY <1>1, <1>2

LEMMA PageOfOne == \A s : PageOf(s) = {} \/ \E v : PageOf(s) = {v}
  BY DEF PageOf

LEMMA NoPageOf ==
    ASSUME NEW s, s.pc # "wait" \/ s.next.pc # "page"
    PROVE  PageOf(s) = {}
  BY DEF PageOf

\* A step of window t that was not being served shows what it is answered;
LEMMA ShowsMore ==
    ASSUME tab = [t \in Tabs |-> tab[t]], NEW t \in Tabs, NEW s,
           tab' = [tab EXCEPT ![t] = s], PageOf(tab[t]) = {}
    PROVE  Shown' = Shown \cup PageOf(s)
  <1>1. \A v : v \in Shown <=> \E x \in Tabs : v \in PageOf(tab[x])
    BY ShownByWindow
  <1>2. \A v : v \in Shown' <=> \E x \in Tabs : v \in PageOf(tab'[x])
    BY ShownByWindow
  <1>3. \A x \in Tabs : tab'[x] = IF x = t THEN s ELSE tab[x]
    OBVIOUS
  <1>4. \A v : v \in Shown' <=> v \in Shown \cup PageOf(s)
    <2> SUFFICES ASSUME NEW v PROVE v \in Shown' <=> v \in Shown \/ v \in PageOf(s)
      OBVIOUS
    <2>1. v \in Shown' <=> \E x \in Tabs : v \in PageOf(tab'[x])
      BY <1>2
    <2>2. v \in Shown <=> \E x \in Tabs : v \in PageOf(tab[x])
      BY <1>1
    <2> HIDE DEF Shown
    <2> QED BY <1>3, <2>1, <2>2
  <1> QED BY <1>4

\* ... and one that is not being served any more takes a page away at most.
LEMMA ShowsLess ==
    ASSUME tab = [t \in Tabs |-> tab[t]], NEW t \in Tabs, NEW s,
           tab' = [tab EXCEPT ![t] = s], PageOf(s) = {}
    PROVE  Shown' = Shown \/ \E p \in Shown : Shown' = Shown \ {p}
  <1>1. \A v : v \in Shown <=> \E x \in Tabs : v \in PageOf(tab[x])
    BY ShownByWindow
  <1>2. \A v : v \in Shown' <=> \E x \in Tabs : v \in PageOf(tab'[x])
    BY ShownByWindow
  <1>3. \A x \in Tabs : tab'[x] = IF x = t THEN s ELSE tab[x]
    OBVIOUS
  <1>4. \A v : v \in Shown' <=> \E x \in Tabs \ {t} : v \in PageOf(tab[x])
    BY <1>2, <1>3
  <1>5. CASE PageOf(tab[t]) = {}
    BY <1>1, <1>4, <1>5
  <1>6. ASSUME NEW p, PageOf(tab[t]) = {p}
        PROVE  Shown' = Shown \/ \E q \in Shown : Shown' = Shown \ {q}
    <2>1. CASE \E x \in Tabs \ {t} : p \in PageOf(tab[x])
      BY <1>1, <1>4, <1>6, <2>1
    <2>2. CASE ~ \E x \in Tabs \ {t} : p \in PageOf(tab[x])
      BY <1>1, <1>4, <1>6, <2>2
    <2> QED BY <2>1, <2>2
  <1> QED BY <1>5, <1>6, PageOfOne

(***************************************************************************)
(* What a server shows, and to whom.                                       *)
(***************************************************************************)
\* The windows an answer goes to.
LEMMA Answers ==
    /\ \A t, h, n : App!Answer(t, h, n) => tab' = [tab EXCEPT ![t] = App!Waiting(h, n)]
    /\ \A t, n : App!AnswerAtOnce(t, n) => tab' = [tab EXCEPT ![t] = n]
  BY DEF App!Answer, App!AnswerAtOnce

\* A page is shown to nobody or to a user the location admits.
LEMMA ShownTo ==
    ASSUME Inv, NEW t \in Tabs, App!Request(t)
    PROVE  /\ PageOf(tab[t]) = {}
           /\ \E s : /\ tab' = [tab EXCEPT ![t] = s]
                     /\ \/ PageOf(s) = {}
                        \/ \E l \in Locations : \E h : \E u \in Config[l].accept \cup {NoUser} :
                              /\ s = App!Waiting(h, App!Page(l, u, clock))
                              /\ ~App!EndsSession(Config[l])
  <1> PICK l \in Locations :
          \/ App!EndSession(t, l)
          \/ App!do_end_session_redirect(t, l)
          \/ App!OpenSession(t, l)
          \/ App!UseSession(t, l)
          \/ App!AskLogin(t, l)
          \/ App!StopTheShow(t, l)
          \/ App!Unauthorized(t, l)
    BY DEF App!Request
  <1> DEFINE c == Config[l]
             Shows(s) == \/ PageOf(s) = {}
                         \/ \E x \in Locations : \E h : \E u \in Config[x].accept \cup {NoUser} :
                              /\ s = App!Waiting(h, App!Page(x, u, clock))
                              /\ ~App!EndsSession(Config[x])
  <1>1. PageOf(tab[t]) = {}
    <2>1. tab[t] = App!GoTo(l)
      BY DEF App!EndSession, App!do_end_session_redirect, App!OpenSession, App!UseSession,
             App!AskLogin, App!StopTheShow, App!Unauthorized, App!Verdict, App!Asked
    <2> QED BY <2>1, NoPageOf DEF App!GoTo
  <1>2. \A h, n : n.pc # "page" => PageOf(App!Waiting(h, n)) = {}
    BY NoPageOf DEF App!Waiting
  <1>3. ASSUME App!pubcookie_user(c, jar, clock) = "grant"
        PROVE  jar[App!GSlot(c.srv)].user \in c.accept \cup {NoUser}
    <2>1. App!SessionVerdict(c, App!SessionData(c, jar), clock) # "grant"
      BY DEF App!SessionVerdict
    <2>2. App!GrantVerdict(c, jar[App!GSlot(c.srv)], jar[App!PreSlot(c.srv)], clock) = "grant"
      BY <1>3, <2>1 DEF App!pubcookie_user
    <2> QED BY <2>2 DEF App!GrantVerdict
  <1>4. ASSUME App!pubcookie_user(c, jar, clock) = "session"
        PROVE  App!SessionData(c, jar).user \in c.accept
    <2>1. App!GrantVerdict(c, jar[App!GSlot(c.srv)], jar[App!PreSlot(c.srv)], clock) # "session"
      BY DEF App!GrantVerdict
    <2>2. App!SessionVerdict(c, App!SessionData(c, jar), clock) = "session"
      BY <1>4, <2>1 DEF App!pubcookie_user
    <2> QED BY <2>2 DEF App!SessionVerdict
  <1>5. CASE App!EndSession(t, l)
    <2> DEFINE s == App!Waiting(App!ClearCookies(App!NoHeaders, {App!SessionSlot(l)}),
                                App!Page(l, NoUser, clock))
    <2>1. tab' = [tab EXCEPT ![t] = s] /\ App!EndsSession(c)
      BY <1>5, Answers DEF App!EndSession
    <2>2. PageOf(s) = {}
      BY <2>1 DEF PageOf, App!Waiting, App!Page
    <2> QED BY <1>1, <2>1, <2>2
  <1>6. CASE App!do_end_session_redirect(t, l)
    <2>1. \E h : tab' = [tab EXCEPT ![t] = App!Waiting(h, App!ToLogout(l))]
      BY <1>6, Answers DEF App!do_end_session_redirect
    <2> QED BY <1>1, <1>2, <2>1 DEF App!ToLogout
  <1>7. CASE App!OpenSession(t, l)
    <2>1. \E h : tab' = [tab EXCEPT ![t] =
                    App!Waiting(h, App!Page(l, jar[App!GSlot(c.srv)].user, clock))]
      BY <1>7, Answers DEF App!OpenSession
    <2>2. jar[App!GSlot(c.srv)].user \in c.accept \cup {NoUser} /\ ~App!EndsSession(c)
      BY <1>3, <1>7 DEF App!OpenSession, App!Verdict
    <2> QED BY <1>1, <2>1, <2>2
  <1>8. CASE App!UseSession(t, l)
    <2>1. \E h : tab' = [tab EXCEPT ![t] =
                    App!Waiting(h, App!Page(l, App!SessionData(c, jar).user, clock))]
      BY <1>8, Answers DEF App!UseSession
    <2>2. App!SessionData(c, jar).user \in c.accept /\ ~App!EndsSession(c)
      BY <1>4, <1>8 DEF App!UseSession, App!Verdict
    <2> QED BY <1>1, <2>1, <2>2
  <1>9. CASE App!AskLogin(t, l)
    <2>1. \E h, q : tab' = [tab EXCEPT ![t] = App!Waiting(h, App!ToLogin(q))]
      BY <1>9, Answers DEF App!AskLogin
    <2> QED BY <1>1, <1>2, <2>1 DEF App!ToLogin
  <1>10. CASE App!StopTheShow(t, l)
    <2>1. \E h : tab' = [tab EXCEPT ![t] = App!Waiting(h, App!NoPage)]
      BY <1>10, Answers DEF App!StopTheShow
    <2> QED BY <1>1, <1>2, <2>1 DEF App!NoPage
  <1>11. CASE App!Unauthorized(t, l)
    <2>1. tab' = [tab EXCEPT ![t] = App!Idle]
      BY <1>11, Answers DEF App!Unauthorized
    <2> QED BY <1>1, <2>1, NoPageOf DEF App!Idle
  <1> QED BY <1>5, <1>6, <1>7, <1>8, <1>9, <1>10, <1>11

\* ... and to a user only if Access entitles him.
LEMMA ShownEntitled ==
    ASSUME Inv', PagesAreVerified', App!PromptLocationsNameUser', NEW t \in Tabs,
           clock' = clock, verified' = verified,
           NEW l \in Locations, NEW u \in Config[l].accept \cup {NoUser}, NEW h,
           tab'[t] = App!Waiting(h, App!Page(l, u, clock)), ~App!EndsSession(Config[l])
    PROVE  u \in Users \cup {NoUser} /\ Acc!Entitled(l, u)
  <1> DEFINE p == App!Page(l, u, clock)
  <1>1. p \in App!PagesServed' /\ p.loc = l /\ p.user = u /\ p.at = clock
    BY DEF App!PagesServed, App!Waiting, App!Page
  <1>2. u \in Users \cup {NoUser}
    <2>1. App!TabOK(tab'[t])
      BY DEF Inv, App!TypeOK
    <2>2. p \in App!TabState
      BY <2>1, App!TabFields, Params DEF App!Waiting
    <2> QED BY <2>2 DEF App!TabState, App!Page
  <1>3. CASE u = NoUser
    <2>1. Config[l].noprompt
      BY <1>1, <1>3, UserAssumption DEF App!PromptLocationsNameUser
    <2> QED BY <1>3, <2>1 DEF Acc!Entitled
  <1>4. CASE u # NoUser
    <2>1. u \in Config[l].accept \cap Users
      BY <1>2, <1>4
    <2>2. \A x, age : RestsOn(p, x, age)' =>
              /\ x.user = u /\ x.at <= clock
              /\ clock < x.at + age + GrantingExpire + Config[l].hard_exp
      BY <1>1 DEF RestsOn
    <2>3. \A x \in verified : x.at \in Int
      BY DEF Inv, LoginType
    <2>4. /\ LoginExpire \in Int /\ MinRideFree \in Int
          /\ GrantingExpire \in Int /\ Config[l].hard_exp \in Int
      BY ConfigAssumption, ExpireAssumption, DurationAssumption DEF DirConfig
    <2>5. \E x \in verified : /\ x.what = "password" /\ x.user = u /\ x.at <= clock
                              /\ clock < x.at + (LoginExpire + GrantingExpire + Config[l].hard_exp)
      <3>1. PICK x \in verified : x.what = "password" /\ RestsOn(p, x, LoginExpire)'
        BY <1>1, <1>4 DEF PagesAreVerified
      <3> QED BY <2>2, <2>3, <2>4, <3>1
    <2>6. ASSUME Config[l].creds = PBC_UWSECURID_CRED_ID
          PROVE  \E x \in verified : /\ x.what = "token" /\ x.user = u /\ x.at <= clock
                                     /\ clock < x.at + (MinRideFree + GrantingExpire + Config[l].hard_exp)
      <3>1. PICK x \in verified : x.what = "token" /\ RestsOn(p, x, MinRideFree)'
        BY <1>1, <1>4, <2>6 DEF PagesAreVerified
      <3> QED BY <2>2, <2>3, <2>4, <3>1
    <2> QED BY <2>1, <2>5, <2>6 DEF Acc!Entitled, Acc!Lately
  <1> QED BY <1>2, <1>3, <1>4

(***************************************************************************)
(* Refinement, step by step.                                               *)
(***************************************************************************)
LEMMA AccInit == Init => Acc!Init
  BY DEF Init, App!Init, Acc!Init, App!PagesServed, App!Idle

\* A run of the login script types, if anything, things of one user, and
\* shows no page.
LEMMA RunTypes ==
    ASSUME Inv, NEW t \in Tabs, NEW v, Runs(t, v)
    PROVE  Acc!Next \/ UNCHANGED Acc!vars
  <1> DEFINE q == AskedBy(t)
  <1>1. PageOf(tab[t]) = {}
    BY NoPageOf DEF Runs
  <1>2. \E s : tab' = [tab EXCEPT ![t] = s] /\ PageOf(s) = {}
    <2>1. ASSUME NEW u, NEW c, Redirect(t, q, u, c)
          PROVE  \E s : tab' = [tab EXCEPT ![t] = s] /\ PageOf(s) = {}
      <3>1. \A g, l : PageOf(App!ToReply(g, l)) = {}
        BY NoPageOf DEF App!ToReply
      <3>2. \A h, l : PageOf(App!Waiting(h, App!GoTo(l))) = {}
        BY NoPageOf DEF App!Waiting, App!GoTo
      <3> QED BY <2>1, <3>1, <3>2 DEF Redirect
    <2>2. CASE print_login_page(t, q, v)
      <3>1. PageOf(App!Form(q)) = {}
        BY NoPageOf DEF App!Form
      <3> QED BY <2>2, <3>1 DEF print_login_page, ShowForm
    <2> QED BY <2>1, <2>2 DEF Runs, Script, LoginOK, RideOK, QuietOK
  <1>3. Shown' = Shown
    BY <1>1, <1>2, ShowsMore DEF Inv, LoginType
  <1>4. clock' = clock
    BY RunAdds
  <1>5. CASE verified' = verified
    BY <1>3, <1>4, <1>5 DEF Acc!vars, Shown, View
  <1>6. CASE verified' # verified
    <2>1. Verify(v)
      BY <1>6 DEF Runs, Script, print_login_page, LoginOK, RideOK, QuietOK
    <2> DEFINE things == {w \in {"password", "token"} :
                             \/ w = "password" /\ Cgi!PasswordChecked(v, cookie, clock)
                             \/ w = "token" /\ Cgi!TokenChecked(v, cookie, clock)}
               u == VisitUser(v)
    <2>2. verified' = verified \cup {[user |-> u, what |-> w, at |-> clock] : w \in things}
      BY <2>1 DEF Verify, Verification
    <2>3. things # {}
      BY <1>6, <2>2
    <2>4. u \in Users
      BY <2>3, TypedRight DEF Cgi!PasswordChecked, Cgi!TokenChecked, Cgi!SecuridLogin
    <2>5. things \in SUBSET {"password", "token"}
      OBVIOUS
    <2> HIDE DEF things, u
    <2>6. Acc!Type(u, things)
      BY <1>3, <1>4, <2>2 DEF Acc!Type, Shown, View
    <2> QED BY <2>4, <2>5, <2>6 DEF Acc!Next
  <1> QED BY <1>5, <1>6

LEMMA AccStep ==
    Inv /\ Inv' /\ PagesAreVerified' /\ App!PromptLocationsNameUser' /\ [Next]_vars
    => [Acc!Next]_(Acc!vars)
  <1> SUFFICES ASSUME Inv, Inv', PagesAreVerified', App!PromptLocationsNameUser', [Next]_vars
               PROVE  Acc!Next \/ UNCHANGED Acc!vars
    OBVIOUS
  <1>0. tab = [t \in Tabs |-> tab[t]]
    BY DEF Inv, LoginType
  <1>1. ASSUME NEW t \in Tabs, NEW s, tab' = [tab EXCEPT ![t] = s], PageOf(s) = {},
               UNCHANGED <<clock, verified>>
        PROVE  Acc!Next \/ UNCHANGED Acc!vars
    <2>1. CASE Shown' = Shown
      BY <1>1, <2>1 DEF Acc!vars, Shown, View
    <2>2. ASSUME NEW p \in Shown, Shown' = Shown \ {p} PROVE Acc!Next
      <3>1. Acc!Done(p)
        BY <1>1, <2>2 DEF Acc!Done, Shown, View
      <3> QED BY <2>2, <3>1 DEF Acc!Next, Shown, View
    <2> QED BY <1>0, <1>1, <2>1, <2>2, ShowsLess
  <1>2. CASE Tick \/ UNCHANGED vars
    <2>1. tab' = tab /\ verified' = verified /\ clock' \in {clock, clock + 1}
      BY <1>2 DEF Tick, App!Tick, App!history, vars, appvars, loginvars
    <2>2. Shown' = Shown
      BY <2>1 DEF Shown, App!PagesServed
    <2> QED BY <2>1, <2>2 DEF Acc!Next, Acc!Tick, Acc!vars, Shown, View
  <1>3. ASSUME NEW t \in Tabs, Visit(t) \/ Reply(t) PROVE Acc!Next \/ UNCHANGED Acc!vars
    BY <1>3, AllRuns, RunTypes
  <1>4. ASSUME NEW t \in Tabs, Request(t) PROVE Acc!Next \/ UNCHANGED Acc!vars
    <2>1. App!Request(t) /\ verified' = verified
      BY <1>4 DEF Request, loginvars
    <2>2. clock' = clock
      BY <2>1
      DEF App!Request, App!EndSession, App!do_end_session_redirect, App!OpenSession,
          App!UseSession, App!AskLogin, App!StopTheShow, App!Unauthorized, App!Ends, App!history
    <2>3. PageOf(tab[t]) = {}
      BY <2>1, ShownTo
    <2>4. PICK s : /\ tab' = [tab EXCEPT ![t] = s]
                   /\ \/ PageOf(s) = {}
                      \/ \E l \in Locations : \E h : \E u \in Config[l].accept \cup {NoUser} :
                            /\ s = App!Waiting(h, App!Page(l, u, clock))
                            /\ ~App!EndsSession(Config[l])
      BY <2>1, ShownTo
    <2>5. CASE PageOf(s) = {}
      BY <1>1, <2>1, <2>2, <2>4, <2>5
    <2>6. ASSUME NEW l \in Locations, NEW u \in Config[l].accept \cup {NoUser}, NEW h,
                 s = App!Waiting(h, App!Page(l, u, clock)), ~App!EndsSession(Config[l])
          PROVE  Acc!Next
      <3>1. tab'[t] = App!Waiting(h, App!Page(l, u, clock))
        BY <1>0, <2>4, <2>6
      <3>2. u \in Users \cup {NoUser} /\ Acc!Entitled(l, u)
        BY <2>1, <2>2, <2>6, <3>1, ShownEntitled
      <3>3. PageOf(s) = {[loc |-> l, user |-> u, at |-> clock]}
        BY <2>6 DEF PageOf, View, App!Waiting, App!Page
      <3>4. Shown' = Shown \cup {[loc |-> l, user |-> u, at |-> clock]}
        BY <1>0, <2>3, <2>4, <3>3, ShowsMore
      <3>5. Acc!Serve(l, u)
        BY <2>1, <2>2, <3>2, <3>4 DEF Acc!Serve, Shown, View
      <3> QED BY <3>2, <3>5 DEF Acc!Next
    <2> QED BY <2>4, <2>5, <2>6
  <1>5. \A h, l : PageOf(App!Waiting(h, App!GoTo(l))) = {}
    BY NoPageOf DEF App!Waiting, App!GoTo
  <1>6. /\ PageOf(App!Idle) = {} /\ \A l : PageOf(App!GoTo(l)) = {}
        /\ \A q : PageOf(App!ToLogin(q)) = {}
    BY NoPageOf DEF App!Idle, App!GoTo, App!ToLogin
  <1>7. ASSUME NEW t \in Tabs, Status(t) \/ logout(t) PROVE Acc!Next \/ UNCHANGED Acc!vars
    <2>1. tab' = [tab EXCEPT ![t] = App!Idle] /\ UNCHANGED <<clock, verified>>
      BY <1>7, Answers DEF Status, logout, loginvars, App!LoginStatus, App!LoginLogout
    <2> QED BY <1>1, <1>6, <2>1
  <1>8. ASSUME NEW t \in Tabs, login_reply_handler(t) PROVE Acc!Next \/ UNCHANGED Acc!vars
    <2>1. /\ \E h : tab' = [tab EXCEPT ![t] = App!Waiting(h, App!GoTo(tab[t].loc))]
          /\ UNCHANGED <<clock, verified>>
      BY <1>8, Answers DEF login_reply_handler, loginvars, App!login_reply_handler
    <2> QED BY <1>1, <1>5, <2>1
  <1>9. ASSUME NEW t \in Tabs, Receive(t) PROVE Acc!Next \/ UNCHANGED Acc!vars
    <2> DEFINE n == tab[t].next
    <2>1. /\ tab' = [tab EXCEPT ![t] = IF n.pc \in {"page", "error"} THEN App!Idle ELSE n]
          /\ UNCHANGED <<clock, verified>> /\ tab[t].pc = "wait"
      BY <1>9 DEF Receive, Arrives, App!Receive
    <2>2. n.pc # "wait"
      <3>1. App!TabOK(tab[t])
        BY DEF Inv, App!TypeOK
      <3>2. n \in App!TabState
        BY <2>1, <3>1, App!TabFields, Params
      <3> QED BY <3>2 DEF App!TabState
    <2>3. PageOf(IF n.pc \in {"page", "error"} THEN App!Idle ELSE n) = {}
      BY <1>6, <2>2, NoPageOf
    <2> QED BY <1>1, <2>1, <2>3
  <1>10. ASSUME NEW t \in Tabs, Lose(t) PROVE Acc!Next \/ UNCHANGED Acc!vars
    <2>1. tab' = [tab EXCEPT ![t] = App!Idle] /\ UNCHANGED <<clock, verified>>
      BY <1>10 DEF Lose, App!Lose
    <2> QED BY <1>1, <1>6, <2>1
  <1>11. ASSUME NEW t \in Tabs, ReceivePage(t) \/ LosePage(t) PROVE UNCHANGED Acc!vars
    <2>1. tab' = tab /\ UNCHANGED <<clock, verified>>
      BY <1>11 DEF ReceivePage, LosePage, Arrives, appvars
    <2>2. Shown' = Shown
      BY <2>1 DEF Shown, App!PagesServed
    <2> QED BY <2>1, <2>2 DEF Acc!vars, Shown, View
  <1>12. ASSUME NEW t \in Tabs, BrowseLogin(t) PROVE Acc!Next \/ UNCHANGED Acc!vars
    <2>1. tab' = [tab EXCEPT ![t] = App!ToLogin(Nothing)] /\ UNCHANGED <<clock, verified>>
      BY <1>12 DEF BrowseLogin, App!BrowseLogin
    <2> QED BY <1>1, <1>6, <2>1
  <1>13. ASSUME NEW t \in Tabs, NEW l \in Locations, Browse(t, l)
         PROVE  Acc!Next \/ UNCHANGED Acc!vars
    <2>1. tab' = [tab EXCEPT ![t] = App!GoTo(l)] /\ UNCHANGED <<clock, verified>>
      BY <1>13 DEF Browse, App!Browse
    <2> QED BY <1>1, <1>6, <2>1
  <1> QED BY <1>2, <1>3, <1>4, <1>7, <1>8, <1>9, <1>10, <1>11, <1>12, <1>13 DEF Next

\* Single sign-on implements Access: mod_pubcookie, index.cgi and the login
\* cookie together show a page to a user only if the location admits him and
\* he typed his password, and a token code where one is wanted, recently; to
\* nobody only where no prompt is wanted; a run of the script being one
\* step, in which no login cookie expires.
THEOREM ImplementsAccess == Spec => AccessSpec
  <1>1. App!Spec => []App!PromptLocationsNameUser
    BY App!NoEmptyUser, Params, PTL
  <1>2. Spec => []App!PromptLocationsNameUser
    BY <1>1, ImplementsAppSessions, PTL DEF AppSpec
  <1>3. Spec => []Inv
    BY InvInit, InvNext, PTL DEF Spec
  <1> QED BY <1>2, <1>3, PagesRestOnVerification, AccInit, AccStep, PTL DEF Spec, AccessSpec, Acc!Spec

(***************************************************************************)
(* A logout holds.  An application without a session when the sign-on ends *)
(* gets none until somebody is verified, because nothing is left to log in *)
(* with: no login cookie that holds, no grant and no session for a user,   *)
(* neither in the browser nor on its way there.                            *)
(***************************************************************************)
\* Login cookie c is good for a name at most.
Dead(c) == c # Nothing => c.creds = PBC_CREDS_NONE

\* What is found in the slots K, in a jar or in headers h, is for nobody.
Nobodys(K, h) == \A k \in DOMAIN h : k \in K /\ h[k] # Nothing => h[k].user = NoUser

\* The slots where a user's cookie would undo the logout.
Void == App!GSlots \cup gone

\* A login cookie travels with a grant, or with the page shown at a logout.
SentFine(t) == sent[t] # {} =>
    /\ tab[t].pc \in {"wait", "reply", "idle"}
    /\ tab[t].pc = "idle" => \A c \in sent[t] : Dead(c)

StateNobodys(s) == s.pc = "reply" => s.cookie.user = NoUser
TabNobodys(K, s) ==
    /\ s.pc = "wait" => Nobodys(K, s.headers) /\ StateNobodys(s.next)
    /\ StateNobodys(s)

NothingHeld == gone # {} =>
    /\ Dead(cookie)
    /\ \A t \in Tabs : \A c \in sent[t] : Dead(c)
    /\ Nobodys(Void, jar)
    /\ \A t \in Tabs : TabNobodys(Void, tab[t])

SignOffInv ==
    /\ gone \subseteq App!SSlots
    /\ \A t \in Tabs : SentFine(t)
    /\ NothingHeld

(***************************************************************************)
(* Headers.                                                                *)
(***************************************************************************)
LEMMA NobodysHeaders ==
    /\ \A K : Nobodys(K, App!NoHeaders)
    /\ \A K, h, C : Nobodys(K, h) => Nobodys(K, App!ClearCookies(h, C))
    /\ \A K, h, k, v : /\ Nobodys(K, h)
                       /\ k \in K /\ v # Nothing => v.user = NoUser
                       => Nobodys(K, App!SetCookie(h, k, v))
    /\ \A K, j, h : Nobodys(K, j) /\ Nobodys(K, h) => Nobodys(K, App!ApplyHeaders(j, h))
  <1>1. \A K : Nobodys(K, App!NoHeaders)
    BY DEF Nobodys, App!NoHeaders
  <1>2. \A K, h, C : Nobodys(K, h) => Nobodys(K, App!ClearCookies(h, C))
    BY DEF Nobodys, App!ClearCookies
  <1>3. \A K, h, k, v : Nobodys(K, h) /\ (k \in K /\ v # Nothing => v.user = NoUser)
                        => Nobodys(K, App!SetCookie(h, k, v))
    BY DEF Nobodys, App!SetCookie
  <1>4. \A K, j, h : Nobodys(K, j) /\ Nobodys(K, h) => Nobodys(K, App!ApplyHeaders(j, h))
    BY DEF Nobodys, App!ApplyHeaders
  <1> QED BY <1>1, <1>2, <1>3, <1>4

\* A request for a login lies in none of these slots.
LEMMA RequestNobodys ==
    ASSUME gone \subseteq App!SSlots, NEW l \in Locations, NEW h, Nobodys(Void, h), NEW tok
    PROVE  Nobodys(Void, App!RequestHeaders(h, Config[l], l, tok))
  <1> DEFINE c == Config[l]
             h1 == App!SetCookie(h, App!PreSlot(c.srv), tok)
  <1>1. App!PreSlot(c.srv) \in App!PreSlots
    BY App!ConfigType, Params DEF App!PreSlots
  <1>2. App!PreSlot(c.srv) \notin Void /\ App!ReqSlot \notin Void
    BY <1>1, App!SlotsDiffer, Params DEF Void
  <1>3. Nobodys(Void, h1)
    BY <1>2, NobodysHeaders
  <1>4. Nobodys(Void, App!SetCookie(h1, App!ReqSlot, App!MakeRequest(c, l, tok)))
    BY <1>2, <1>3, NobodysHeaders
  <1> QED BY <1>4 DEF App!RequestHeaders

\* What an answer leaves of the windows.
LEMMA AnswerNobodys ==
    ASSUME tab = [x \in Tabs |-> tab[x]], NEW t \in Tabs, NEW K, \A x \in Tabs : TabNobodys(K, tab[x]),
           NEW h, NEW n,
           \/ App!Answer(t, h, n) /\ Nobodys(K, h) /\ n.pc # "reply"
           \/ App!AnswerAtOnce(t, n) /\ TabNobodys(K, n)
    PROVE  \A x \in Tabs : TabNobodys(K, tab'[x])
  <1>1. CASE App!Answer(t, h, n) /\ Nobodys(K, h) /\ n.pc # "reply"
    BY <1>1 DEF App!Answer, App!Waiting, TabNobodys, StateNobodys
  <1>2. CASE App!AnswerAtOnce(t, n) /\ TabNobodys(K, n)
    BY <1>2 DEF App!AnswerAtOnce
  <1> QED BY <1>1, <1>2

(***************************************************************************)
(* The steps.                                                              *)
(***************************************************************************)
LEMMA SignOffInit == Init => SignOffInv
  BY DEF Init, SignOffInv, SentFine, NothingHeld

\* A server answers from the jar: what is for nobody there stays so.
LEMMA RequestSignOff ==
    ASSUME Inv, SignOffInv, gone # {}, NEW t \in Tabs, App!Request(t)
    PROVE  \A x \in Tabs : TabNobodys(Void, tab'[x])
  <1> PICK l \in Locations :
          \/ App!EndSession(t, l)
          \/ App!do_end_session_redirect(t, l)
          \/ App!OpenSession(t, l)
          \/ App!UseSession(t, l)
          \/ App!AskLogin(t, l)
          \/ App!StopTheShow(t, l)
          \/ App!Unauthorized(t, l)
    BY DEF App!Request
  <1> DEFINE c == Config[l]
             k == App!SessionSlot(l)
             h == App!GrantHeaders(c, jar)
             Goal == \A x \in Tabs : TabNobodys(Void, tab'[x])
  <1>1. /\ tab = [x \in Tabs |-> tab[x]] /\ \A x \in Tabs : TabNobodys(Void, tab[x])
        /\ Nobodys(Void, jar) /\ gone \subseteq App!SSlots
        /\ DOMAIN jar = App!Slots /\ App!HeadersOK(jar)
    BY DEF Inv, LoginType, App!TypeOK, SignOffInv, NothingHeld
  <1>2. Nobodys(Void, h)
    BY NobodysHeaders DEF App!GrantHeaders
  <1>3. TabNobodys(Void, App!Idle)
    BY DEF TabNobodys, StateNobodys, App!Idle
  <1>4. \A g, n : App!Answer(t, g, n) /\ Nobodys(Void, g) /\ n.pc # "reply" => Goal
    BY <1>1, AnswerNobodys
  <1> SUFFICES Goal
    OBVIOUS
  <1> HIDE DEF Goal
  <1>5. CASE App!EndSession(t, l) \/ App!do_end_session_redirect(t, l)
    <2>1. \A C : Nobodys(Void, App!ClearCookies(App!NoHeaders, C))
      BY NobodysHeaders
    <2> QED BY <1>4, <1>5, <2>1
        DEF App!EndSession, App!do_end_session_redirect, App!ClearAll, App!Page, App!ToLogout
  <1>6. CASE App!OpenSession(t, l)
    <2> DEFINE g == jar[App!GSlot(c.srv)]
               s == App!NewSession(c, g, clock)
    <2>1. g # Nothing
      BY <1>1, <1>6, App!GrantChecked, Params DEF App!OpenSession, App!Verdict
    <2>2. App!GSlot(c.srv) \in App!GSlots \cap App!Slots
      BY App!ConfigType, App!SlotContents, Params DEF App!GSlots
    <2>3. g.user = NoUser
      BY <1>1, <2>1, <2>2 DEF Nobodys, Void
    <2>4. Nobodys(Void, App!SetCookie(h, k, s))
      BY <1>2, <2>3, NobodysHeaders DEF App!NewSession
    <2> QED BY <1>4, <1>6, <2>4 DEF App!OpenSession, App!Page
  <1>7. CASE App!UseSession(t, l)
    <2> DEFINE s == App!SessionData(c, jar)
               h2 == IF c.inact_exp > 0 THEN App!SetCookie(h, k, App!TouchSession(s, clock)) ELSE h
    <2>1. s = jar[k] /\ s # Nothing /\ s \in App!SessionCookie /\ k \in App!Slots
      BY <1>1, <1>7, App!SessionChecked, App!SessionContents, Params
      DEF App!UseSession, App!Verdict, App!SessionSlot
    <2>2. k \in Void => s.user = NoUser
      BY <1>1, <2>1 DEF Nobodys
    <2>3. App!TouchSession(s, clock).user = s.user
      BY <2>1 DEF App!TouchSession, App!SessionCookie
    <2>4. Nobodys(Void, h2)
      BY <1>2, <2>2, <2>3, NobodysHeaders
    <2> QED BY <1>4, <1>7, <2>4 DEF App!UseSession, App!Page
  <1>8. CASE App!AskLogin(t, l)
    <2> PICK tok \in Tokens :
            App!Answer(t, App!RequestHeaders(h, c, l, tok),
                   App!ToLogin(IF UsePost THEN App!MakeRequest(c, l, tok) ELSE Nothing))
      BY <1>8 DEF App!AskLogin
    <2>1. Nobodys(Void, App!RequestHeaders(h, c, l, tok))
      BY <1>1, <1>2, RequestNobodys
    <2> QED BY <1>4, <2>1 DEF App!ToLogin
  <1>9. CASE App!StopTheShow(t, l)
    <2>1. Nobodys(Void, App!ClearAll(h, c))
      BY <1>2, NobodysHeaders DEF App!ClearAll
    <2> QED BY <1>4, <1>9, <2>1 DEF App!StopTheShow, App!NoPage
  <1>10. CASE App!Unauthorized(t, l)
    BY <1>1, <1>3, <1>10, AnswerNobodys DEF App!Unauthorized, Goal
  <1> QED BY <1>5, <1>6, <1>7, <1>8, <1>9, <1>10

\* A run of the login script grants nobody but by a login, or quietly.
LEMMA RunSignOff ==
    ASSUME Inv, SignOffInv, NEW t \in Tabs, NEW v, Runs(t, v)
    PROVE  SignOffInv'
  <1> DEFINE q == AskedBy(t)
  <1>0. /\ tab = [x \in Tabs |-> tab[x]] /\ DOMAIN sent = Tabs
        /\ tab[t].pc \in {"login", "form"} /\ sent[t] = {}
        /\ gone \subseteq App!SSlots
    BY DEF Inv, LoginType, SignOffInv, SentFine, Runs
  <1>1. ASSUME NEW u, NEW c, Redirect(t, q, u, c)
        PROVE  /\ \A x \in Tabs : SentFine(x)'
               /\ UNCHANGED <<jar, cookie>>
               /\ \A x \in Tabs : sent'[x] = sent[x] \/ u # NoUser
               /\ u = NoUser /\ NothingHeld /\ gone # {} => \A x \in Tabs : TabNobodys(Void, tab'[x])
    <2> DEFINE g == App!Grant(q, u)
               h == SetCookie(ClearCookies(NoHeaders, {ReqSlot}), GSlot(q.srv), g)
    <2>1. /\ tab' = [tab EXCEPT ![t] = IF UsePost THEN App!ToReply(g, q.uri)
                                       ELSE App!Waiting(h, App!GoTo(q.uri))]
          /\ \E s : sent' = [sent EXCEPT ![t] = s] /\ (u = NoUser => s = {})
          /\ UNCHANGED <<jar, cookie>>
      BY <1>1 DEF Redirect
    <2>2. tab'[t].pc \in {"reply", "wait"}
      BY <1>0, <2>1 DEF App!ToReply, App!Waiting
    <2>3. \A x \in Tabs : SentFine(x)'
      BY <1>0, <2>1, <2>2 DEF SignOffInv, SentFine, Dead
    <2>4. \A x \in Tabs : sent'[x] = sent[x] \/ u # NoUser
      BY <1>0, <2>1
    <2>5. ASSUME u = NoUser, NothingHeld, gone # {}
          PROVE  \A x \in Tabs : TabNobodys(Void, tab'[x])
      <3>1. g.user = NoUser
        BY <2>5 DEF App!Grant
      <3>2. h = App!SetCookie(App!ClearCookies(App!NoHeaders, {App!ReqSlot}), App!GSlot(q.srv), g)
        BY SameHeaders
      <3>3. Nobodys(Void, h)
        BY <3>1, <3>2, NobodysHeaders
      <3>4. TabNobodys(Void, App!ToReply(g, q.uri)) /\ App!GoTo(q.uri).pc # "reply"
        BY <3>1 DEF TabNobodys, StateNobodys, App!ToReply, App!GoTo
      <3>5. \/ App!Answer(t, h, App!GoTo(q.uri))
            \/ App!AnswerAtOnce(t, App!ToReply(g, q.uri))
        BY <2>1 DEF App!Answer, App!AnswerAtOnce
      <3>6. \A x \in Tabs : TabNobodys(Void, tab[x])
        BY <2>5 DEF NothingHeld
      <3> QED BY <1>0, <3>3, <3>4, <3>5, <3>6, AnswerNobodys
    <2> QED BY <2>1, <2>3, <2>4, <2>5
  <1>2. CASE print_login_page(t, q, v)
    <2>1. UNCHANGED <<jar, cookie, sent, gone>> /\ tab' = [tab EXCEPT ![t] = App!Form(q)]
      BY <1>2 DEF print_login_page, ShowForm
    <2>2. \A x \in Tabs : SentFine(x)'
      BY <1>0, <2>1 DEF SignOffInv, SentFine
    <2>3. TabNobodys(Void, App!Form(q))
      BY DEF TabNobodys, StateNobodys, App!Form
    <2>4. NothingHeld'
      BY <1>0, <2>1, <2>3 DEF SignOffInv, NothingHeld, Void
    <2> QED BY <1>0, <2>1, <2>2, <2>4 DEF SignOffInv
  <1>3. CASE LoginOK(t, q, v)
    <2>1. Redirect(t, q, VisitUser(v), Cgi!Renewed(v, cookie, clock)) /\ gone' = {}
      BY <1>3 DEF LoginOK
    <2> QED BY <1>1, <2>1 DEF SignOffInv, NothingHeld
  <1>4. CASE RideOK(t, q, v)
    <2>1. Redirect(t, q, VisitUser(v), cookie) /\ gone' = gone /\ Outcome(v, "ride")
      BY <1>4 DEF RideOK
    <2>2. Cgi!CookieHolds(cookie, clock)
      BY <2>1, Flavors
    <2>3. ~Dead(cookie)
      BY <2>2, SameCreds DEF Dead, Cgi!CookieHolds, Cgi!check_l_cookie_expire
    <2>4. gone = {}
      BY <2>3 DEF SignOffInv, NothingHeld
    <2> QED BY <1>1, <2>1, <2>4 DEF SignOffInv, NothingHeld
  <1>5. CASE QuietOK(t, q, v)
    <2>1. Redirect(t, q, NoUser, cookie) /\ gone' = gone
      BY <1>5 DEF QuietOK
    <2>2. /\ \A x \in Tabs : SentFine(x)' /\ sent'[x] = sent[x]
          /\ UNCHANGED <<jar, cookie>>
          /\ NothingHeld /\ gone # {} => \A x \in Tabs : TabNobodys(Void, tab'[x])
      BY <1>1, <2>1
    <2>3. NothingHeld'
      BY <2>1, <2>2 DEF SignOffInv, NothingHeld, Void
    <2> QED BY <1>0, <2>1, <2>2, <2>3 DEF SignOffInv
  <1> QED BY <1>2, <1>3, <1>4, <1>5 DEF Runs, Script

\* The other steps verify nobody; each changes one window.
LEMMA StepSignOff ==
    ASSUME Inv, SignOffInv, NEW t \in Tabs, NEW s, NEW c,
           gone' = gone,
           tab' = [tab EXCEPT ![t] = s],
           \A x \in Tabs : sent'[x] = IF x = t THEN c ELSE sent[x],
           c # {} => s.pc \in {"wait", "reply", "idle"},
           c = {} \/ \A k \in c : Dead(k),
           NothingHeld /\ gone # {} => /\ Dead(cookie') /\ Nobodys(Void, jar')
                                       /\ TabNobodys(Void, s)
    PROVE  SignOffInv'
  <1>1. /\ tab = [x \in Tabs |-> tab[x]] /\ DOMAIN sent = Tabs
        /\ \A x \in Tabs : SentFine(x) /\ NothingHeld /\ gone \subseteq App!SSlots
    BY DEF Inv, LoginType, SignOffInv
  <1>2. /\ \A x \in Tabs : tab'[x] = IF x = t THEN s ELSE tab[x]
        /\ \A x \in Tabs : sent'[x] = IF x = t THEN c ELSE sent[x]
    BY <1>1
  <1>3. \A x \in Tabs : SentFine(x)'
    BY <1>1, <1>2 DEF SentFine
  <1>4. ASSUME gone # {}
        PROVE  /\ \A x \in Tabs : TabNobodys(Void, tab'[x])
               /\ \A x \in Tabs : \A k \in sent'[x] : Dead(k)
    BY <1>1, <1>2, <1>4 DEF NothingHeld
  <1>5. NothingHeld'
    BY <1>1, <1>4 DEF NothingHeld, Void
  <1> QED BY <1>1, <1>3, <1>5 DEF SignOffInv

LEMMA SignOffNext == Inv /\ SignOffInv /\ [Next]_vars => SignOffInv'
  <1> SUFFICES ASSUME Inv, SignOffInv, [Next]_vars PROVE SignOffInv'
    OBVIOUS
  <1>0. /\ tab = [x \in Tabs |-> tab[x]] /\ DOMAIN sent = Tabs
        /\ \A x \in Tabs : SentFine(x) /\ NothingHeld /\ gone \subseteq App!SSlots
    BY DEF Inv, LoginType, SignOffInv
  <1>1. \A t \in Tabs : \A c : sent' = [sent EXCEPT ![t] = c]
            => \A x \in Tabs : sent'[x] = IF x = t THEN c ELSE sent[x]
    BY <1>0
  <1>2. /\ TabNobodys(Void, App!Idle) /\ \A l : TabNobodys(Void, App!GoTo(l))
        /\ \A q : TabNobodys(Void, App!ToLogin(q))
    BY DEF TabNobodys, StateNobodys, App!Idle, App!GoTo, App!ToLogin
  <1>3. CASE Tick \/ UNCHANGED vars
    <2>1. UNCHANGED <<jar, tab, cookie, sent, gone>>
      BY <1>3 DEF Tick, App!Tick, App!history, vars, appvars, loginvars
    <2> QED BY <2>1 DEF SignOffInv, SentFine, NothingHeld, Void
  <1>4. ASSUME NEW t \in Tabs, Visit(t) \/ Reply(t) PROVE SignOffInv'
    BY <1>4, AllRuns, RunSignOff
  <1>5. ASSUME NEW t \in Tabs, Request(t) PROVE SignOffInv'
    <2>1. App!Request(t) /\ UNCHANGED <<cookie, sent, gone>>
      BY <1>5 DEF Request, loginvars
    <2>2. jar' = jar
      BY <2>1
      DEF App!Request, App!EndSession, App!do_end_session_redirect, App!OpenSession,
          App!UseSession, App!AskLogin, App!StopTheShow, App!Unauthorized, App!Ends, App!history
    <2>3. tab[t].pc = "goto" /\ \A x \in Tabs \ {t} : tab'[x] = tab[x]
      BY <1>0, <2>1
      DEF App!Request, App!EndSession, App!do_end_session_redirect, App!OpenSession,
          App!UseSession, App!AskLogin, App!StopTheShow, App!Unauthorized, App!Verdict,
          App!Asked, App!GoTo, App!Answer, App!AnswerAtOnce
    <2>4. \A x \in Tabs : SentFine(x)'
      BY <1>0, <2>1, <2>3 DEF SentFine
    <2>5. gone # {} => \A x \in Tabs : TabNobodys(Void, tab'[x])
      BY <2>1, RequestSignOff
    <2>6. NothingHeld'
      BY <1>0, <2>1, <2>2, <2>5 DEF NothingHeld, Void
    <2> QED BY <1>0, <2>1, <2>4, <2>6 DEF SignOffInv
  <1>6. ASSUME NEW t \in Tabs, Status(t) PROVE SignOffInv'
    <2>1. tab' = [tab EXCEPT ![t] = App!Idle] /\ UNCHANGED <<jar, cookie, sent, gone>>
          /\ tab[t].pc = "login"
      BY <1>6 DEF Status, loginvars, App!LoginStatus, App!AnswerAtOnce
    <2>2. sent[t] = {}
      BY <1>0, <2>1 DEF SentFine
    <2> QED BY <1>0, <1>1, <1>2, <2>1, <2>2, StepSignOff DEF NothingHeld
  <1>7. ASSUME NEW t \in Tabs, logout(t) PROVE SignOffInv'
    <2> DEFINE e == Cgi!expire_login_cookie(IF cookie = Nothing THEN NoUser ELSE cookie.user, clock)
    <2>1. tab' = [tab EXCEPT ![t] = App!Idle] /\ UNCHANGED <<jar, cookie, gone>>
          /\ \E c \in {{}, {Nothing}, {e}} : sent' = [sent EXCEPT ![t] = c]
      BY <1>7 DEF logout, App!LoginLogout, App!AnswerAtOnce
    <2>2. Dead(Nothing) /\ Dead(e)
      BY SameCreds DEF Dead, Cgi!expire_login_cookie
    <2>3. App!Idle.pc = "idle"
      BY DEF App!Idle
    <2> HIDE DEF e
    <2>4. PICK c \in {{}, {Nothing}, {e}} : sent' = [sent EXCEPT ![t] = c]
      BY <2>1
    <2>5. /\ \A x \in Tabs : sent'[x] = IF x = t THEN c ELSE sent[x]
          /\ \A k \in c : Dead(k)
      BY <1>1, <2>2, <2>4
    <2>6. NothingHeld /\ gone # {} => Dead(cookie') /\ Nobodys(Void, jar')
      BY <2>1 DEF NothingHeld
    <2> QED BY <1>2, <2>1, <2>3, <2>5, <2>6, StepSignOff
  <1>8. ASSUME NEW t \in Tabs, login_reply_handler(t) PROVE SignOffInv'
    <2> DEFINE g == tab[t].cookie
               h == App!SetCookie(App!NoHeaders, App!GSlot(g.srv), g)
    <2>1. tab' = [tab EXCEPT ![t] = App!Waiting(h, App!GoTo(tab[t].loc))]
          /\ UNCHANGED <<jar, cookie, sent, gone>> /\ sent[t] = {} /\ tab[t].pc = "reply"
      BY <1>8 DEF login_reply_handler, loginvars, App!login_reply_handler, App!Answer
    <2>2. NothingHeld /\ gone # {} => TabNobodys(Void, App!Waiting(h, App!GoTo(tab[t].loc)))
      <3> SUFFICES ASSUME NothingHeld, gone # {} PROVE Nobodys(Void, h)
        BY DEF TabNobodys, StateNobodys, App!Waiting, App!GoTo
      <3>1. g.user = NoUser
        BY <2>1 DEF NothingHeld, TabNobodys, StateNobodys
      <3> QED BY <3>1, NobodysHeaders
    <2> QED BY <1>0, <1>1, <2>1, <2>2, StepSignOff DEF NothingHeld
  <1>9. ASSUME NEW t \in Tabs, Receive(t) PROVE SignOffInv'
    <2> DEFINE n == tab[t].next
               s == IF n.pc \in {"page", "error"} THEN App!Idle ELSE n
    <2>1. /\ tab[t].pc = "wait" /\ tab' = [tab EXCEPT ![t] = s] /\ gone' = gone
          /\ jar' = App!ApplyHeaders(jar, tab[t].headers)
          /\ sent' = [sent EXCEPT ![t] = {}]
          /\ cookie' \in {cookie} \cup sent[t]
      BY <1>9 DEF Receive, Arrives, App!Receive
    <2>2. NothingHeld /\ gone # {} => Dead(cookie') /\ Nobodys(Void, jar')
      BY <2>1, NobodysHeaders DEF NothingHeld, TabNobodys
    <2>3. n \in App!TabState
      <3>1. App!TabOK(tab[t])
        BY DEF Inv, App!TypeOK
      <3> QED BY <2>1, <3>1, App!TabFields, Params
    <2>4. n.pc # "wait"
      BY <2>3 DEF App!TabState
    <2>5. NothingHeld /\ gone # {} => TabNobodys(Void, s)
      BY <1>2, <2>1, <2>4 DEF NothingHeld, TabNobodys
    <2>6. \A x \in Tabs : sent'[x] = IF x = t THEN {} ELSE sent[x]
      BY <1>1, <2>1
    <2> HIDE DEF n, s
    <2> QED BY <2>1, <2>2, <2>5, <2>6, StepSignOff
  <1>10. ASSUME NEW t \in Tabs, Lose(t) PROVE SignOffInv'
    <2>1. tab' = [tab EXCEPT ![t] = App!Idle] /\ UNCHANGED <<jar, cookie, gone>>
          /\ sent' = [sent EXCEPT ![t] = {}]
      BY <1>10 DEF Lose, App!Lose
    <2> QED BY <1>0, <1>1, <1>2, <2>1, StepSignOff DEF NothingHeld
  <1>11. ASSUME NEW t \in Tabs, ReceivePage(t) PROVE SignOffInv'
    <2>1. /\ tab' = tab /\ jar' = jar
          /\ sent' = [sent EXCEPT ![t] = {}]
          /\ cookie' \in sent[t]
      BY <1>11 DEF ReceivePage, Arrives, appvars
    <2>2. CASE tab[t].pc = "idle" /\ NothingLeft(t)
      <3>1. gone' = gone \cup {k \in App!SSlots : jar[k] = Nothing}
        BY <1>11, <2>2 DEF ReceivePage
      <3>2. \A x \in Tabs : sent'[x] = {}
        BY <1>0, <2>1, <2>2 DEF NothingLeft
      <3>3. Dead(cookie')
        BY <1>0, <2>1, <2>2 DEF SentFine
      <3>4. \A K : \A x \in Tabs : TabNobodys(K, tab'[x])
        BY <2>1, <2>2 DEF NothingLeft, TabNobodys, StateNobodys
      <3>5. Nobodys(Void', jar')
        <4>1. \A k \in GSlots : jar[k] = Nothing
          BY <2>2 DEF NothingLeft
        <4>2. GSlots = App!GSlots
          BY DEF GSlots, App!GSlots, GSlot, App!GSlot, Servers, App!Servers
        <4>3. ASSUME NEW k \in DOMAIN jar, k \in gone, jar[k] # Nothing PROVE jar[k].user = NoUser
          BY <1>0, <4>3 DEF NothingHeld, Nobodys, Void
        <4> QED BY <2>1, <3>1, <4>1, <4>2, <4>3 DEF Nobodys, Void
      <3>6. NothingHeld'
        BY <3>2, <3>3, <3>4, <3>5 DEF NothingHeld
      <3> QED BY <1>0, <3>1, <3>2, <3>6 DEF SignOffInv, SentFine
    <2>3. CASE ~(tab[t].pc = "idle" /\ NothingLeft(t))
      <3>1. gone' = gone /\ tab' = [tab EXCEPT ![t] = tab[t]]
        BY <1>0, <1>11, <2>1, <2>3 DEF ReceivePage
      <3>2. \A x \in Tabs : sent'[x] = IF x = t THEN {} ELSE sent[x]
        BY <1>1, <2>1
      <3>3. NothingHeld /\ gone # {}
            => Dead(cookie') /\ Nobodys(Void, jar') /\ TabNobodys(Void, tab[t])
        BY <2>1 DEF NothingHeld
      <3> QED BY <3>1, <3>2, <3>3, StepSignOff
    <2> QED BY <2>2, <2>3
  <1>12. ASSUME NEW t \in Tabs, LosePage(t) PROVE SignOffInv'
    <2>1. tab' = [tab EXCEPT ![t] = tab[t]] /\ UNCHANGED <<jar, cookie, gone>>
          /\ sent' = [sent EXCEPT ![t] = {}]
      BY <1>0, <1>12 DEF LosePage, appvars
    <2> QED BY <1>0, <1>1, <2>1, StepSignOff DEF NothingHeld
  <1>13. ASSUME NEW t \in Tabs, BrowseLogin(t) PROVE SignOffInv'
    <2>1. tab' = [tab EXCEPT ![t] = App!ToLogin(Nothing)] /\ sent[t] = {}
          /\ UNCHANGED <<jar, cookie, gone, sent>>
      BY <1>13 DEF BrowseLogin, App!BrowseLogin
    <2> QED BY <1>0, <1>1, <1>2, <2>1, StepSignOff DEF NothingHeld
  <1>14. ASSUME NEW t \in Tabs, NEW l \in Locations, Browse(t, l) PROVE SignOffInv'
    <2>1. tab' = [tab EXCEPT ![t] = App!GoTo(l)] /\ sent[t] = {}
          /\ UNCHANGED <<jar, cookie, gone, sent>>
      BY <1>14 DEF Browse, App!Browse
    <2> QED BY <1>0, <1>1, <1>2, <2>1, StepSignOff DEF NothingHeld
  <1> QED BY <1>3, <1>4, <1>5, <1>6, <1>7, <1>8, <1>9, <1>10, <1>11, <1>12, <1>13, <1>14 DEF Next

\* A page is served to nobody from a session that is gone.
LEMMA SignOffStep ==
    ASSUME Inv, SignOffInv, [Next]_vars, NEW t \in Tabs, NEW l \in Locations,
           ServesPage(t, l), App!SessionSlot(l) \in gone
    PROVE  tab'[t].next.user = NoUser
  <1> DEFINE c == Config[l]
  <1>0. /\ tab = [x \in Tabs |-> tab[x]] /\ Nobodys(Void, jar)
        /\ DOMAIN jar = App!Slots /\ App!HeadersOK(jar)
    BY DEF Inv, LoginType, App!TypeOK, SignOffInv, NothingHeld
  <1>1. [App!Next]_(App!vars)
    BY AppStep
  <1>2. App!OpenSession(t, l) \/ App!UseSession(t, l)
    BY <1>1, App!ServedBy, Params DEF ServesPage, Inv, EndsSession, App!EndsSession
  <1>3. CASE App!OpenSession(t, l)
    <2> DEFINE g == jar[App!GSlot(c.srv)]
    <2>1. g # Nothing
      BY <1>0, <1>3, App!GrantChecked, Params DEF App!OpenSession, App!Verdict
    <2>2. App!GSlot(c.srv) \in App!GSlots \cap App!Slots
      BY App!ConfigType, App!SlotContents, Params DEF App!GSlots
    <2>3. g.user = NoUser
      BY <1>0, <2>1, <2>2 DEF Nobodys, Void
    <2> QED BY <1>0, <1>3, <2>3 DEF App!OpenSession, App!Answer, App!Waiting, App!Page
  <1>4. CASE App!UseSession(t, l)
    <2> DEFINE s == App!SessionData(c, jar)
    <2>1. s = jar[App!SessionSlot(l)] /\ s # Nothing /\ App!SessionSlot(l) \in App!Slots
      BY <1>0, <1>4, App!SessionChecked, App!SessionContents, Params
      DEF App!UseSession, App!Verdict, App!SessionSlot
    <2>2. s.user = NoUser
      BY <1>0, <2>1 DEF Nobodys, Void
    <2> QED BY <1>0, <1>4, <2>2 DEF App!UseSession, App!Answer, App!Waiting, App!Page
  <1> QED BY <1>2, <1>3, <1>4

\* After a logout that no other window raced, a user is served a page of an
\* application he was logged out of only when somebody has been verified
\* again (logout, expire_login_cookie, do_end_session_redirect).
THEOREM LogoutHolds == Spec => StaysLoggedOut
  <1>1. Inv /\ SignOffInv /\ [Next]_vars =>
            [\A t \in Tabs, l \in Locations :
                ServesPage(t, l) /\ tab'[t].next.user # NoUser => App!SessionSlot(l) \notin gone]_vars
    BY SignOffStep
  <1> QED BY <1>1, InvInit, InvNext, SignOffInit, SignOffNext, PTL DEF Spec, StaysLoggedOut

(***************************************************************************)
(* A demanded login is fresh.  The demand is a number of seconds in the    *)
(* request and a mark in the grant and in the session; what makes it good  *)
(* is that the request is its location's, that the login cookie is younger *)
(* than what was typed for it, and that the mark means the same to all.    *)
(***************************************************************************)
Demanding == {l \in Locations : /\ Config[l].creds = PBC_BASIC_CRED_ID
                                /\ Config[l].session_reauth > 0}

\* A grant with the mark: something was typed just then, or less than the
\* grace of some location ago.
FreshGrant(V, g) ==
    g.creds = PBC_BASIC_CRED_ID /\ g.reauth /\ g.user # NoUser =>
        \E x \in V : /\ x.user = g.user /\ x.at <= g.create_ts
                     /\ \/ g.create_ts = x.at
                        \/ \E l \in Demanding : g.create_ts <= x.at + GraceOf(l)

FreshInv ==
    /\ App!IInv
    /\ App!RequestsMade
    /\ \A g \in granted : FreshGrant(verified, g)

\* The request a run answers is the one its location makes.
LEMMA AskedAsMade ==
    ASSUME Inv, App!RequestsMade, NEW t \in Tabs, NEW v, Runs(t, v)
    PROVE  LET q == AskedBy(t)
               r == Config[q.uri].session_reauth
           IN /\ q.uri \in Locations
              /\ q.creds = Config[q.uri].creds
              /\ q.session_reauth = IF r = -1 THEN 0 ELSE r
  <1> DEFINE q == AskedBy(t)
  <1>1. q \in App!GrantingRequest /\ q # Nothing /\ tab[t].pc \in {"login", "form"}
    BY RequestType DEF Runs
  <1>2. App!Made(q)
    <2>1. App!StateMade(tab[t])
      BY DEF App!RequestsMade, App!TabMade
    <2>2. CASE q = tab[t].greq
      BY <1>1, <2>1, <2>2 DEF App!StateMade
    <2>3. CASE q = jar[App!ReqSlot]
      <3>1. App!ReqSlot \in DOMAIN jar
        BY DEF Inv, App!TypeOK, App!Slots
      <3> QED BY <1>1, <2>3, <3>1 DEF App!RequestsMade, App!HeadersMade
    <2> QED BY <2>2, <2>3 DEF AskedBy, App!Brought
  <1> QED BY <1>1, <1>2 DEF App!Made, App!MakeRequest, App!GrantingRequest

\* What a run grants with the mark is fresh.
LEMMA RunFresh ==
    ASSUME Inv, App!RequestsMade, NEW t \in Tabs, NEW v, Runs(t, v)
    PROVE  \A g \in granted' \ granted : FreshGrant(verified', g)
  <1> DEFINE q == AskedBy(t)
             u == VisitUser(v)
             g == App!Grant(q, u)
  <1>0. clock \in Nat /\ g.user = u /\ g.create_ts = clock /\ g.creds = q.creds
        /\ (g.reauth <=> q.session_reauth # 0)
    BY DEF Inv, App!TypeOK, App!Grant
  <1>1. CASE print_login_page(t, q, v)
    BY <1>1 DEF print_login_page
  <1>2. CASE LoginOK(t, q, v)
    <2>1. granted' = granted \cup {g} /\ Verify(v) /\ Outcome(v, "login")
      BY <1>2 DEF LoginOK, Redirect
    <2>2. PICK what \in {"password", "token"} : KnownFor(verified', u, what, clock)
      BY <2>1, JustTyped
    <2>3. FreshGrant(verified', g)
      BY <1>0, <2>2 DEF FreshGrant, KnownFor
    <2> QED BY <2>1, <2>3
  <1>3. CASE RideOK(t, q, v)
    <2>1. granted' = granted \cup {g} /\ Outcome(v, "ride") /\ verified' = verified
      BY <1>3 DEF RideOK, Redirect
    <2>2. ASSUME q.creds = 1, q.session_reauth # 0
          PROVE  \E x \in verified :
                    /\ x.user = u /\ x.at <= clock
                    /\ \E l \in Demanding : clock <= x.at + GraceOf(l)
      <3> DEFINE r == q.session_reauth
      <3>1. Cgi!IsBasic(v) /\ Cgi!CookieHolds(cookie, clock)
        BY <2>1, <2>2, Flavors, SameCreds DEF Runs, Cgi!IsBasic
      <3>2. cookie.create_ts + Cgi!Grace(r) >= clock
        BY <2>1, <2>2, <3>1
        DEF Outcome, Cgi!vector_request, Cgi!BasicRide, Runs
      <3>3. PICK at \in 0 .. clock, what \in {"password", "token"} :
                KnownFor(verified, cookie.user, what, at) /\ cookie.create_ts <= at
        BY <3>1, CookieKnown
      <3>4. u = cookie.user /\ cookie.create_ts \in Int
        BY <3>1, CookieKnown DEF VisitUser, Cgi!LoginUser
      <3>5. q.uri \in Locations /\ Config[q.uri].creds = 1 /\ r \in Int
            /\ r = Config[q.uri].session_reauth
        BY <2>2, AskedAsMade, ConfigAssumption DEF DirConfig
      <3>6. Cgi!Grace(r) \in Int /\ (r <= 0 => Cgi!Grace(r) = r)
        BY <3>5, DurationAssumption DEF Cgi!Grace
      <3>7. r > 0 /\ clock <= at + Cgi!Grace(r)
        BY <1>0, <2>2, <3>2, <3>3, <3>4, <3>5, <3>6
      <3>8. q.uri \in Demanding /\ GraceOf(q.uri) = Cgi!Grace(r)
        BY <3>5, <3>7, SameCreds DEF Demanding, GraceOf
      <3> DEFINE x == [user |-> u, what |-> what, at |-> at]
      <3>9. x \in verified /\ x.user = u /\ x.at = at
        BY <3>3, <3>4 DEF KnownFor
      <3> HIDE DEF x, u, r, q
      <3> QED BY <3>3, <3>7, <3>8, <3>9
    <2>3. FreshGrant(verified', g)
      BY <1>0, <2>1, <2>2, SameCreds DEF FreshGrant
    <2> QED BY <2>1, <2>3
  <1>4. CASE QuietOK(t, q, v)
    <2>1. granted' = granted \cup {App!Grant(q, NoUser)}
      BY <1>4 DEF QuietOK, Redirect
    <2> QED BY <2>1 DEF FreshGrant, App!Grant
  <1> QED BY <1>1, <1>2, <1>3, <1>4 DEF Runs, Script

LEMMA FreshNext == Inv /\ FreshInv /\ [Next]_vars => FreshInv'
  <1> SUFFICES ASSUME Inv, FreshInv, [Next]_vars PROVE FreshInv'
    OBVIOUS
  <1>1. [App!Next]_(App!vars)
    BY AppStep
  <1>2. App!IInv' /\ App!RequestsMade'
    BY <1>1, App!IInvNext, App!RequestsMadeNext, Params DEF Inv, FreshInv
  <1>3. verified \subseteq verified' /\ \A g \in granted' \ granted : FreshGrant(verified', g)
    <2>1. ASSUME NEW t \in Tabs, Visit(t) \/ Reply(t)
          PROVE  verified \subseteq verified' /\ \A g \in granted' \ granted : FreshGrant(verified', g)
      BY <2>1, AllRuns, RunAdds, RunFresh DEF FreshInv
    <2>2. ASSUME NEW t \in Tabs, Request(t) PROVE UNCHANGED <<granted, verified>>
      BY <2>2
      DEF Request, App!Request, App!EndSession, App!do_end_session_redirect, App!OpenSession,
          App!UseSession, App!AskLogin, App!StopTheShow, App!Unauthorized, App!Ends, App!history, loginvars
    <2> QED BY <2>1, <2>2
        DEF Next, vars, appvars, loginvars, Tick, Status, logout, login_reply_handler, Receive,
            Lose, ReceivePage, LosePage, Arrives, BrowseLogin, Browse, App!Tick, App!LoginStatus,
            App!LoginLogout, App!login_reply_handler, App!Receive, App!Lose, App!BrowseLogin,
            App!Browse, App!history
  <1>4. \A g : FreshGrant(verified, g) => FreshGrant(verified', g)
    BY <1>3 DEF FreshGrant
  <1> QED BY <1>2, <1>3, <1>4 DEF FreshInv

\* A location with PubcookieSessionCauseReAuth serves pages only to a user
\* who was verified no longer before his session began than its grace, if
\* all that demand this leave the same grace and none says "off", which sets
\* the mark for nothing (process_basic, create_cookie, pubcookie_user).
THEOREM DemandedLoginsAreFresh ==
    ASSUME App!NoReauthOff, \A l, m \in Demanding : GraceOf(l) = GraceOf(m)
    PROVE  Spec => []FreshLogins
  <1>1. Init => FreshInv
    BY AppInit, App!IInvInit, App!RequestsMadeInit, Params DEF Init, App!Init, FreshInv
  <1>2. Inv /\ FreshInv => FreshLogins
    <2> SUFFICES ASSUME Inv, FreshInv, NEW p \in App!PagesServed, p.user # NoUser,
                        Config[p.loc].creds = PBC_BASIC_CRED_ID, Config[p.loc].session_reauth > 0
                 PROVE  \E x \in verified : RestsOn(p, x, GraceOf(p.loc))
      BY DEF FreshLogins
    <2> DEFINE c == Config[p.loc]
    <2>1. PICK t \in Tabs : /\ tab[t].pc = "wait" /\ p = tab[t].next /\ p.pc = "page"
                            /\ ~App!EndsSession(c)
      BY DEF App!PagesServed
    <2>2. p.loc \in Locations /\ p.at \in Int
      <3>1. p \in App!TabState
        <4>1. App!TabOK(tab[t])
          BY DEF Inv, App!TypeOK
        <4> QED BY <2>1, <4>1, App!TabFields, Params
      <3> QED BY <2>1, <3>1 DEF App!TabState, App!Time
    <2>3. App!PageBacked(granted, p.loc, p.user, p.at)
      BY <2>1 DEF FreshInv, App!IInv, App!TabBacked, App!StateBacked
    <2>4. PICK g \in granted : /\ g.user = p.user /\ g.creds = c.creds /\ g.reauth
                               /\ g.create_ts <= p.at
                               /\ p.at < g.create_ts + GrantingExpire + c.hard_exp
      BY <2>1, <2>3 DEF App!PageBacked, App!GrantFor
    <2>5. PICK x \in verified : /\ x.user = g.user /\ x.at <= g.create_ts
                                /\ \/ g.create_ts = x.at
                                   \/ \E l \in Demanding : g.create_ts <= x.at + GraceOf(l)
      BY <2>4 DEF FreshInv, FreshGrant
    <2>6. p.loc \in Demanding
      BY <2>2 DEF Demanding
    <2>7. GraceOf(p.loc) \in Nat
      BY <2>2, ConfigAssumption, DurationAssumption DEF GraceOf, Cgi!Grace, DirConfig
    <2>8. g.create_ts <= x.at + GraceOf(p.loc)
      <3>1. x.at \in Int /\ g.create_ts \in Int
        BY DEF Inv, LoginType, App!TypeOK, App!GrantingCookie, App!Time
      <3> QED BY <2>5, <2>6, <2>7, <3>1
    <2>9. /\ x.at \in Int /\ g.create_ts \in Int
          /\ c.hard_exp \in Nat /\ GrantingExpire \in Nat
      BY <2>2, ConfigAssumption, ExpireAssumption
      DEF Inv, LoginType, App!TypeOK, App!GrantingCookie, App!Time, DirConfig
    <2>10. x.user = p.user /\ x.at <= p.at
           /\ p.at < x.at + GraceOf(p.loc) + GrantingExpire + c.hard_exp
      BY <2>2, <2>4, <2>5, <2>7, <2>8, <2>9
    <2> QED BY <2>10 DEF RestsOn
  <1> QED BY <1>1, <1>2, InvInit, InvNext, FreshNext, PTL DEF Spec
=============================================================================
