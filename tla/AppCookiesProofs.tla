-------------------------- MODULE AppCookiesProofs --------------------------
(***************************************************************************)
(* The cookies that visits leave in the list of the login server's process *)
(* do not leak into later visits' answers, however many visits there are,  *)
(* however much credentials take, and whatever is written past the list.   *)
(***************************************************************************)
EXTENDS AppCookies, TLAPS

(***************************************************************************)
(* The list.                                                               *)
(***************************************************************************)
OneOfEach(list) == \A c, d \in list : c.name = d.name => c = d

LEMMA NamesDiffer ==
    /\ Grant # Req /\ Grant # Multipart /\ Req # Multipart
    /\ \A j \in Int : Piece(j) # Grant /\ Piece(j) # Req /\ Piece(j) # Multipart
    /\ \A i, j \in Int : Piece(i) = Piece(j) => i = j
  BY DEF Grant, Req, Multipart, Piece

\* What is queued replaces what has its name, and leaves the rest.
LEMMA Queueing ==
    ASSUME NEW list, NEW cookies
    PROVE  /\ cookies \subseteq add_app_cookie(list, cookies)
           /\ \A c \in add_app_cookie(list, cookies) :
                 c \in cookies \/ (c \in list /\ c.name \notin Names(cookies))
           /\ OneOfEach(list) /\ OneOfEach(cookies) => OneOfEach(add_app_cookie(list, cookies))
  BY DEF add_app_cookie, Names, OneOfEach

\* No visit queues two cookies of one name, and what it queues is its own.
LEMMA VisitQueues ==
    ASSUME visits \in Nat
    PROVE  /\ OneOfEach({})
           /\ \A name : OneOfEach(Cleared(name))
           /\ \A n \in Int : OneOfEach(Pieces(n)) /\ OneOfEach(Queued(n))
           /\ \A redirect : \A n \in Int : OneOfEach(RedirectCookies(Pieces(n), redirect))
  <1>1. OneOfEach({}) /\ \A name : OneOfEach(Cleared(name))
    BY DEF OneOfEach, Cleared
  <1>2. \A n \in Int : OneOfEach(Pieces(n))
    BY NamesDiffer DEF OneOfEach, Pieces, Cookie
  <1>3. \A n \in Int : OneOfEach(Queued(n))
    BY <1>2, CountAssumption DEF Queued
  <1>4. ASSUME NEW n \in Int, NEW redirect
        PROVE  OneOfEach(RedirectCookies(Pieces(n), redirect))
    <2>1. \A c \in Pieces(n) : c.name # Grant /\ c.name # Req
      BY NamesDiffer DEF Pieces, Cookie
    <2>2. \A c \in Cleared(Req) : c = Cookie(Req, Clear)
      BY DEF Cleared
    <2> QED BY <1>2, <2>1, <2>2, NamesDiffer DEF OneOfEach, RedirectCookies, Cookie
  <1> QED BY <1>1, <1>2, <1>3, <1>4

(***************************************************************************)
(* The invariant.  What the properties say of the last answer follows from *)
(* what its visit found in the list: no grant, no request but a cleared    *)
(* one, and no credentials but those of visits that were refused.          *)
(***************************************************************************)
\* Piece(j) for some j there may be.
PieceNames == {Piece(j) : j \in 1 .. PBC_TRANSCRED_MAX_COOKIES}

Harmless(R, c) ==
    /\ c.name # Grant
    /\ c.name = Req => c.value = Clear
    /\ c.name \in PieceNames => c.value \in R

\* Answer a is the visit's own, but for harmless cookies.
Own(R, a) ==
    /\ \A c \in a.cookies : \/ c.value = a.visit /\ c.name # Req
                            \/ Harmless(R, c)
    /\ a.redirect # "none" => \E c \in a.cookies : c.name = Grant
    /\ a.redirect = "page" => \E c \in a.cookies : c.name = Req

IInv ==
    /\ visits \in Nat
    /\ OneOfEach(cookie_list)
    /\ \A c \in cookie_list : Harmless(refused, c)
    /\ Own(refused, answer)

LEMMA StaysOwn ==
    ASSUME NEW R, NEW S, R \subseteq S
    PROVE  /\ \A c : Harmless(R, c) => Harmless(S, c)
           /\ \A a : Own(R, a) => Own(S, a)
  BY DEF Harmless, Own

\* These cookies, queued at this visit, are harmless or its own.
Mine(cookies) == \A c \in cookies : \/ c.value = This /\ c.name # Req
                                    \/ Harmless(refused, c)

LEMMA VisitsOwn ==
    ASSUME visits \in Nat
    PROVE  /\ \A c \in {} \cup Cleared(Req) \cup Cleared(Multipart) : Harmless(refused, c)
           /\ \A n \in Int : Mine(Pieces(n))
           /\ \A redirect : \A n \in Int : Mine(RedirectCookies(Pieces(n), redirect))
  <1>1. \A c \in {} \cup Cleared(Req) \cup Cleared(Multipart) : Harmless(refused, c)
    BY NamesDiffer, CountAssumption DEF Cleared, Cookie, Harmless, PieceNames
  <1>2. \A n \in Int : Mine(Pieces(n))
    BY NamesDiffer DEF Mine, Pieces, Cookie
  <1>3. \A redirect : \A n \in Int : Mine(RedirectCookies(Pieces(n), redirect))
    BY <1>1, <1>2, NamesDiffer DEF Mine, RedirectCookies, Cookie
  <1> QED BY <1>1, <1>2, <1>3

\* An answer without a grant, made of what was queued.
LEMMA QueueIsOwn ==
    ASSUME IInv, NEW cookies, Mine(cookies), NEW redirect,
           redirect # "none" => \E c \in cookies : c.name = Grant,
           redirect = "page" => \E c \in cookies : c.name = Req
    PROVE  Own(refused, [visit |-> This, redirect |-> redirect, cookies |-> Queue(cookies)])
  BY Queueing DEF IInv, Mine, Own, Queue

\* A process that has gone leaves an empty list.
LEMMA GoneOrLeft ==
    ASSUME NEW list, NEW cookies, Leaves(list, cookies)
    PROVE  cookie_list' \in {{}, list}
  BY DEF Leaves, Gone

LEMMA IInvInit == Init => IInv
  BY DEF Init, IInv, OneOfEach, Own, Nobody

LEMMA IInvNext == IInv /\ [Next]_vars => IInv'
  <1> SUFFICES ASSUME IInv, [Next]_vars PROVE IInv'
    OBVIOUS
  <1>0. visits \in Nat /\ OneOfEach({}) /\ OneOfEach(cookie_list)
    BY VisitQueues DEF IInv
  <1>1. CASE UNCHANGED vars
    BY <1>1 DEF vars, IInv
  \* No answer, and the process has gone.
  <1>2. ASSUME visits' = This, Gone, answer' = Nobody, UNCHANGED refused PROVE IInv'
    BY <1>0, <1>2 DEF IInv, Gone, This, Own, Nobody
  <1>3. ASSUME NEW cookies, Keep(cookies), OneOfEach(cookies), refused \subseteq refused',
               \A c \in cookies : Harmless(refused', c)
        PROVE  IInv'
    <2>1. visits' = This /\ cookie_list' \in {{}, Queue(cookies)}
          /\ answer' = [visit |-> This, redirect |-> "none", cookies |-> {}]
      BY <1>3, GoneOrLeft DEF Keep
    <2>2. OneOfEach(Queue(cookies)) /\ \A c \in Queue(cookies) : Harmless(refused', c)
      BY <1>3, Queueing, StaysOwn DEF IInv, Queue
    <2>3. Own(refused', answer')
      BY <2>1 DEF Own
    <2> QED BY <1>0, <2>1, <2>2, <2>3 DEF IInv, This
  <1>4. ASSUME NEW cookies, NEW redirect, Send(cookies, redirect), Mine(cookies), UNCHANGED refused,
               redirect # "none" => \E c \in cookies : c.name = Grant,
               redirect = "page" => \E c \in cookies : c.name = Req
        PROVE  IInv'
    <2>1. visits' = This /\ cookie_list' = {}
          /\ answer' = [visit |-> This, redirect |-> redirect, cookies |-> Queue(cookies)]
      BY <1>4, GoneOrLeft DEF Send, Emptied
    <2>2. Own(refused', answer')
      BY <1>4, <2>1, QueueIsOwn
    <2> QED BY <1>0, <2>1, <2>2 DEF IInv, This
  <1>5. CASE QueueClear
    BY <1>0, <1>3, <1>5, VisitQueues, VisitsOwn DEF QueueClear
  <1>6. CASE OtherPage
    BY <1>0, <1>3, <1>6 DEF OtherPage
  <1>7. ASSUME NEW mp \in BOOLEAN, notok(mp) PROVE IInv'
    BY <1>0, <1>4, <1>7, VisitsOwn DEF notok, NotokCookies, Mine
  <1>8. ASSUME NEW n \in Int, print_redirect_page(n, "page") \/ print_redirect_page(n, "relay")
        PROVE  IInv'
    <2>1. PICK redirect \in {"page", "relay"} : print_redirect_page(n, redirect)
      BY <1>8
    <2> DEFINE cookies == RedirectCookies(Pieces(n), redirect)
    <2>2. Cookie(Grant, This) \in cookies /\ (redirect = "page" => Cookie(Req, Clear) \in cookies)
      BY DEF RedirectCookies, Cleared
    <2>3. Mine(cookies)
      BY <1>0, VisitsOwn
    <2> HIDE DEF cookies
    <2>4. Cookie(Grant, This).name = Grant /\ Cookie(Req, Clear).name = Req
      BY DEF Cookie
    <2>5. Send(cookies, redirect) /\ UNCHANGED refused
      BY <2>1 DEF print_redirect_page, cookies
    <2> QED BY <1>4, <2>2, <2>3, <2>4, <2>5
  <1>9. ASSUME NEW n \in Int, getcred_overflow(n) PROVE IInv'
    <2>1. Keep(Queued(n)) /\ refused' = refused \cup {This}
      BY <1>9 DEF getcred_overflow
    <2>2. \A c \in Queued(n) : Harmless(refused', c)
      BY <2>1, NamesDiffer, CountAssumption DEF Queued, Pieces, Cookie, Harmless
    <2> QED BY <1>0, <1>3, <2>1, <2>2, VisitQueues
  <1>10. ASSUME NEW n \in Int, NEW mp \in BOOLEAN, abend(n, mp) PROVE IInv'
    <2> DEFINE cookies == Pieces(n) \cup NotokCookies(mp)
    <2>1. /\ visits' = This /\ cookie_list' = {} /\ refused' = refused
          /\ answer' = [visit |-> This, redirect |-> "none", cookies |-> Queue(cookies)]
      BY <1>10 DEF abend, Gone
    <2>2. Mine(cookies)
      BY <1>0, VisitsOwn DEF NotokCookies, Mine
    <2> HIDE DEF cookies
    <2>3. Own(refused', answer')
      BY <2>1, <2>2, QueueIsOwn
    <2> QED BY <1>0, <2>1, <2>3 DEF IInv, This
  <1>11. ASSUME NEW cookies, Crash(cookies), UNCHANGED refused PROVE IInv'
    BY <1>2, <1>11 DEF Crash
  <1>12. CASE get_query_fails
    BY <1>2, <1>12 DEF get_query_fails
  <1>13. ASSUME NEW n \in Int,
                OverflowCrash(n) \/ RedirectCrash(n, "page") \/ RedirectCrash(n, "relay")
         PROVE  IInv'
    BY <1>11, <1>13 DEF OverflowCrash, RedirectCrash, Crash
  <1>14. ASSUME NEW mp \in BOOLEAN, ClearCrash \/ NotokCrash(mp) PROVE IInv'
    BY <1>11, <1>14 DEF ClearCrash, NotokCrash, Crash
  <1>15. 0 .. MaxPieces \subseteq Int /\ TRUE \in BOOLEAN
    BY CountAssumption
  <1> QED
    BY <1>1, <1>5, <1>6, <1>7, <1>8, <1>9, <1>10, <1>12, <1>13, <1>14, <1>15 DEF Next

(***************************************************************************)
(* What follows.                                                           *)
(***************************************************************************)
\* An answer that sends the browser back gives it this visit's grant and no
\* other, and clears its request (print_redirect_page, send_app_cookies).
THEOREM OwnGrants == Spec => []GrantsAreOwn
  <1>1. IInv => GrantsAreOwn
    <2> SUFFICES ASSUME IInv PROVE GrantsAreOwn
      OBVIOUS
    <2>1. Own(refused, answer)
      BY DEF IInv
    <2>2. \A c \in answer.cookies : /\ c.name = Grant => c.value = answer.visit
                                    /\ c.name = Req => c.value = Clear
      BY <2>1 DEF Own, Harmless
    <2> QED BY <2>1, <2>2 DEF GrantsAreOwn, Given, Own
  <1> QED BY <1>1, IInvInit, IInvNext, PTL DEF Spec

\* An answer's credentials are of its own visit, or of one that was refused
\* (process_getcred).
THEOREM OwnCredentials == Spec => []CredentialsAreOwn
  <1>1. IInv => CredentialsAreOwn
    BY DEF IInv, Own, Harmless, PieceNames, CredentialsAreOwn, Given
  <1> QED BY <1>1, IInvInit, IInvNext, PTL DEF Spec

\* The list never holds two cookies of one name (add_app_cookie), so that it
\* is no longer than there are names.
THEOREM ListDoesNotFill == Spec => []OneOfEachName
  <1>1. IInv => OneOfEachName
    BY DEF IInv, OneOfEach, OneOfEachName
  <1> QED BY <1>1, IInvInit, IInvNext, PTL DEF Spec
=============================================================================
