----------------------------- MODULE AppCookies -----------------------------
(***************************************************************************)
(* One process of the login server, which as a FastCGI program handles one *)
(* visit after the other: the list of cookies for the application, in      *)
(* src/src/index.cgi.c, outlives the visit that fills it, and not every    *)
(* answer empties it.  A visit is one step; it is known by its number.     *)
(* Of a cookie are kept its name, its value and the visit that queued it,  *)
(* not its expiry, and of the list what is in it: no visit queues two      *)
(* cookies of one name, so that their order makes no difference.           *)
(***************************************************************************)
EXTENDS Integers

CONSTANTS
    Clear,                      \* PBC_CLEAR_COOKIE, and its expiry
    PBC_TRANSCRED_MAX_COOKIES,  \* pieces of credentials there may be
    max_cgi_count,              \* visits until the process exits, 0 for never
    MaxPieces,                  \* bound: pieces a verifier's credentials take
    MaxVisits                   \* bound: visits of a behaviour

ASSUME CountAssumption ==
    /\ PBC_TRANSCRED_MAX_COOKIES \in Nat \ {0} /\ MaxPieces \in Nat
    /\ max_cgi_count \in Nat /\ MaxVisits \in Nat /\ Clear \notin Nat

VARIABLES
    cookie_list,    \* the cookies queued
    cgi_count,      \* visits this process has seen
    overrun,        \* it has written past the end of the list
    visits,         \* visits there have been, whatever the process
    answer,         \* the last visit's answer
    refused         \* history: visits whose credentials did not fit

vars == <<cookie_list, cgi_count, overrun, visits, answer, refused>>

Grant       == [name |-> "pubcookie_g", n |-> 0]
Req         == [name |-> "pubcookie_g_req", n |-> 0]
Multipart   == [name |-> "pubcookie_formmultipart", n |-> 0]
Piece(j)    == [name |-> "transcred", n |-> j]

This == visits + 1

\* Two visits that queue the same would make two elements of the list.
Cookie(name, value) == [name |-> name, value |-> value, by |-> This]

Names(cookies) == {c.name : c \in cookies}

\* (Fault: what is queued is not looked for.)
add_app_cookie_append(list, cookies) == list \cup cookies

\* Each of these cookies replaces one of the same name.
add_app_cookie(list, cookies) == {c \in list : c.name \notin Names(cookies)} \cup cookies

\* ... and then its expiry is written behind the last of the list.
Overruns(list, cookies) == Names(cookies) \cap Names(list) # {}

Nobody == [visit |-> 0, redirect |-> "none", cookies |-> {}]

Init ==
    /\ cookie_list = {}
    /\ cgi_count = 0
    /\ overrun = FALSE
    /\ visits = 0
    /\ answer = Nobody
    /\ refused = {}

(***************************************************************************)
(* What the visits do to the list.                                         *)
(***************************************************************************)
\* The web server starts another process when one has gone.
Gone ==
    /\ cookie_list' = {}
    /\ cgi_count' = 0
    /\ overrun' = FALSE

\* Memory that was overrun may make any later use of it a crash.
Crash(cookies) ==
    /\ overrun \/ Overruns(cookie_list, cookies)
    /\ visits' = This
    /\ Gone
    /\ answer' = Nobody
    /\ UNCHANGED refused

\* The process goes on to the next visit, or exits once it has had enough.
Leaves(list, cookies) ==
    IF max_cgi_count # 0 /\ cgi_count + 1 >= max_cgi_count THEN Gone
    ELSE /\ cookie_list' = list
         /\ cgi_count' = cgi_count + 1
         /\ overrun' = (overrun \/ Overruns(cookie_list, cookies))

Queue(cookies) == add_app_cookie(cookie_list, cookies)

\* These cookies are queued, and no answer carries them yet.
Keep(cookies) ==
    /\ visits' = This
    /\ Leaves(Queue(cookies), cookies)
    /\ answer' = [visit |-> This, redirect |-> "none", cookies |-> {}]

\* (Fault: a relay's form leaves them in the list.)
EmptiedUnlessRelay(redirect, list) == IF redirect = "relay" THEN list ELSE {}

\* send_app_cookies, or the loop for a relay, and clear_app_cookies.
Emptied(redirect, list) == {}

Send(cookies, redirect) ==
    /\ visits' = This
    /\ Leaves(Emptied(redirect, Queue(cookies)), cookies)
    /\ answer' = [visit |-> This, redirect |-> redirect, cookies |-> Queue(cookies)]

(***************************************************************************)
(* The visits.                                                             *)
(***************************************************************************)
Cleared(name) == {Cookie(name, Clear)}

\* print_login_page of both flavors (need_clear_greq is always 1), logout,
\* and cookie_test for an application server nobody knows.
QueueClear == Keep(Cleared(Req)) /\ UNCHANGED refused
ClearCrash == Crash(Cleared(Req))

\* pinit_response, the status page, a logout from a relay, an error page.
OtherPage == Keep({}) /\ UNCHANGED refused

\* notok, for a browser that has the form-multipart cookie or not.
NotokCookies(mp) == IF mp THEN Cleared(Multipart) ELSE {}
notok(mp) ==
    /\ Send(NotokCookies(mp), "none")
    /\ UNCHANGED refused
NotokCrash(mp) == Crash(NotokCookies(mp))

\* What print_redirect_page queues next to these credentials.
RedirectCookies(creds, redirect) ==
    creds \cup {Cookie(Grant, This)} \cup IF redirect = "relay" THEN {} ELSE Cleared(Req)

\* process_getcred: the credentials in so many pieces (none for other flavors).
Pieces(n) == {Cookie(Piece(j), This) : j \in 1 .. n}

\* The loop queues no more than it may, and having reached the limit fails.
Fits(n) == n < PBC_TRANSCRED_MAX_COOKIES
Queued(n) == Pieces(IF Fits(n) THEN n ELSE PBC_TRANSCRED_MAX_COOKIES)

print_redirect_page(n, redirect) ==
    /\ Fits(n)
    /\ Send(RedirectCookies(Pieces(n), redirect), redirect)
    /\ UNCHANGED refused
RedirectCrash(n, redirect) ==
    Fits(n) /\ Crash(RedirectCookies(Pieces(n), redirect))

\* LOGIN_ERR: the page says that they are too large.
getcred_overflow(n) ==
    /\ ~Fits(n)
    /\ Keep(Queued(n))
    /\ refused' = refused \cup {This}
OverflowCrash(n) == ~Fits(n) /\ Crash(Queued(n))

\* abend, when no granting cookie can be made: notok, and exit.
abend(n, mp) ==
    /\ Fits(n)
    /\ visits' = This
    /\ Gone
    /\ answer' = [visit |-> This, redirect |-> "none",
                  cookies |-> Queue(Pieces(n) \cup NotokCookies(mp))]
    /\ UNCHANGED refused

\* get_query returns NULL for a granting request it cannot parse, and cgiMain
\* goes on with it.
get_query_fails ==
    /\ visits' = This
    /\ Gone
    /\ answer' = Nobody
    /\ UNCHANGED refused

Next ==
    /\ visits < MaxVisits
    /\ \/ QueueClear \/ ClearCrash
       \/ OtherPage
       \/ get_query_fails
       \/ \E mp \in BOOLEAN : notok(mp) \/ NotokCrash(mp)
       \/ \E n \in 0 .. MaxPieces :
             \/ \E mp \in BOOLEAN : abend(n, mp)
             \/ getcred_overflow(n) \/ OverflowCrash(n)
             \/ \E redirect \in {"page", "relay"} :
                   print_redirect_page(n, redirect) \/ RedirectCrash(n, redirect)

Spec == Init /\ [][Next]_vars

(***************************************************************************)
(* Properties.                                                             *)
(***************************************************************************)
Given(name) == {c.value : c \in {x \in answer.cookies : x.name = name}}

\* Whatever earlier visits left in the list, an answer that sends a browser
\* back to its application gives it this visit's grant and no other; its
\* request is done with, unless it came by way of a relay; and no answer
\* gives a browser another visit's grant.
GrantsAreOwn ==
    /\ Given(Grant) \subseteq {answer.visit}
    /\ answer.redirect # "none" => Given(Grant) = {answer.visit}
    /\ answer.redirect = "page" => Given(Req) = {Clear}

\* An answer gives a browser credentials derived at its own visit, but for
\* those that were refused because they are too many to fit.
CredentialsAreOwn ==
    \A j \in 1 .. PBC_TRANSCRED_MAX_COOKIES :
        Given(Piece(j)) \subseteq {answer.visit} \cup refused

\* However many visits leave their cookies behind, the list holds one of
\* each name, so that a long-lived process does not fill up with them.
OneOfEachName == \A c, d \in cookie_list : c.name = d.name => c = d
=============================================================================
