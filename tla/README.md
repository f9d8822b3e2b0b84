# A TLA+ model of pubcookie

Pubcookie is a web single sign-on: application servers (an Apache module) send
browsers without a session to a login server (a CGI program), which authenticates
the user and sends the browser back with a *granting cookie*.  Neither side keeps
a session table.  All session state is in the cookies of the browser, so what the
system promises has to hold for every way in which windows share a cookie jar and
answers arrive late, out of order or not at all.  That is what these modules are
about.

File names without a directory are below `src/src/`.

## Inventory

| part | state | operations | talks to |
|---|---|---|---|
| Apache module, `mod_pubcookie.c` | none of its own between two requests; per-location directives (`pubcookie_dir_rec`) | `pubcookie_user_hook` → `pubcookie_user`, `set_session_cookie`, `auth_failed_handler`, `stop_the_show`, `do_end_session_redirect`; `login_reply_handler` | browser: cookies G (granting), PRE_S (pre-session), S (session), `pubcookie_g_req` |
| cookies, `libpubcookie.c` | – | make, bundle, unbundle, `libpbc_check_exp`, `libpbc_update_lastts` | called by both servers |
| login server, `index.cgi.c` | none; a static list of cookies to send per process | `cgiMain`: `get_query`, `check_logout`/`logout`, `cookie_test`/`pinit`, `vector_request`, `set_l_cookie`, `print_redirect_page` | browser: login cookie L, `pubcookie_g_req`, forms; a flavor |
| flavor basic, `flavor_basic.c` | – | `process_basic`, `print_login_page` | verifier |
| flavor uwsecurid, `flavor_uwsecurid.c` | – | `process_uwsecurid`, `ride_free_zone`, `print_login_page` | two verifiers |
| flavor getcred, `flavor_getcred.c` | – | passes stored credentials on | verifier, credential cookies |
| verifiers, `verify_*.c` | – | accept or reject a password or token code | LDAP, Kerberos, shadow, token server |
| key server, `keyserver.c` | key files by host | make, fetch, set, permit keys; `pushkey` to replicas | key clients, other key servers |
| key client, `keyclient.c` | local key file | ask for a key | key server |
| encryption, `security_legacy.c` | keys | encrypt, sign, verify | – |
| relay, `src/relay/index.cgi.c` | none | carries requests of the POST method on | login server, browser |
| configuration, `pbc_myconfig.c`, `pbc_apacheconfig.c`; templates, `ntmpl.c`; Windows filter, `Win32/` | – | parsing, printing; a second application server for IIS | – |

How a page is reached: a window asks for a location; without a good S cookie
`auth_failed_handler` answers with a page that takes the browser to the login
server, and with a granting request in a cookie (GET method, scoped to the whole
domain) or in a form (POST method).  The login server consults the L cookie,
perhaps shows a form, and answers with a G cookie and a redirect (GET), or with a
form that posts the G cookie to `login_reply_handler` (POST).  The window asks for
the location again; `pubcookie_user` trades the G cookie for an S cookie.

What is hard:

* *Shared cookies.*  G, PRE_S and the granting request are one per domain or
  server: two windows logging in overwrite each other's.
* *Answers under way.*  A server decides on the cookies a request brought; its
  Set-Cookie headers take effect when the answer arrives, perhaps after another
  window's answer, or never.
* *Sessions shared by locations* of one application with different directives.
* *Two clock readings* in a run of the login script, between which the login
  cookie may expire.
* *Login cookies renewed by another user or another flavor*, since the code reuses
  the record of the old cookie for the new one.
* *Boundaries of lifetimes*: `libpbc_check_exp` treats a cookie of exactly the
  allowed age as expired, `check_l_cookie_expire` does not.
* *Redirect loops* between the two servers.
* *What a process keeps.*  The list of cookies to send is static; under FastCGI it
  outlives the visit that filled it.
* *Key files* have no locks: runs of keyclient overlap, die between truncating a
  file and writing it, and their pushes fail unnoticed.

What makes each part correct: the module serves a page only for a user who was
granted to that application, server and kind of credentials, within the
lifetimes, under demands no weaker than the location's; ended and idle sessions
stay ended; redirects end.  The login server makes login cookies only for
verified users, of the kind that was verified, and using them does not prolong
them; demands for a recent login are met; logout lasts.  No visitor of a login
server process is handed what belongs to another.  Of the keys less can be
promised, since nobody looks at failed pushes (`keyserver.c:587`): a run that is
alone leaves its key on its client and on all the login servers but those where
its push failed, on the servers first; and no host has a key unless it, or a
domain above it, was permitted or brought in by a key management host.

## Modules

| module | models | how |
|---|---|---|
| `Credentials` | credential ids (`pbc_config.h`) | constants of both sides |
| `Cookies` | what cookies and granting requests say, where a browser keeps them, Set-Cookie headers, `check_exp` | records; a *slot* is a cookie name with its scope; headers are functions from slots to contents |
| `ModPubcookie` | the decisions of `mod_pubcookie.c` | operators: the verdict of `pubcookie_user` on a location's directives `c`, a jar and the time; the headers each handler sends |
| `AppSessions` | a browser with windows, any number of application servers, an abstract login server | state machine |
| `IndexCgi` | the decisions of `index.cgi.c`, `flavor_basic.c`, `flavor_uwsecurid.c` | operators: outcome of a visit given login cookie and time; the login cookies sent |
| `LoginSessions` | a browser with windows at the login server | state machine |
| `SingleSignOn` | both servers: `AppSessions` with the login server of `IndexCgi` in place of its abstract one | state machine, by INSTANCE of both |
| `Access` | what both servers promise together, with no cookie or window | abstract state machine, implemented by `SingleSignOn` |
| `AppCookies` | the list of cookies for the application in a login server process (`index.cgi.c`, `flavor_getcred.c`) | state machine |
| `KeyServer` | `keyserver.c`, `keyclient.c` and the key files of `libpubcookie.c` | state machine |
| `MCAppSessions`, `MCLoginSessions`, `MCSingleSignOn`, `MCKeyServer` | instances for TLC | directives, requests, certificates, symmetry |
| `AppSessionsProofs`, `AppIdleProofs` | theorems about `AppSessions` | for all constants |
| `SingleSignOnProofs` | the refinement of `AppSessions` and theorems about `SingleSignOn` | for all constants |
| `AccessProofs` | the refinement of `Access`, fresh logins and logouts of `SingleSignOn` | for all constants |
| `AppCookiesProofs` | theorems about `AppCookies` | for all constants |
| `LoginSessionsProofs` | theorems about `LoginSessions` | for all constants |
| `KeyServerProofs`, `KeyAgreementProofs` | theorems about `KeyServer` | for all constants |

### AppSessions

State: `clock`; `jar`, the cookies by slot; `tab`, for each window what it is
doing (about to request a location, sent to the login server, showing the form,
posting the answer back, waiting for an answer with its headers).  `granted`,
`active`, `ending` and `ended` are history for the properties: the granting cookies
issued, when the session of a slot was last used, and the slots whose session was
ended.  A session is `ending` when a logout is answered while the jar holds it,
and `ended` when that answer arrives, unless a new session was begun in between: a
logout that finds no session ends none.

A request is one action, because the module keeps nothing and reads the cookies
once.  The outcomes of `pubcookie_user_hook` are one action each: `EndSession`,
`do_end_session_redirect`, `OpenSession` (G traded for S), `UseSession`,
`AskLogin` (`auth_failed_handler`), `StopTheShow`, `Unauthorized`.  Which one
happens is the verdict of `pubcookie_user`, whose tests are in the code's order
where the order shows, e.g. tokens before the empty user before realms before
reauthentication before age.  All headers an outcome sends are one
`Waiting(headers, next)`; `Receive` applies them, `Lose` drops them.  An answer
without headers changes nothing on arrival, so its window moves on at once.

The user may ask for a location (`Browse`) or go to the login server by himself
(`BrowseLogin`); with the GET method the latter answers whatever request is in the
browser, with POST there is none and it shows its status page.

The login server here may grant any user at any time (`LoginGrant`), as long as
the visit brings a request; it answers *this* request, and honours quiet requests
as the flavors do.  `SingleSignOn` says for whom.

### LoginSessions

State: `clock`, the login `cookie`, `tab`; history `verified` (each successful
verification, with user, kind and time), `overtaken` (each time a login cookie
that a run of the script had found good expired before that run wrote its new
one) and `out` (the last answer received was a logout's).  A run of the script is two
steps: the flavor's decision (`LoginOK`, `RideOK`, `QuietOK`, `print_login_page`)
on the cookie and the time of then, and `IssueCookies`, which writes the cookie
with the time of up to `CgiTime` later.  `Renewed` and `set_l_cookie` keep the
code's reuse of the old cookie's record, its creds and its lifetime.  Users who
type passwords and token codes of any user in any combination are `Submit`.

### SingleSignOn

State: that of `AppSessions`, with the login `cookie` in the browser and, for each
window, `sent` (the login cookie in the answer under way to it, if any) and
`form_ts` (when its form was printed).  History: `verified`, as in
`LoginSessions`, and `gone` (the applications without a session when the sign-on
ended: a logout from one and from the login server arrived while no other window
had anything under way, and nobody was verified since).

The steps of the applications and of the browser are those of
`App == INSTANCE AppSessionsProofs`, which is `AppSessions` with its theorems, and
leave the login server's variables alone or move its cookie.  A run of the login
script for a request is one step, `Visit` or `Reply`: it takes the request that
the visit brings (`Brought`, or the form's), lets `vector_request` of `IndexCgi`
decide on the login cookie, and sends the login cookie and the granting cookie in
one answer.  `logout` clears the login cookie if the application asked for that
(`PubcookieEndSession clearLogin`).  Every one of these steps is a step of
`App!LoginGrant`, `LoginForm`, `LoginStatus` or `LoginLogout`, or leaves the
applications' variables alone: the property `AppSpec`, checked and proved.

That a run of the script is one step also means that it reads one clock.  The code
reads two (`index.cgi.c:2665`, `:1852`), and a cookie that expires between them is
written anew for a whole sign-on, as `LoginSessions` shows.  `PagesAreVerified`,
`FreshLogins` and `AccessSpec`, and their theorems, hold on the proviso that this
does not happen: they speak of a sign-on that no run of the script was overtaken
by.  Also left to `LoginSessions`: logins without an application (pinit), the
longer grace of "uwtoken30" (`Token30`), and runs with two users.

### Access

What is left of single sign-on when everything that carries it is taken away.
State: the time `now`, what people have `typed`, and the pages `served` that are
under way.  `Type` is a verification, of a password, a token code, or both;
`Serve` a page to somebody `Entitled` to it; `Done` the end of a page; `Tick` the
time.  Entitled is a user whom the location admits and who typed his password
less than `Lasts[l]` ago, and a token code less than `TokenLasts[l]` ago where the
location wants one; and nobody in particular where no prompt is wanted.

`SingleSignOn` implements it (`AccessSpec`), on the proviso just given.  The mapping: `now` is the clock, `typed`
is `verified`, `served` are the pages the windows wait for.  `Lasts` is a sign-on, a
granting cookie and a session of that location one after the other, `TokenLasts`
the same with the time a token code lasts.  Every step of a window, a server or
the user that is none of the four actions is a stutter, and a page can be served
only by a step that finds its user entitled: which login, cookie or session of
which window he got there by is nowhere in the promise.

### AppCookies

State: `cookie_list`, `cgi_count` and `overrun` of one FastCGI process; the number
of `visits` and the last `answer`; history `refused`.  A visit is one step and
one of: a login page, a logout or a refused server, which queue the clearing of
the granting request and send nothing (`QueueClear`); other pages; `notok`;
`print_redirect_page` with credentials in some pieces, straight or by way of a
relay; credentials that do not fit, which stay queued (`getcred_overflow`);
`abend`; and a request that cannot be parsed, on which the process dies.

The list is a set: a visit never queues two cookies of one name, so the order in
which `add_app_cookie` finds them changes no answer.  Each cookie carries the visit
that queued it, so that two visits that queue the same thing would make two
elements, as they would in the array.

`add_app_cookie` replaces a queued cookie of the same name and then writes its
expiry at the index behind the last one.  At the end of the array that is another
object, and in C anything may follow: `overrun` records that it happened, and
from then on, and in the visit itself, the process may die (`...Crash`).  The
other outcome is that nothing comes of it.  The expiry of cookies is left out,
except that a cleared cookie is known by its value.

What the properties say is weaker than one would wish, because the code does less:
the clearing of a request goes out with some later visitor's answer, and so do
credentials that were refused (`CredentialsAreOwn` exempts just these).

### KeyServer

State: `disk`, the files of every machine (absent, too short, or a key); `job`,
the runs of keyclient, each with the server process that answers it; `made`, the
number of keys made.  History: `admitted`, the hosts somebody on the access list
permitted or a key management host brought in, and `agreed`, for each file the
machines on which the last run, if it was alone, should have left the same copy.

The hosts on `keymgt_peers` manage the keys of other clusters, too
(`keyserver.c:601`): they begin with keys of the hosts in `Managed`, which no server
here made (`Foreign`), and may set any key they have at any of these servers.
SETKEY does not ask whether its host is permitted.  The login servers are such
peers as well, and their pushes are the steps of a run.

A job is cut where another process can see a difference or where it can die: a
file is opened (and emptied), written, read for a push, opened and written at the
other server, read again for the reply, saved by the client.  A run is `alone` if no other run for
the same host overlaps it, and the servers where it failed to write are `missed`.
Each step can fail as the code lets it: `OpenFails` and `WriteFails` of a GENKEY go on with
whatever the file holds, because `GENKEY` takes `PBC_FAIL` for success; failed
pushes are ignored; `Die` ends a run anywhere, its push going on by itself.
`pushkey` for a certificate passes no peer's name, so its keyclient only prints a
usage message (`KeyclientStarts`).

### Bounds and instances

Lifetimes are one or two instants so that cookies expire at, before and after
every test, and clocks run far enough for every lifetime, and for those that
follow each other, to end within the run.  In `app_post` a granting cookie lives
for 1 and a session for 1, at the location with the idle timer for 3; so a page
can be asked for at instant 2 with a grant of instant 0, when it would be too old
at the other locations, and a session that the timer's location keeps alive does
not keep it alive there.  In `sso_lifetimes` the clock goes to 5, for a sign-on of
3, a granting cookie and a session of 1 each, so that the first can be used up
before the next begins.  In `sso_windows` time stands still: it is about entangled
windows, and lifetimes run out in the other two.  In `login_users` and
`login_expiry` the clock may move once during a run of the script.  Two windows are
what a race needs.  One user is enough where the property compares what the cookie says with what was
granted (one `alice` and the empty user), two where users could be confused.
`MaxGrants` and `MaxVerified` bound the histories: two grants, one of each
window, or of each application; three where one window has to log in again.  One
pre-session token lets tokens collide, two lets them differ.  `app_cookies` has
six visits, two more than a process lives for, and credentials of more pieces
than fit.  `key_servers` has two servers (the code treats the others of a list
alike, one after the other), two overlapping runs, and three keys: two made by the
runs and one from elsewhere; the client is on `keymgt_peers` as well, which lets it
do what clients and what peers may.  The theorems have no bounds.

`CHECK_DEADLOCK FALSE` in every configuration: at the last instant of the clock,
with the bound on grants, visits or keys reached, the system stops by
construction, and it may be idle for ever before.

## Runs

| run | configuration | states | shows |
|---|---|---|---|
| `app_post` | quiet, idle-timed, reauthenticating and token locations with one session cookie, two windows, POST; lifetimes that end | 759k | `TypeOK`, `ServedOnlyWhenGranted`, `PromptLocationsNameUser`, `ReauthLocationsReauthenticate`, `IdleSessionsEnd` |
| `app_window` | one window, an application with idle timer and reauthentication, both kinds of logout, two pre-session tokens, fairness | 60k | `EndedSessionsStayEnded`, `NavigationEnds` |
| `login_users` | two users, two windows, passwords (at visits without an application), tokens, quiet requests, a script that takes time | 2.3M | `TypeOK`, `LoginsAreVerified` |
| `login_expiry` | demands for recent logins and for tokens of two ages, two windows, a script that takes time | 2.3M | `ReauthIsRecent`, `SignOnExpires`, `LoggedOutStaysOut` |
| `sso_windows` | both servers, two applications, one of them on two servers, two windows, GET, no time | 1.4M | `ServedOnlyWhenGranted`, `StaysLoggedOut` |
| `sso_lifetimes` | both servers, three kinds of demands, all lifetimes run out, POST | 874k | `TypeOK`, `PagesAreVerified`, `FreshLogins`, `AppSpec`, `AccessSpec` |
| `app_cookies` | one process after the other, six visits | 2.8k | `GrantsAreOwn`, `CredentialsAreOwn`, `OneOfEachName` |
| `key_servers` | two login servers, two runs at a time, a peer with keys from elsewhere, any step failing | 2.4M | `TypeOK`, `OnlyPermittedHosts`, `KeysAgree`, `ServersFirst` |

These runs show a disagreement between the code and what is written of it; each
is a finding in `PROJECT.json` with the sentence it contradicts:

| run | property violated | because |
|---|---|---|
| `app_logout_race` | `EndedSessionsStayEnded` | a refreshed session cookie arrives after the logout's answer |
| `app_reauth_off` | `ReauthLocationsReauthenticate` | "off" marks a session as if it had been reauthenticated |
| `login_quiet_token` | `QuietShowsNoForm` | uwsecurid does not look at the quiet flag |
| `key_certs` | `CertsAgree` | a certificate set at one login server is pushed with no peer named, so no other gets it |

The first two properties hold in a passing run where the cause is absent:
`EndedSessionsStayEnded` with one window, `ReauthLocationsReauthenticate` without
the "off" directive.  Some properties hold under a condition that is part of
what they show:

* `SignOnExpires` says what the code does where it reads the clock twice.  The
  flavor and `set_l_cookie` do so separately, and a cookie that expires in between
  is written anew with a full lifetime.  `overtaken` records these runs, and the
  property allows a cookie to outlast its user's last password by more than a
  sign-on only after one of them.  TLC reaches the case: without that disjunct
  `login_expiry` fails.
* `PagesAreVerified`, `FreshLogins` and `AccessSpec` have no such runs (see
  `SingleSignOn` above).
* `FreshLogins` is for locations that leave the same grace: the demand travels as a
  mark in the cookies, not as a number of seconds.  For the same reason none may
  say "off", which sets the mark too (`app_reauth_off`).
* `KeysAgree` and `ServersFirst` are about runs that are alone, whatever fails in
  them.  Two overlapping runs for one host do leave different keys, in the code as
  in the model.  A lost push leaves a server without the key, and the client is
  handed it all the same: the properties say that all the other servers have
  it, and had it first.  The next run that is alone repairs what its pushes reach, and the
  copies then stay the same until the next run.
* `ReauthLocationsReauthenticate` asks for a grant, given under the demand, that is young
  enough to be behind the page.  Which of two such grants of one application it was is
  nowhere in a session cookie.
* `StaysLoggedOut` speaks of logouts that no other window raced.

Each module with decisions holds, next to an operator, a faulty form of it
(marked "Fault"): the property that the run checks is violated when the faulty
one takes its place.  `PROJECT.json` lists the pairs.

### Fairness

`NavigationEnds` is the only liveness property.  It assumes that each server
answers (`WF` on a window's request and login steps), that an answer arrives or is
lost (`WF` on `Receive`), and that a user who is asked to log in again and again
does so (`SF` on `LoginGrant`: without it he may open the form and leave it for
ever).  Nothing is assumed of the clock.  It stops at `MaxClock`, so the property
says that redirects end once cookies no longer expire on the way; a system in
which each granting cookie is delayed beyond its lifetime does loop, and rightly.
`MaxGrants` is 40 in that run, more than there are different granting cookies, so
the bound never blocks a login.

The run has one window and one application for a reason.  Two windows can keep
overwriting each other's pre-session token and granting request, and the code
has nothing that would end this; `sso_windows` shows that no page results that
should not.

## Proofs

The theorems hold for every value of the constants: any users, locations,
directives, windows, servers, clients, hosts, lifetimes, both methods, and the
bounds (any `MaxClock`, `MaxGrants`, `MaxVerified`, `MaxKeys`).

`AppSessionsProofs` and `AppIdleProofs`, about `AppSessions`:

* `TypeCorrect`: `Spec => []TypeOK`.  The types are inductive as they stand.
* `PagesAreGranted`: `Spec => []ServedOnlyWhenGranted`.
* `NoEmptyUser`: `Spec => []PromptLocationsNameUser`.
* `ReauthDemanded`: `Spec => []ReauthLocationsReauthenticate`, if no location has
  `session_reauth = 0`, the value of the "off" directive; `app_reauth_off` shows
  that the assumption is needed.
* `IdleTimerHolds`: `Spec => IdleSessionsEnd`.
* `EndedForGood`: `Spec => EndedSessionsStayEnded`, if there is one window
  (`OneWindow`); `app_logout_race` shows what a second one can do.

The properties about pages are not inductive: a page is served on an S cookie set
long ago or still under way.  `IInv` follows a grant through every place it goes:
every G cookie, in the jar, in an answer or being posted, is one that was issued;
every S cookie, in the jar or in an answer, traces back to a grant for the same
user, server, application and credentials that was young enough when it was
traded, and made under a demand to log in if it is marked so; every page traces
back to a grant in time.  `GrantsStamped` says that no grant is of the future.
For the idle timer the invariant is `IdleInv`: wherever an S cookie is, its
`last_ts` is no later than the time its slot's session was last used.  For ended
sessions it is `EndedInv`: neither the jar nor an answer holds a cookie in the slot
of a session that ended, and an answer after which one is ended clears it.

`SingleSignOnProofs`, about both servers together:

* `ImplementsAppSessions`: `Spec => AppSpec`.  `SingleSignOn` shares the variables
  of `AppSessions`, so the refinement mapping is the identity; what has to be
  shown is that the login server's own decisions never grant what the abstract
  one would not, e.g. that `vector_request` answers without a user only where the
  request is quiet and its flavor honours that.
* `PagesAreGrantedHere`: `Spec => []ServedOnlyWhenGranted`, carried over from
  `PagesAreGranted` through the refinement.
* `PagesRestOnVerification`: `Spec => []PagesAreVerified`.  This theorem and the
  next module's `ImplementsAccess` and `DemandedLoginsAreFresh` are about runs of
  the script that read one clock.
* `TypesHold`: `Spec => []TypeOK`.

The invariant `Inv` says that every login cookie, in the browser or on its way, is
`CookieBacked` (by a password typed no longer before its expiry than
`LoginExpire`, and by a token code typed when it was made if it claims one; or it
has expired) and every grant `GrantBacked`.  `PagesAreVerified` joins it with the
invariant of `AppSessions`, which leads from a page to a grant.  The step that
needs the work is the renewal of a cookie: it takes over the expiry of the old
one, so a chain of free rides never outlives the one password it began with.

`AccessProofs`, about both servers, from the invariants above:

* `ImplementsAccess`: `Spec => AccessSpec`.  Step by step: only the login form's
  `Reply` adds to `verified`, one user's password or code of now; a step that adds a page under way adds one, and
  `Inv` of the state after it says whose and why, which makes its user entitled;
  arrivals and losses remove it.
* `LogoutHolds`: `Spec => StaysLoggedOut`.  The invariant `SignOffInv` has to say what a
  logout nobody raced leaves behind and that nothing brings a user back.  While
  `gone` is not empty (`NothingHeld`): the login cookie, in the browser or under
  way, is `Dead` (it may keep the name, but has no credentials); what is in the
  granting cookies' slots, and in the sessions' slots that are `gone`, is for nobody,
  in the jar and in every answer; and so is a grant being posted.  Quiet locations
  go on granting nobody, so that "no cookie at all" would not be inductive.
  `SentFine` is needed beside it: a login cookie is under way only with a grant
  or with a logout's page, and one that comes with such a page is dead.
* `DemandedLoginsAreFresh`: `Spec => []FreshLogins`, if the locations that demand a
  recent login leave the same grace and none says "off".  The invariant `FreshInv`
  joins three facts: the one of `AppSessions` (a page at such a location traces
  back to a grant marked so), `RequestsMade` (every granting request, in the jar or
  under way, says of its location what its directives say) and `FreshGrant` (a
  marked grant was made for somebody verified within the grace of some location
  that demands it).  That the graces are equal is used where the location of the
  page and the one of the grant differ.

`LoginSessionsProofs`, about `LoginSessions`, where the script takes time and every
window may be in the middle of a run of it:

* `TypeCorrect`: `Spec => []TypeOK`.
* `CookiesAreVerified`: `Spec => []LoginsAreVerified`.
* `DemandsAreMet`: `Spec => []ReauthIsRecent`.
* `SignOnEnds`: `Spec => []SignOnExpires`, for any `CgiTime`.  The case that needs it
  is `IssueCookies` with a cookie that expired since the decision: the run is then in
  `overtaken`, and the new cookie lasts a sign-on from there; in every other case it
  takes over the old expiry, or a password was typed within `CgiTime`.
* `LogoutLasts`: `Spec => LoggedOutStaysOut`, with an invariant of its own, `OutInv`:
  what a logout's answer carries, and what it leaves behind, is no cookie a flavor
  would take.

The invariant `Inv` has, beside `CookieBacked` for the cookie in the browser, `ScriptOK`
for every run of the script: whatever cookie it may still write, at whatever time
it comes to write it, is backed, and the demand of its request is met already.

`AppCookiesProofs`, about `AppCookies`, for any number of pieces, visits, and visits
of a process:

* `OwnGrants`: `Spec => []GrantsAreOwn`.
* `OwnCredentials`: `Spec => []CredentialsAreOwn`.
* `ListDoesNotFill`: `Spec => []OneOfEachName`.

The properties are about answers, and an answer holds what earlier visits left in
the list.  The invariant `IInv` says that this is `Harmless`: never a grant, no
request but a cleared one, no credentials but of a visit that was refused.

`KeyServerProofs` and `KeyAgreementProofs`, about `KeyServer`:

* `TypeCorrect` and `PermittedOnly` (`Spec => []OnlyPermittedHosts`); the invariant
  `PermitInv` adds that the file of a run that may write belongs to a host that is
  `Below` an admitted one.  A peer that sets a key has it from here, and then the
  host was admitted before, or from elsewhere, and then it is admitted now.
* `CopiesAgree` (`Spec => []KeysAgree`) and `ServersKnowFirst`
  (`Spec => []ServersFirst`).  The invariant is `RunOK(j)` for every run: if it is
  alone, the servers it has pushed to, but the ones it missed, hold the key that is
  on its own, and nobody else has anything to do with the file.

The proofs rest on the named assumptions of the modules they extend: `Config` has
the types of the directives, locations ask for one of the two flavors, the empty
user is no user, the value for "no cookie" is no cookie, lifetimes and bounds are
naturals (the ride-free zone not empty), servers and clients are different
machines, a missing or short file is no key.  TLC evaluates them in every run.

Only model-checked: `NavigationEnds`, since liveness is out of the prover's reach.
Every other property of a passing run is a theorem: without a condition, or
under the one that is given with it here and that the run satisfies.

## What is abstracted, and what is not modelled

* Encryption and signatures: only the addressee reads a cookie, and a cookie
  nobody made is never accepted.  Keys do not change under the cookies' feet:
  `KeyServer` and the sessions are not composed.
* Times are unbounded integers; one clock for all hosts.
* Realms are the set `accept` of users a location admits.  The message with which
  a request is refused is not.
* A verifier accepts a user's own password and token code and nothing else.
* All applications of one browser use the same method, GET or POST; a domain that
  mixes them is not modelled.
* Requests without SSL, for `favicon.ico`, subrequests, bad user agents, wrong
  protocol versions and unreadable cookies; the error pages of
  `login_reply_handler` and of `cookie_test`; the checks on the relay.
* On-demand directives (`load_keyed_directives`), merging of configurations,
  credential transfer beyond the cookies it is cut into, `PubcookieAddlRequest`,
  kiosk durations, the automatic upgrade to a token (off unless compiled in),
  saved credentials.
* `logout` without `logout_prog` and `clear_username_at_logout` keeps the user
  name in a cookie without credentials; which page it shows is left out.
* Key server: TLS and the reading of certificates (the constants `Cert` and
  `AccessList`), `NOOP`, the granting certificate.
* Configuration readers, templates, the CGI library and the support code parse and
  print.  The relay keeps nothing.  The verifiers call other systems.
* `Win32/` is a second application server, for IIS, with the headers of an OpenSSL
  of its time: more than half of the repository's lines.  The models follow the
  Apache module.

## Plan

Done: `AppSessions`, `LoginSessions`, `KeyServer`, `SingleSignOn` and `AppCookies`, the
two refinements, and a theorem for every safety and action property.  Left:

1. That `LoginSessions`, whose script takes time, implements what `SingleSignOn`
   takes a run of it to be when `CgiTime = 0`.
2. `KeyedDirectives`: directives loaded on demand, shared by requests and undone.
3. The authorisation of flavor getcred; the relay; a domain with both methods.
