------------------------------ MODULE IndexCgi ------------------------------
(***************************************************************************)
(* The login server, src/src/index.cgi.c and the flavors basic and         *)
(* uwsecurid, as operators: what one run of the script makes of a visit,   *)
(* given the login cookie that came with it and the time.                  *)
(*   v    the visit (get_query), c the login cookie or Nothing             *)
(***************************************************************************)
EXTENDS Credentials

CONSTANTS
    Users,              \* user names a verifier can authenticate
    NoUser,             \* no user name, or one nobody can authenticate as
    Nothing,            \* no login cookie
    LoginExpire,        \* default_l_expire
    FormExpire,         \* form_expire_time
    MinRideFree,        \* MIN_RIDE_FREE
    RideFree,           \* RIDE_FREE_TIME
    Token30,            \* UWTOKEN30_TIME
    BasicAlsoAccepts    \* basic_also_accepts, a credential id

ASSUME LoginUserAssumption == NoUser \notin Users
ASSUME DurationAssumption ==
    /\ LoginExpire \in Nat /\ FormExpire \in Nat /\ RideFree \in Nat
    /\ MinRideFree \in Nat \ {0} /\ Token30 \in Nat \ {0}
    /\ BasicAlsoAccepts \in Nat

\* What an application asked for; token30 if its id is "uwtoken30".
LoginRequest ==
    [ creds : {PBC_BASIC_CRED_ID, PBC_UWSECURID_CRED_ID}, session_reauth : Nat,
      quiet : BOOLEAN, token30 : BOOLEAN ]

\* A visit: a request, or the reply to the form printed at form_ts, with
\* the user typed and those whose password and token code these are.
Visit ==
    [ req : LoginRequest, pinit : BOOLEAN, reply : BOOLEAN, form_ts : Time,
      user : Users \cup {NoUser}, pass : Users \cup {NoUser}, pass2 : Users \cup {NoUser} ]

LoginCookie ==
    [ user : Users \cup {NoUser}, creds : {PBC_CREDS_NONE, PBC_BASIC_CRED_ID, PBC_UWSECURID_CRED_ID},
      create_ts : Time, expire_ts : Time ]

check_l_cookie_expire(c, now) == c # Nothing /\ now <= c.expire_ts

\* check_l_cookie returns no error.
CookieHolds(c, now) == check_l_cookie_expire(c, now) /\ c.creds # PBC_CREDS_NONE

\* The user of the visit by the time a flavor sees it: a cookie that holds
\* goes before the name typed, and any cookie fills in for a missing one.
LoginUser(v, c, now) ==
    IF CookieHolds(c, now) \/ (v.user = NoUser /\ c # Nothing) THEN c.user ELSE v.user

\* A verifier accepts the password of the user, and of nobody else.
PasswordRight(v, c, now) == v.pass # NoUser /\ v.pass = LoginUser(v, c, now)
TokenRight(v, c, now)    == v.pass2 # NoUser /\ v.pass2 = LoginUser(v, c, now)

(***************************************************************************)
(* process_basic                                                           *)
(***************************************************************************)
BasicLogin(v, c, now) ==
    v.reply /\ now <= v.form_ts + FormExpire /\ PasswordRight(v, c, now)

\* The grace within which a demand to log in again is taken as met.
Grace(r) == IF r > 0 /\ r < MinRideFree THEN MinRideFree ELSE r

\* (Fault: no login is demanded again.)
BasicRideNoReauth(v, c, now) ==
    /\ ~v.reply /\ ~v.pinit
    /\ CookieHolds(c, now)
    /\ c.creds \in {PBC_BASIC_CRED_ID, BasicAlsoAccepts}

BasicRide(v, c, now) ==
    /\ ~v.reply /\ ~v.pinit
    /\ CookieHolds(c, now)
    /\ c.creds \in {PBC_BASIC_CRED_ID, BasicAlsoAccepts}
    /\ v.req.session_reauth # 0 => c.create_ts + Grace(v.req.session_reauth) >= now

(***************************************************************************)
(* process_uwsecurid                                                       *)
(***************************************************************************)
\* ride_free_zone: a recent login stands in for the password.
ride_free_zone(c, now) == CookieHolds(c, now) /\ now <= c.create_ts + RideFree

\* The token code is only looked at once the password is settled.
TokenAsked(v, c, now) == v.reply /\ (ride_free_zone(c, now) \/ PasswordRight(v, c, now))

SecuridLogin(v, c, now) == TokenAsked(v, c, now) /\ TokenRight(v, c, now)

\* (Fault: a sign-on of any kind will do.)
SecuridRideAnyCreds(v, c, now) ==
    /\ ~v.reply
    /\ CookieHolds(c, now)
    /\ now < c.create_ts + (IF v.req.token30 THEN Token30 ELSE MinRideFree)

SecuridRide(v, c, now) ==
    /\ ~v.reply
    /\ CookieHolds(c, now)
    /\ c.creds = PBC_UWSECURID_CRED_ID
    /\ now < c.create_ts + (IF v.req.token30 THEN Token30 ELSE MinRideFree)

(***************************************************************************)
(* vector_request: the outcome of the flavor asked for.                    *)
(***************************************************************************)
IsBasic(v) == v.req.creds = PBC_BASIC_CRED_ID

\* (Fault: nobody looks whether a login page is wanted.)
vector_requestPrompt(v, c, now) ==
    IF IF IsBasic(v) THEN BasicLogin(v, c, now) ELSE SecuridLogin(v, c, now) THEN "login"
    ELSE IF IF IsBasic(v) THEN BasicRide(v, c, now) ELSE SecuridRide(v, c, now) THEN "ride"
    ELSE "page"

vector_request(v, c, now) ==
    IF IF IsBasic(v) THEN BasicLogin(v, c, now) ELSE SecuridLogin(v, c, now) THEN "login"
    ELSE IF IF IsBasic(v) THEN BasicRide(v, c, now) ELSE SecuridRide(v, c, now) THEN "ride"
    ELSE IF IsBasic(v) /\ v.req.quiet THEN "quiet"
    ELSE "page"

\* What has been checked against the user's password and token meanwhile.
PasswordChecked(v, c, now) ==
    /\ v.reply /\ PasswordRight(v, c, now)
    /\ IsBasic(v) => now <= v.form_ts + FormExpire
TokenChecked(v, c, now) == ~IsBasic(v) /\ SecuridLogin(v, c, now)

\* (Fault: the time is not renewed.)
RenewedSameTime(v, c, now) ==
    IF c = Nothing THEN Nothing
    ELSE [c EXCEPT !.creds = IF IsBasic(v) /\ @ = PBC_UWSECURID_CRED_ID
                             THEN PBC_BASIC_CRED_ID ELSE @]

\* The cookie record after a login: new, and no longer of a token's worth
\* if only a password was given.
Renewed(v, c, now) ==
    IF c = Nothing THEN Nothing
    ELSE [c EXCEPT !.create_ts = now,
                   !.creds = IF IsBasic(v) /\ @ = PBC_UWSECURID_CRED_ID
                             THEN PBC_BASIC_CRED_ID ELSE @]

(***************************************************************************)
(* The login cookies the script sends; "at" is when it does.               *)
(***************************************************************************)
\* (Fault: every use prolongs the session.)
LaterExpireAlways(c, at) == at + LoginExpire

LaterExpire(c, at) ==
    IF c = Nothing \/ c.expire_ts < at THEN at + LoginExpire ELSE c.expire_ts

\* (Fault: creds taken for flags.)
set_l_cookie_sum(user, creds, c, at) ==
    [ user |-> user,
      creds |-> IF c # Nothing THEN c.creds + creds ELSE creds,
      create_ts |-> IF c = Nothing THEN at ELSE c.create_ts,
      expire_ts |-> LaterExpire(c, at) ]

set_l_cookie(user, creds, c, at) ==
    [ user |-> user,
      creds |-> IF c # Nothing /\ c.creds > creds THEN c.creds ELSE creds,
      create_ts |-> IF c = Nothing THEN at ELSE c.create_ts,
      expire_ts |-> LaterExpire(c, at) ]

\* (Fault: it keeps its creds.)
expire_login_cookie_creds(user, at) ==
    [ user |-> user, creds |-> PBC_BASIC_CRED_ID, create_ts |-> at, expire_ts |-> at ]

\* The cookie that only remembers the user's name (of the login cookie; or
\* else of the request, but a logout's has none, and then it is "unknown").
expire_login_cookie(user, at) ==
    [ user |-> user, creds |-> PBC_CREDS_NONE, create_ts |-> at, expire_ts |-> at ]
=============================================================================
