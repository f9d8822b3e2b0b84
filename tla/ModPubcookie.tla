---------------------------- MODULE ModPubcookie ----------------------------
(***************************************************************************)
(* The handlers of the Apache module, src/src/mod_pubcookie.c, as          *)
(* operators: what a request for a location gets for an answer, given the  *)
(* cookies it carries and the time.  The module keeps nothing between two  *)
(* requests; all its state is in the browser.                              *)
(*   c    the directory configuration of the requested location            *)
(*   jar  the cookies of the browser that makes the request                *)
(*   now  pbc_time()                                                       *)
(***************************************************************************)
EXTENDS Cookies

\* check_end_session: some form of PubcookieEndSession is in force.
EndsSession(c)  == c.end_session # "off"
\* ... and the user is to be shown the login server's logout page.
RedirectsLogout(c) == c.end_session \in {"redirect", "clearLogin"}

(***************************************************************************)
(* pubcookie_user                                                          *)
(***************************************************************************)
\* The GET method looks at a granting cookie only next to a pre-session one.
SeesGrant(c, jar) ==
    /\ jar[GSlot(c.srv)] # Nothing
    /\ UsePost \/ jar[PreSlot(c.srv)] # Nothing

\* Unbundling fails for a granting cookie encrypted for another server.
ForeignGrant(c, jar) == SeesGrant(c, jar) /\ jar[GSlot(c.srv)].srv # c.srv

\* A granting cookie for this server and this application.
HasGrant(c, jar) ==
    /\ SeesGrant(c, jar)
    /\ jar[GSlot(c.srv)].srv = c.srv
    /\ jar[GSlot(c.srv)].appid = c.appid

\* (Fault: the application is not compared.)
SameIdentityAnyApp(c, cookie) == cookie.srv = c.srv /\ cookie.creds = c.creds

\* The checks both kinds of cookies go through last.
SameIdentity(c, cookie) ==
    /\ cookie.appid = c.appid
    /\ cookie.srv = c.srv
    /\ cookie.creds = c.creds

\* (Fault: a demand to log in again is not checked.)
GrantVerdictNoReauth(c, g, pre, now) ==
    IF ~UsePost /\ g.tok # pre                            THEN "redirect"
    ELSE IF g.user = NoUser /\ ~c.noprompt                THEN "stop"
    ELSE IF g.user # NoUser /\ g.user \notin c.accept     THEN "unauthorized"
    ELSE IF check_exp(g.create_ts, GrantingExpire, now) /\ SameIdentity(c, g)
                                                          THEN "grant"
    ELSE "redirect"

\* A granting cookie that answers this request, still young enough.
GrantVerdict(c, g, pre, now) ==
    IF ~UsePost /\ g.tok # pre                            THEN "redirect"
    ELSE IF g.user = NoUser /\ ~c.noprompt                THEN "stop"
    ELSE IF g.user # NoUser /\ g.user \notin c.accept     THEN "unauthorized"
    ELSE IF c.session_reauth > 0 /\ ~g.reauth             THEN "stop"
    ELSE IF check_exp(g.create_ts, GrantingExpire, now) /\ SameIdentity(c, g)
                                                          THEN "grant"
    ELSE "redirect"

\* (Fault: the empty user goes everywhere.)
LiveSessionAnyUser(c, s, now) ==
    /\ SameIdentity(c, s)
    /\ check_exp(s.create_ts, c.hard_exp, now)
    /\ c.inact_exp # -1 => check_exp(s.last_ts, c.inact_exp, now)
    /\ ~(c.session_reauth >= 0 /\ s.tok = NoReauthMark)

\* A session cookie that is neither too old nor idle too long, and made
\* under directives as strict as those of this location.
LiveSession(c, s, now) ==
    /\ SameIdentity(c, s)
    /\ check_exp(s.create_ts, c.hard_exp, now)
    /\ c.inact_exp # -1 => check_exp(s.last_ts, c.inact_exp, now)
    /\ ~(c.session_reauth >= 0 /\ s.tok = NoReauthMark)
    /\ s.user = NoUser => c.noprompt

SessionVerdict(c, s, now) ==
    IF s = Nothing                  THEN "redirect"
    ELSE IF s.user \notin c.accept  THEN "unauthorized"
    ELSE IF LiveSession(c, s, now)  THEN "session"
    ELSE "redirect"

\* What is checked as a session cookie.  When there is none, cookie_data
\* still holds a granting cookie for another application of this server.
SessionData(c, jar) ==
    IF jar[SSlot(c.srv, c.sname)] # Nothing THEN jar[SSlot(c.srv, c.sname)]
    ELSE IF SeesGrant(c, jar) /\ ~ForeignGrant(c, jar) THEN jar[GSlot(c.srv)]
    ELSE Nothing

pubcookie_user(c, jar, now) ==
    IF HasGrant(c, jar)
    THEN GrantVerdict(c, jar[GSlot(c.srv)], jar[PreSlot(c.srv)], now)
    ELSE SessionVerdict(c, SessionData(c, jar), now)

\* The cookies pubcookie_user has cleared by the time it returns.
GrantHeaders(c, jar) ==
    ClearCookies(NoHeaders,
        IF HasGrant(c, jar) THEN {GSlot(c.srv)} \cup (IF UsePost THEN {} ELSE {PreSlot(c.srv)})
        ELSE IF ForeignGrant(c, jar) THEN {GSlot(c.srv)}
        ELSE {})

(***************************************************************************)
(* What pubcookie_user_hook does with the verdict.                         *)
(***************************************************************************)
\* (Fault: the session cookie stays.)
ClearAllButSession(headers, c) ==
    ClearCookies(headers, {GSlot(c.srv), PreSlot(c.srv)})

ClearAll(headers, c) ==
    ClearCookies(headers, {GSlot(c.srv), PreSlot(c.srv), SSlot(c.srv, c.sname)})

\* (Fault: the pre-session token is carried on.)
NewSessionSameToken(c, g, now) ==
    [ user |-> g.user, srv |-> c.srv, appid |-> c.appid, creds |-> c.creds,
      tok |-> g.tok, create_ts |-> now, last_ts |-> now ]

\* set_session_cookie, the first time: a new cookie for the user granted.
NewSession(c, g, now) ==
    [ user |-> g.user, srv |-> c.srv, appid |-> c.appid, creds |-> c.creds,
      tok |-> IF c.session_reauth < 0 THEN NoReauthMark ELSE ReauthMark,
      create_ts |-> now, last_ts |-> now ]

\* (Fault: the time it was made is renewed, too.)
TouchSessionRenewed(s, now) == [s EXCEPT !.create_ts = now, !.last_ts = now]

\* libpbc_update_lastts: the old cookie with a new time of last use.
TouchSession(s, now) == [s EXCEPT !.last_ts = now]

\* auth_failed_handler: what is asked of the login server.
MakeRequest(c, l, tok) ==
    [ srv |-> c.srv, appid |-> c.appid, creds |-> c.creds, uri |-> l,
      session_reauth |-> IF c.session_reauth = -1 THEN 0 ELSE c.session_reauth,
      quiet |-> c.noprompt, tok |-> tok ]

\* (Fault: no pre-session cookie.)
RequestHeadersNoPre(headers, c, l, tok) ==
    IF UsePost THEN headers ELSE SetCookie(headers, ReqSlot, MakeRequest(c, l, tok))

\* ... and the headers that carry it, if the method is GET.
RequestHeaders(headers, c, l, tok) ==
    IF UsePost THEN headers
    ELSE SetCookie(SetCookie(headers, PreSlot(c.srv), tok), ReqSlot, MakeRequest(c, l, tok))
=============================================================================
