----------------------------- MODULE UISession -----------------------------
(***************************************************************************)
(* Sign-in to the web UI: the gate in front of every page, the login,      *)
(* callback and logout routes (internal/ui/auth.go), the ui_sessions table *)
(* (internal/store/session.go) and the OpenID Connect client               *)
(* (internal/auth/oidc/oidc.go).  Each HTTP request runs on its own        *)
(* goroutine and carries a copy of the session row it read across calls to *)
(* the provider; requests of one browser overlap, and a browser may leave, *)
(* which cancels the context of its request.                               *)
(*                                                                         *)
(* A browser stands for its user and for the user's account at the         *)
(* provider.  The provider is external: it issues a code to an enabled     *)
(* account, accepts a code once, honours the tokens of enabled accounts,   *)
(* and gives access tokens without an expiry, or with one and no refresh   *)
(* token, a refresh token for good, or a new one at every refresh.         *)
(***************************************************************************)
EXTENDS Naturals, FiniteSets

CONSTANTS
    Browsers,           \* browsers, each with its user
    Users,              \* browsers whose user signs in; others may open any URL
    Requests,           \* requests that can be under way at one time
    Flows,              \* login attempts: a state and its nonce
    Sids,               \* session identifiers
    None,               \* no flow, session or request
    Windows,            \* values of revalidate_interval that are tried
    TokenModes,         \* what providers do about tokens
    SessionTTL,         \* hard lifetime of a session
    pendingFlowTTL,     \* lifetime of a login attempt
    TokenLife,          \* lifetime of an access token
    Patience,           \* longest time a request takes
    MaxClock,           \* bound on the clock
    MaxFaults           \* bound on outages, failed calls, cancels, restarts

ASSUME SessionAssumption ==
    /\ None \notin Flows \cup Sids \cup Requests \cup Browsers
    /\ Users \subseteq Browsers /\ Windows \subseteq Nat
    /\ TokenModes \subseteq {"eternal", "none", "fixed", "rotating"}
    /\ SessionTTL \in Nat \ {0} /\ pendingFlowTTL \in Nat /\ TokenLife \in Nat
    /\ Patience \in Nat /\ MaxClock \in Nat /\ MaxFaults \in Nat

\* What the program and the history keep of a session.
Rows == [gen : Nat, expiry : Nat \cup {None}, last : Nat, exp : Nat]
Origins == [user : Browsers \cup {None}, flow : Flows, at : Browsers \cup {None},
            made : Nat]

ASSUME NoneAssumption == None \notin Nat \cup Rows \cup Origins

VARIABLES
    clock,
    window,             \* RevalidateInterval in the configuration
    mode,               \* the provider's way with tokens
    up,                 \* the provider can be reached
    offAt,              \* offAt[b]: when b's account was disabled, or None
    codes,              \* flows with a code that was issued and not yet spent
    grant,              \* grant[s]: the refresh token the provider accepts
    discovered,         \* Authenticator.provider is set
    pending,            \* pending[f]: expiry of the entry in authGate.pending
    begun,              \* begun[f]: the browser that started the attempt
    sent,               \* flows whose authorize URL reached the browser
    row,                \* row[s]: the row in ui_sessions, or None
    stateCookie,        \* stateCookie[b]: wanderer_oidc_state
    sessionCookie,      \* sessionCookie[b]: wanderer_session
    req,                \* req[r]: what the goroutine of r holds
    faults,             \* outages, failed calls, cancels and restarts so far
    origin,             \* history: origin[s], how s came to be
    gone,               \* history: sessions whose row was deleted
    refused,            \* history: sessions deleted by a failed revalidation
    shared              \* history: sessions two requests revalidated at once

providerVars == <<mode, up, offAt, codes, grant>>
loginVars == <<pending, begun, sent>>
historyVars == <<origin, gone, refused, shared>>
storeVars == <<row, historyVars>>
cookieVars == <<stateCookie, sessionCookie>>
vars == <<clock, window, providerVars, discovered, loginVars, storeVars,
          cookieVars, req, faults>>

Busy == {"revalidate", "userinfo", "save", "drop", "exchange"}
Done == {"idle", "page"}

\* What the goroutine of a request keeps.
Copies == [pc : Busy \cup Done, who : Browsers \cup {None},
           sid : Sids \cup {None}, flow : Flows \cup {None},
           code : Flows \cup {None}, gen : Nat, expiry : Nat \cup {None},
           live : BOOLEAN, began : Nat, off : BOOLEAN]

\* A request slot that is free; answers no property is about end here too.
NoRequest == [pc |-> "idle", who |-> None, sid |-> None,
              flow |-> None, code |-> None, gen |-> 0, expiry |-> 0,
              live |-> TRUE, began |-> 0, off |-> FALSE]

Init ==
    /\ clock = 0 /\ window \in Windows
    /\ mode \in TokenModes /\ up = TRUE
    /\ offAt = [b \in Browsers |-> None]
    /\ codes = {} /\ grant = [s \in Sids |-> 0]
    /\ discovered = FALSE
    /\ pending = [f \in Flows |-> None]
    /\ begun = [f \in Flows |-> None] /\ sent = {}
    /\ row = [s \in Sids |-> None]
    /\ stateCookie = [b \in Browsers |-> None]
    /\ sessionCookie = [b \in Browsers |-> None]
    /\ req = [r \in Requests |-> NoRequest]
    /\ faults = 0
    /\ origin = [s \in Sids |-> None] /\ gone = {} /\ refused = {}
    /\ shared = {}

----------------------------------------------------------------------------
(* The gate.                                                               *)

\* The account a session was made for, and whether it is enabled.
UserOf(s) == origin[s].user
Enabled(s) == offAt[UserOf(s)] = None

\* The middleware serves the page to a request with a valid session, and to
\* one with valid Basic credentials; any other is sent to the login.
Opened(q) == [NoRequest EXCEPT !.pc = "page", !.sid = q.sid, !.off = q.off]
WithoutSession == {[NoRequest EXCEPT !.pc = "page"], NoRequest}

\* An answer reaches the browser while it waits for it.
Answered(q, cookie, value) ==
    IF q.live THEN [cookie EXCEPT ![q.who] = value] ELSE cookie

\* GetSession finds no row, or one past its hard expiry.
SessionAbsent(s) == row[s] = None \/ clock > row[s].exp

\* GetSession's lazy deletion of an expired row.
GetSession(s) ==
    IF SessionAbsent(s) /\ row[s] # None
    THEN row' = [row EXCEPT ![s] = None] /\ gone' = gone \cup {s}
    ELSE UNCHANGED <<row, gone>>

\* The gate of a page, up to the first call to the provider: no cookie, a
\* cookie without a session, a store that does not answer, a session that was
\* checked recently, and one that has to be checked again.
Page(r, b) ==
    LET s == sessionCookie[b]
        q == [NoRequest EXCEPT !.who = b, !.sid = s,
                               !.began = clock,
                               !.off = s # None /\ row[s] # None /\ ~Enabled(s)]
    IN  /\ req[r].pc = "idle"
        /\ \/ /\ s = None
              /\ \E a \in WithoutSession : req' = [req EXCEPT ![r] = a]
              /\ UNCHANGED <<row, gone, sessionCookie, shared, faults>>
           \/ /\ s # None /\ SessionAbsent(s)
              /\ GetSession(s) /\ UNCHANGED faults
              /\ sessionCookie' = [sessionCookie EXCEPT ![b] = None]
              /\ \E a \in WithoutSession : req' = [req EXCEPT ![r] = a]
              /\ UNCHANGED shared
           \/ /\ s # None /\ faults < MaxFaults /\ faults' = faults + 1
              /\ sessionCookie' = [sessionCookie EXCEPT ![b] = None]
              /\ \E a \in WithoutSession : req' = [req EXCEPT ![r] = a]
              /\ UNCHANGED <<row, gone, shared>>
           \/ /\ s # None /\ ~SessionAbsent(s)
              /\ req' = [req EXCEPT ![r] =
                   IF clock - row[s].last < window
                   THEN Opened(q)
                   ELSE [q EXCEPT !.pc = "revalidate", !.gen = row[s].gen,
                                  !.expiry = row[s].expiry]]
              /\ shared' = IF \E o \in Requests \ {r} :
                                 req[o].pc \in Busy /\ req[o].sid = s
                           THEN shared \cup {s} ELSE shared
              /\ UNCHANGED <<row, gone, sessionCookie, faults>>
        /\ UNCHANGED <<clock, window, providerVars, discovered, loginVars,
                       refused, origin, stateCookie>>

\* The page has been written and the goroutine ends.
Served(r) ==
    /\ req[r].pc = "page"
    /\ req' = [req EXCEPT ![r] = NoRequest]
    /\ UNCHANGED <<clock, window, providerVars, discovered, loginVars, storeVars,
                   cookieVars, faults>>

\* A call to the provider gets through.
Reaches(q) == up /\ q.live

\* The expiry of an access token the provider issues now (NULL in the row when
\* there is none).
NewExpiry == IF mode = "eternal" THEN None ELSE clock + TokenLife

\* The access token of the copy is past its expiry.
TokenExpired(q) == q.expiry # None /\ clock >= q.expiry

\* The provider honours the refresh token of the copy.
Honoured(q) == mode \in {"fixed", "rotating"} /\ q.gen = grant[q.sid] /\ Enabled(q.sid)

\* Mutant: an expired access token fails the check instead of being refreshed.
RefreshNever(r) ==
    /\ req[r].pc = "revalidate"
    /\ discovered' = (discovered \/ Reaches(req[r]))
    /\ req' = [req EXCEPT ![r].pc =
                  IF discovered' /\ ~TokenExpired(req[r]) THEN "userinfo" ELSE "drop"]
    /\ UNCHANGED <<clock, window, mode, up, offAt, codes, grant, loginVars,
                   storeVars, cookieVars, faults>>

\* ensureReady: discovery on first use, under a mutex; a failure is not kept,
\* so it fails this request alone, and the next one asks again.
Ready(q) == discovered \/ Reaches(q)
ensureReady(q) == discovered' = Ready(q)

\* Revalidate: the copy's access token is still good, or is refreshed; the
\* provider may have refreshed it although its answer is lost.
Refresh(r) ==
    LET q == req[r]
        next == IF mode = "rotating" THEN q.gen + 1 ELSE q.gen
    IN  /\ q.pc = "revalidate"
        /\ ensureReady(q)
        /\ \/ /\ Ready(q) /\ ~TokenExpired(q)
              /\ req' = [req EXCEPT ![r].pc = "userinfo"]
              /\ UNCHANGED <<grant, faults>>
           \/ /\ TokenExpired(q) /\ Reaches(q) /\ Honoured(q)
              /\ grant' = [grant EXCEPT ![q.sid] = next]
              /\ \/ /\ req' = [req EXCEPT ![r].pc = "userinfo", ![r].gen = next,
                                          ![r].expiry = NewExpiry]
                    /\ UNCHANGED faults
                 \/ /\ faults < MaxFaults /\ faults' = faults + 1
                    /\ req' = [req EXCEPT ![r].pc = "drop"]
           \/ /\ ~Ready(q) \/ (TokenExpired(q) /\ ~(Reaches(q) /\ Honoured(q)))
              /\ req' = [req EXCEPT ![r].pc = "drop"]
              /\ UNCHANGED <<grant, faults>>
        /\ UNCHANGED <<clock, window, mode, up, offAt, codes, loginVars,
                       storeVars, cookieVars>>

\* Mutant: a token that has not expired is trusted without asking.
UserinfoSkipped(r) ==
    /\ req[r].pc = "userinfo"
    /\ req' = [req EXCEPT ![r].pc = "save"]
    /\ UNCHANGED <<clock, window, providerVars, discovered, loginVars,
                   storeVars, cookieVars, faults>>

\* Revalidate: the userinfo call with the token at hand.
Userinfo(r) ==
    LET q == req[r]
    IN  /\ q.pc = "userinfo"
        /\ req' = [req EXCEPT ![r].pc =
                      IF Reaches(q) /\ Enabled(q.sid)
                      THEN "save" ELSE "drop"]
        /\ UNCHANGED <<clock, window, providerVars, discovered, loginVars,
                       storeVars, cookieVars, faults>>

\* Mutant: the row is written whole (INSERT OR REPLACE).
RefreshSessionUpserts(q) ==
    IF q.live
    THEN row' = [row EXCEPT ![q.sid] =
            [gen |-> q.gen, expiry |-> q.expiry, last |-> clock,
             exp |-> origin[q.sid].made + SessionTTL]]
    ELSE UNCHANGED row

\* Mutant: every revalidation starts the lifetime again.
RefreshSessionSlides(q) ==
    IF q.live /\ row[q.sid] # None
    THEN row' = [row EXCEPT ![q.sid] =
            [gen |-> q.gen, expiry |-> q.expiry, last |-> clock,
             exp |-> clock + SessionTTL]]
    ELSE UNCHANGED row

\* RefreshSession: an UPDATE, which finds no row when the session was deleted
\* meanwhile, and whose error (a cancelled context) is ignored.
RefreshSession(q) ==
    IF q.live /\ row[q.sid] # None
    THEN row' = [row EXCEPT ![q.sid].gen = q.gen, ![q.sid].expiry = q.expiry,
                            ![q.sid].last = clock]
    ELSE UNCHANGED row

Save(r) ==
    /\ req[r].pc = "save"
    /\ RefreshSession(req[r])
    /\ req' = [req EXCEPT ![r] = Opened(@)]
    /\ UNCHANGED <<clock, window, providerVars, discovered, loginVars,
                   historyVars, cookieVars, faults>>

\* A failed revalidation: DeleteSession, whose error is ignored as well, the
\* cookie cleared, and the request treated as one without a session.
Drop(r) ==
    LET q == req[r]
    IN  /\ q.pc = "drop"
        /\ IF q.live
           THEN /\ row' = [row EXCEPT ![q.sid] = None]
                /\ gone' = gone \cup {q.sid}
                /\ refused' = IF row[q.sid] # None THEN refused \cup {q.sid}
                                                   ELSE refused
           ELSE UNCHANGED <<row, gone, refused>>
        /\ sessionCookie' = Answered(q, sessionCookie, None)
        /\ \E a \in WithoutSession : req' = [req EXCEPT ![r] = a]
        /\ UNCHANGED <<clock, window, providerVars, discovered, loginVars,
                       origin, shared, stateCookie, faults>>

----------------------------------------------------------------------------
(* Login, callback and logout.                                             *)

\* putPending sweeps what has expired and adds the new attempt.
putPending(f) ==
    pending' = [g \in Flows |->
        IF g = f THEN clock + pendingFlowTTL
        ELSE IF pending[g] # None /\ clock > pending[g] THEN None
        ELSE pending[g]]

\* loginHandler and AuthCodeURL: the state cookie travels with the redirect to
\* the provider, and with the 503 when discovery fails.
loginHandler(b, f) ==
    /\ begun[f] = None
    /\ putPending(f)
    /\ begun' = [begun EXCEPT ![f] = b]
    /\ stateCookie' = [stateCookie EXCEPT ![b] = f]
    /\ discovered' = (discovered \/ up)
    /\ sent' = IF discovered \/ up THEN sent \cup {f} ELSE sent
    /\ UNCHANGED <<clock, window, providerVars, storeVars, sessionCookie, req,
                   faults>>

\* The user signs in at the provider, which issues a code and redirects to
\* the callback; going back and signing in again yields another code.
SignIn(f) ==
    /\ f \in sent /\ f \notin codes /\ up /\ offAt[begun[f]] = None
    /\ codes' = codes \cup {f}
    /\ UNCHANGED <<clock, window, mode, up, offAt, grant, discovered, loginVars,
                   storeVars, cookieVars, req, faults>>

\* Mutant: the entry is read and left for the sweep.
takePendingKeeps(f) == UNCHANGED pending

\* takePending removes the entry and tells whether it was still valid.
takePending(f) == pending' = [pending EXCEPT ![f] = None]
PendingValid(f) == pending[f] # None /\ clock <= pending[f]

\* callbackHandler up to the exchange: the state of the URL must be the one
\* pinned to the browser and the attempt must be pending; from then on the
\* attempt is used up.
callbackHandler(r, b, f, code) ==
    LET q == [NoRequest EXCEPT !.who = b, !.flow = f, !.code = code,
                               !.began = clock]
    IN  /\ req[r].pc = "idle"
        /\ IF stateCookie[b] # f \/ ~PendingValid(f)
           THEN /\ IF stateCookie[b] = f THEN takePending(f) ELSE UNCHANGED pending
                /\ req' = [req EXCEPT ![r] = NoRequest]
                /\ UNCHANGED stateCookie
           ELSE /\ takePending(f)
                /\ IF code = None
                   THEN /\ stateCookie' = [stateCookie EXCEPT ![b] = None]
                        /\ req' = [req EXCEPT ![r] = NoRequest]
                   ELSE /\ req' = [req EXCEPT ![r] = [q EXCEPT !.pc = "exchange"]]
                        /\ UNCHANGED stateCookie
        /\ UNCHANGED <<clock, window, providerVars, discovered, begun, sent,
                       storeVars, sessionCookie, faults>>

\* CreateSession and the session cookie.
CreateSession(q, s) ==
    /\ origin[s] = None
    /\ row' = [row EXCEPT ![s] = [gen |-> 0, expiry |-> NewExpiry,
                                  last |-> clock, exp |-> clock + SessionTTL]]
    /\ origin' = [origin EXCEPT ![s] = [user |-> begun[q.code], flow |-> q.flow,
                                        at |-> q.who, made |-> clock]]
    /\ sessionCookie' = [sessionCookie EXCEPT ![q.who] = s]

\* Exchange: the provider takes a code once and from an enabled account, and
\* the ID token must carry the nonce of this attempt.
ExchangeSucceeds(q) ==
    /\ Reaches(q) /\ q.code \in codes /\ offAt[begun[q.code]] = None
    /\ q.code = q.flow

\* The session follows, unless the store fails.
Exchange(r) ==
    LET q == req[r]
    IN  /\ q.pc = "exchange"
        /\ ensureReady(q)
        /\ codes' = IF Reaches(q) THEN codes \ {q.code} ELSE codes
        /\ \/ /\ ExchangeSucceeds(q)
              /\ \E s \in Sids : CreateSession(q, s)
              /\ UNCHANGED faults
           \/ /\ ~ExchangeSucceeds(q)
              /\ UNCHANGED <<row, origin, sessionCookie, faults>>
           \/ /\ ExchangeSucceeds(q) /\ faults < MaxFaults /\ faults' = faults + 1
              /\ UNCHANGED <<row, origin, sessionCookie>>
        /\ stateCookie' = Answered(q, stateCookie, None)
        /\ req' = [req EXCEPT ![r] = NoRequest]
        /\ UNCHANGED <<clock, window, mode, up, offAt, grant, loginVars, gone,
                       refused, shared>>

\* DeleteSession may fail, also because the browser is gone already; its error
\* is dropped, so the cookie is cleared and the row stays.
logoutHandler(b) ==
    /\ sessionCookie[b] # None
    /\ \/ /\ row' = [row EXCEPT ![sessionCookie[b]] = None]
          /\ gone' = gone \cup {sessionCookie[b]}
          /\ UNCHANGED faults
       \/ /\ faults < MaxFaults /\ faults' = faults + 1
          /\ UNCHANGED <<row, gone>>
    /\ sessionCookie' = [sessionCookie EXCEPT ![b] = None]
    /\ UNCHANGED <<clock, window, providerVars, discovered, loginVars, refused,
                   origin, shared, stateCookie, req>>

----------------------------------------------------------------------------
(* The world around the process.                                           *)

\* The browser gives up: the request's context is cancelled.
Leave(r) ==
    /\ req[r].pc \in Busy /\ req[r].live /\ faults < MaxFaults
    /\ req' = [req EXCEPT ![r].live = FALSE] /\ faults' = faults + 1
    /\ UNCHANGED <<clock, window, providerVars, discovered, loginVars, storeVars,
                   cookieVars>>

\* The provider goes away and comes back.
Outage ==
    /\ up /\ faults < MaxFaults
    /\ up' = FALSE /\ faults' = faults + 1
    /\ UNCHANGED <<clock, window, mode, offAt, codes, grant, discovered, loginVars,
                   storeVars, cookieVars, req>>

Recover ==
    /\ ~up /\ up' = TRUE
    /\ UNCHANGED <<clock, window, mode, offAt, codes, grant, discovered, loginVars,
                   storeVars, cookieVars, req, faults>>

\* An administrator disables an account at the provider.
Disable(b) ==
    /\ offAt[b] = None
    /\ offAt' = [offAt EXCEPT ![b] = clock]
    /\ UNCHANGED <<clock, window, mode, up, codes, grant, discovered, loginVars,
                   storeVars, cookieVars, req, faults>>

Tick ==
    /\ clock < MaxClock
    /\ \A r \in Requests : req[r].pc \in Busy => clock - req[r].began < Patience
    /\ clock' = clock + 1
    /\ UNCHANGED <<window, providerVars, discovered, loginVars, storeVars,
                   cookieVars, req, faults>>

\* The process dies and starts again: the table stays, memory does not.
Restart ==
    /\ faults < MaxFaults /\ faults' = faults + 1
    /\ req' = [r \in Requests |-> NoRequest]
    /\ pending' = [f \in Flows |-> None]
    /\ discovered' = FALSE
    /\ UNCHANGED <<clock, window, providerVars, begun, sent, storeVars, cookieVars>>

Next ==
    \/ \E r \in Requests :
          \/ Refresh(r) \/ Userinfo(r) \/ Save(r) \/ Drop(r) \/ Served(r)
          \/ Exchange(r) \/ Leave(r)
          \/ \E b \in Browsers :
                \/ Page(r, b)
                \/ \E f \in Flows, code \in sent \cup {None} :
                      callbackHandler(r, b, f, code)
    \/ \E b \in Users, f \in Flows : loginHandler(b, f)
    \/ \E f \in Flows : SignIn(f)
    \/ \E b \in Browsers : logoutHandler(b)
    \/ \E b \in Users : Disable(b)
    \/ Outage \/ Recover \/ Tick \/ Restart

Spec == Init /\ [][Next]_vars

----------------------------------------------------------------------------
(* Properties.                                                             *)

\* The values each variable takes.
TypeOK ==
    /\ clock \in 0..MaxClock /\ window \in Windows
    /\ mode \in TokenModes /\ up \in BOOLEAN
    /\ offAt \in [Browsers -> Nat \cup {None}]
    /\ codes \subseteq Flows /\ grant \in [Sids -> Nat]
    /\ discovered \in BOOLEAN
    /\ pending \in [Flows -> Nat \cup {None}]
    /\ begun \in [Flows -> Browsers \cup {None}] /\ sent \subseteq Flows
    /\ row \in [Sids -> Rows \cup {None}]
    /\ stateCookie \in [Browsers -> Flows \cup {None}]
    /\ sessionCookie \in [Browsers -> Sids \cup {None}]
    /\ req \in [Requests -> Copies]
    /\ faults \in 0..MaxFaults
    /\ origin \in [Sids -> Origins \cup {None}]
    /\ gone \subseteq Sids /\ refused \subseteq Sids /\ shared \subseteq Sids

\* A step that opens a page to a session.
Opens(r) == req'[r].pc = "page" /\ req[r].pc # "page" /\ req'[r].sid # None

\* "A Nextcloud-side disable of the user SHALL cut off Wanderer UI access on
\* the next request" (openspec/specs/web-ui/spec.md): a session opens no page
\* to a request that comes after the account was disabled; with a
\* revalidate_interval, none that comes later than the interval and the last
\* request that was under way at the disable allow.
DisableCutsAccess ==
    [][\A r \in Requests : Opens(r) =>
          \/ ~req'[r].off
          \/ /\ req[r].pc = "idle"
             /\ clock < offAt[UserOf(req'[r].sid)] + Patience + window]_vars

\* "The session's identity and hard expiry are immutable for the lifetime of
\* the cookie" (RefreshSession): however often it is revalidated, a session
\* opens no page after the lifetime that began at the login.
HardLifetime ==
    [][\A r \in Requests : Opens(r) =>
          (IF req[r].pc = "idle" THEN clock ELSE req[r].began)
              <= origin[req'[r].sid].made + SessionTTL]_vars

\* "logout deletes the session row" (docs/explanation/adr/0013-oidc-login.md):
\* a session whose row was deleted, at a logout or by the gate, stays ended,
\* also when a request that read it before writes its tokens back afterwards.
EndedStaysEnded == \A s \in gone : row[s] = None

\* A login attempt makes at most one session, in the browser that began it
\* and for the account that signed in to it, whatever callback URLs are opened
\* twice, late, or in another browser (state cookie, takePending, nonce).
LoginIsBound ==
    \A s \in Sids : origin[s] # None =>
        /\ origin[s].user = begun[origin[s].flow]
        /\ origin[s].at = begun[origin[s].flow]
        /\ \A o \in Sids : origin[o] # None /\ origin[o].flow = origin[s].flow
                           => o = s

\* "An established session renders pages without a fresh login prompt"
\* (docs/explanation/adr/0013-oidc-login.md): a revalidation ends a session
\* only when the account was disabled, something failed, the provider gave no
\* refresh token, or two requests spent one rotating refresh token.
LostSessionHasCause ==
    \A s \in refused :
        \/ ~Enabled(s) \/ faults > 0 \/ mode = "none"
        \/ mode = "rotating" /\ s \in shared
=============================================================================
