-------------------------- MODULE UISessionProofs --------------------------
(***************************************************************************)
(* Proofs about UISession, for any number of browsers, requests, login     *)
(* attempts and sessions, any lifetimes and any number of faults.          *)
(***************************************************************************)
EXTENDS UISession, TLAPS

\* A request that holds the copy of a session row.
InSession(q) == q.pc \in {"revalidate", "userinfo", "save", "drop"}

\* Whoever speaks of a session speaks of one that was made: an identifier that
\* was never handed out is in no row, cookie or request.
KnownInv ==
    /\ \A s \in Sids : row[s] # None => origin[s] # None
    /\ \A s \in gone : row[s] = None /\ origin[s] # None
    /\ \A b \in Browsers : sessionCookie[b] # None => origin[sessionCookie[b]] # None
    /\ \A r \in Requests : InSession(req[r]) =>
          /\ req[r].who \in Browsers /\ req[r].sid \in Sids
          /\ origin[req[r].sid] # None

\* A login attempt is pending, in one exchange, or spent on one session, and
\* belongs to the browser that began it all along.
LoginInv ==
    /\ \A f \in Flows : pending[f] # None => begun[f] # None
    /\ \A b \in Browsers : stateCookie[b] # None => begun[stateCookie[b]] = b
    /\ \A r \in Requests : req[r].pc = "exchange" =>
          /\ req[r].flow \in Flows /\ req[r].who \in Browsers
          /\ begun[req[r].flow] = req[r].who /\ pending[req[r].flow] = None
          /\ \A o \in Requests : req[o].pc = "exchange" /\ req[o].flow = req[r].flow
                                 => o = r
          /\ \A s \in Sids : origin[s] # None => origin[s].flow # req[r].flow
    /\ \A s \in Sids : origin[s] # None =>
          /\ origin[s].user \in Browsers
          /\ pending[origin[s].flow] = None
    /\ LoginIsBound

\* Time: a row keeps the expiry its login gave it, a request is young, and
\* what was checked was checked before the account was disabled, give or take
\* the time a request takes.
RowTime(s) ==
    /\ row[s].exp = origin[s].made + SessionTTL
    /\ row[s].last <= clock
    /\ ~Enabled(s) => row[s].last <= offAt[UserOf(s)] + Patience

RequestTime(q) ==
    /\ q.began <= clock /\ clock <= q.began + Patience
    /\ q.began <= origin[q.sid].made + SessionTTL
    /\ q.off => ~Enabled(q.sid)
    /\ q.pc = "save" => /\ ~q.off
                        /\ ~Enabled(q.sid) => q.began <= offAt[UserOf(q.sid)]

TimeInv ==
    /\ \A s \in Sids : row[s] # None => RowTime(s)
    /\ \A r \in Requests : InSession(req[r]) => RequestTime(req[r])

\* Why a session may be lost to a revalidation.
Cause(s) ==
    \/ ~Enabled(s) \/ faults > 0 \/ mode = "none"
    \/ mode = "rotating" /\ s \in shared

\* Tokens: as long as nothing failed and no two requests share a session, its
\* one request, or its row when there is none, has the refresh token that the
\* provider accepts.
FaultInv ==
    /\ ~up => faults > 0
    /\ \A r \in Requests : ~req[r].live => faults > 0

FixedInv ==
    /\ mode = "eternal" =>
          /\ \A s \in Sids : row[s] # None => row[s].expiry = None
          /\ \A r \in Requests : InSession(req[r]) => req[r].expiry = None
    /\ mode # "rotating" =>
          /\ \A s \in Sids : grant[s] = 0 /\ (row[s] # None => row[s].gen = 0)
          /\ \A r \in Requests : InSession(req[r]) => req[r].gen = 0

Alone(s) == \A r, o \in Requests :
    /\ InSession(req[r]) /\ req[r].sid = s /\ InSession(req[o]) /\ req[o].sid = s => o = r

RotatingInv ==
    mode = "rotating" /\ faults = 0 =>
        \A s \in Sids \ shared :
            /\ Alone(s)
            /\ origin[s] = None => grant[s] = 0
            /\ \A r \in Requests :
                  InSession(req[r]) /\ req[r].sid = s /\ req[r].pc # "drop"
                  => req[r].gen = grant[s]
            /\ \/ row[s] = None \/ row[s].gen = grant[s]
               \/ \E r \in Requests : InSession(req[r]) /\ req[r].sid = s

CauseInv ==
    /\ \A s \in refused : origin[s] # None /\ Cause(s)
    /\ \A r \in Requests : req[r].pc = "drop" => Cause(req[r].sid)

IInv == /\ TypeOK /\ KnownInv /\ LoginInv /\ TimeInv /\ FaultInv /\ FixedInv
        /\ RotatingInv /\ CauseInv

----------------------------------------------------------------------------
(* What a request keeps.                                                   *)

\* The free slot: its type and its fields.
LEMMA FreeSlot ==
    /\ NoRequest \in Copies
    /\ NoRequest.pc = "idle" /\ NoRequest.sid = None /\ NoRequest.live = TRUE
    /\ NoRequest.off = FALSE
  BY DEF NoRequest, Copies, Busy, Done

\* A request that opens a page keeps the session it opens it to.
LEMMA OpenedCopy ==
    ASSUME NEW q \in Copies
    PROVE  /\ Opened(q) \in Copies
           /\ Opened(q).pc = "page" /\ Opened(q).sid = q.sid
           /\ Opened(q).live = TRUE /\ Opened(q).off = q.off
<1>1. Opened(q) \in Copies
  BY FreeSlot DEF Copies, Opened, Busy, Done
<1>2. /\ Opened(q).pc = "page" /\ Opened(q).sid = q.sid
      /\ Opened(q).live = TRUE /\ Opened(q).off = q.off
  BY FreeSlot DEF Copies, Opened, Busy, Done
<1>. QED
  BY <1>1, <1>2

\* A request without a session gets a page, or none.
LEMMA Turned ==
    ASSUME NEW a \in WithoutSession
    PROVE  /\ a \in Copies /\ a.pc \in {"idle", "page"} /\ a.sid = None
           /\ a.live /\ ~a.off
  BY FreeSlot DEF Copies, WithoutSession, Busy, Done

\* A request goes on to the next step.
LEMMA MovedCopy ==
    ASSUME NEW q \in Copies, NEW p \in Busy \cup Done
    PROVE  [q EXCEPT !.pc = p] \in Copies
  BY DEF Copies

\* A request goes on with new tokens.
LEMMA RefreshedCopy ==
    ASSUME NEW q \in Copies, NEW p \in Busy \cup Done, NEW g \in Nat,
           NEW e \in Nat \cup {None}
    PROVE  [q EXCEPT !.pc = p, !.gen = g, !.expiry = e] \in Copies
  BY DEF Copies

\* A request is cancelled.
LEMMA CancelledCopy ==
    ASSUME NEW q \in Copies
    PROVE  [q EXCEPT !.live = FALSE] \in Copies
  BY DEF Copies

----------------------------------------------------------------------------
(* What the longer steps do to the copy of a request.                      *)

\* The gate of a page turns the request away, opens the page to a session that
\* was checked recently, or keeps a copy of the row to check it.
LEMMA PageCopy ==
    ASSUME TypeOK, NEW r \in Requests, NEW b \in Browsers, Page(r, b)
    PROVE  \E c \in Copies :
              /\ req' = [req EXCEPT ![r] = c]
              /\ \/ c.sid = None /\ c.pc \in {"idle", "page"} /\ c.live
                 \/ /\ sessionCookie[b] # None /\ ~SessionAbsent(sessionCookie[b])
                    /\ UNCHANGED <<row, gone, sessionCookie, faults>>
                    /\ c.sid = sessionCookie[b] /\ c.live
                    /\ c.off => ~Enabled(sessionCookie[b])
                    /\ \/ c.pc = "page" /\ clock - row[c.sid].last < window
                       \/ /\ c.pc = "revalidate" /\ c.who = b /\ c.began = clock
                          /\ c.gen = row[c.sid].gen /\ c.expiry = row[c.sid].expiry
<1> DEFINE s == sessionCookie[b]
           off == s # None /\ row[s] # None /\ ~Enabled(s)
           q == [NoRequest EXCEPT !.who = b, !.sid = s, !.began = clock, !.off = off]
<1>1. CASE \E a \in WithoutSession : req' = [req EXCEPT ![r] = a]
  BY <1>1, Turned
<1>2. CASE /\ s # None /\ ~SessionAbsent(s)
           /\ req' = [req EXCEPT ![r] =
                  IF clock - row[s].last < window
                  THEN Opened(q)
                  ELSE [q EXCEPT !.pc = "revalidate", !.gen = row[s].gen,
                                 !.expiry = row[s].expiry]]
           /\ UNCHANGED <<row, gone, sessionCookie, faults>>
  <2>1. s \in Sids /\ row[s] \in Rows /\ off = ~Enabled(s)
    BY <1>2 DEF TypeOK, SessionAbsent
  <2>2. q \in Copies /\ q.sid = s /\ q.off = off /\ q.live = TRUE /\ q.who = b /\ q.began = clock
    <3>1. off \in BOOLEAN /\ clock \in Nat
      BY SessionAssumption DEF TypeOK
    <3>. HIDE DEF off
    <3>. QED
      BY <2>1, <3>1, FreeSlot DEF Copies
  <2>. HIDE DEF q, off
  <2>3. CASE clock - row[s].last < window
    <3> DEFINE c == Opened(q)
    <3>1. c \in Copies /\ c.pc = "page" /\ c.sid = s /\ c.live = TRUE /\ c.off = off
      BY <2>2, OpenedCopy
    <3>2. req' = [req EXCEPT ![r] = c]
      BY <1>2, <2>3
    <3>. HIDE DEF c
    <3>. QED
      BY <1>2, <2>1, <2>3, <3>1, <3>2
  <2>4. CASE ~(clock - row[s].last < window)
    <3> DEFINE c == [q EXCEPT !.pc = "revalidate", !.gen = row[s].gen,
                              !.expiry = row[s].expiry]
    <3>1. row[s].gen \in Nat /\ row[s].expiry \in Nat \cup {None}
      BY <2>1 DEF Rows
    <3>2. c \in Copies
      BY <2>2, <3>1, RefreshedCopy DEF Busy
    <3>3. /\ c.pc = "revalidate" /\ c.gen = row[s].gen /\ c.expiry = row[s].expiry
          /\ c.sid = s /\ c.live = TRUE /\ c.off = off /\ c.who = b /\ c.began = clock
      BY <2>2 DEF Copies
    <3>4. req' = [req EXCEPT ![r] = c]
      BY <1>2, <2>4
    <3>. HIDE DEF c
    <3>. QED
      BY <1>2, <2>1, <3>2, <3>3, <3>4
  <2>. QED
    BY <2>3, <2>4
<1>. HIDE DEF q, off
<1>3. <1>1!1 \/ <1>2!1
  BY DEF Page, q, off
<1>. QED
  BY <1>1, <1>2, <1>3

\* Revalidate's first half changes the step of the copy and, after a refresh
\* whose answer arrived, its tokens.
LEMMA RefreshCopy ==
    ASSUME TypeOK, NEW r \in Requests, Refresh(r)
    PROVE  \E c \in Copies :
              /\ req' = [req EXCEPT ![r] = c]
              /\ c.who = req[r].who /\ c.sid = req[r].sid /\ c.live = req[r].live
              /\ c.began = req[r].began /\ c.off = req[r].off
              /\ \/ /\ c.pc = "userinfo"
                    /\ c.gen = req[r].gen /\ c.expiry = req[r].expiry
                    /\ UNCHANGED <<grant, faults>>
                 \/ /\ c.pc = "userinfo" /\ TokenExpired(req[r]) /\ Honoured(req[r])
                    /\ c.gen = (IF mode = "rotating" THEN req[r].gen + 1
                                                     ELSE req[r].gen)
                    /\ c.expiry = NewExpiry
                    /\ grant' = [grant EXCEPT ![c.sid] = c.gen]
                    /\ UNCHANGED faults
                 \/ /\ c.pc = "drop" /\ c.gen = req[r].gen /\ c.expiry = req[r].expiry
                    /\ \/ faults' > 0
                       \/ /\ ~Reaches(req[r]) \/ (TokenExpired(req[r]) /\ ~Honoured(req[r]))
                          /\ UNCHANGED <<grant, faults>>
<1> DEFINE q == req[r]
           next == IF mode = "rotating" THEN q.gen + 1 ELSE q.gen
<1>1. q \in Copies /\ q.gen \in Nat /\ next \in Nat /\ NewExpiry \in Nat \cup {None}
  BY SessionAssumption DEF TypeOK, Copies, NewExpiry
<1>2. ASSUME NEW p \in {"userinfo", "drop"}
      PROVE  LET c == [q EXCEPT !.pc = p]
             IN  /\ c \in Copies /\ c.pc = p /\ c.gen = q.gen /\ c.expiry = q.expiry
                 /\ c.who = q.who /\ c.sid = q.sid /\ c.live = q.live
                 /\ c.began = q.began /\ c.off = q.off
                 /\ [req EXCEPT ![r].pc = p] = [req EXCEPT ![r] = c]
  <2>1. [q EXCEPT !.pc = p] \in Copies
    BY <1>1, MovedCopy DEF Busy
  <2>. QED
    BY <1>1, <2>1 DEF Copies
<1>3. CASE /\ Ready(q) /\ ~TokenExpired(q)
           /\ req' = [req EXCEPT ![r].pc = "userinfo"]
           /\ UNCHANGED <<grant, faults>>
  BY <1>2, <1>3
<1>4. CASE /\ TokenExpired(q) /\ Reaches(q) /\ Honoured(q)
           /\ grant' = [grant EXCEPT ![q.sid] = next]
           /\ req' = [req EXCEPT ![r].pc = "userinfo", ![r].gen = next,
                                 ![r].expiry = NewExpiry]
           /\ UNCHANGED faults
  <2> DEFINE c == [q EXCEPT !.pc = "userinfo", !.gen = next, !.expiry = NewExpiry]
  <2>. HIDE DEF next
  <2>1. c \in Copies
    BY <1>1, RefreshedCopy DEF Busy
  <2>2. /\ c.pc = "userinfo" /\ c.gen = next /\ c.expiry = NewExpiry
        /\ c.who = q.who /\ c.sid = q.sid /\ c.live = q.live
        /\ c.began = q.began /\ c.off = q.off
    BY <1>1 DEF Copies
  <2>3. req' = [req EXCEPT ![r] = c]
    BY <1>1, <1>4 DEF Copies, TypeOK
  <2>. HIDE DEF c
  <2>. QED
    BY <1>4, <2>1, <2>2, <2>3 DEF next
<1>5. CASE /\ faults < MaxFaults /\ faults' = faults + 1
           /\ req' = [req EXCEPT ![r].pc = "drop"]
  <2>1. faults' > 0
    BY <1>5, SessionAssumption DEF TypeOK
  <2>. QED
    BY <1>2, <1>5, <2>1
<1>6. CASE /\ ~Ready(q) \/ (TokenExpired(q) /\ ~(Reaches(q) /\ Honoured(q)))
           /\ req' = [req EXCEPT ![r].pc = "drop"]
           /\ UNCHANGED <<grant, faults>>
  BY <1>2, <1>6 DEF Ready
<1>7. <1>3!1 \/ <1>4!1 \/ <1>5!1 \/ <1>6!1
  BY DEF Refresh
<1>. QED
  BY <1>3, <1>4, <1>5, <1>6, <1>7

\* The callback ends at once or goes on to the exchange with the attempt that
\* is pinned to its browser.
LEMMA CallbackCopy ==
    ASSUME TypeOK, NEW r \in Requests, NEW b \in Browsers, NEW f \in Flows,
           NEW code \in sent \cup {None}, callbackHandler(r, b, f, code)
    PROVE  \E c \in Copies :
              /\ req' = [req EXCEPT ![r] = c] /\ c.live
              /\ \/ c.pc = "idle"
                 \/ /\ c.pc = "exchange" /\ c.who = b /\ c.flow = f
                    /\ stateCookie[b] = f /\ pending[f] # None
                    /\ pending' = [pending EXCEPT ![f] = None]
                    /\ UNCHANGED stateCookie
<1> DEFINE q == [NoRequest EXCEPT !.who = b, !.flow = f, !.code = code,
                                  !.began = clock]
<1>1. q \in Copies /\ q.who = b /\ q.flow = f /\ q.live = TRUE
  <2>1. code \in Flows \cup {None} /\ clock \in Nat
    BY SessionAssumption DEF TypeOK
  <2>. QED
    BY <2>1, FreeSlot DEF Copies
<1>. HIDE DEF q
<1>2. CASE req' = [req EXCEPT ![r] = NoRequest]
  BY <1>2, FreeSlot
<1>3. CASE /\ stateCookie[b] = f /\ PendingValid(f) /\ takePending(f)
           /\ req' = [req EXCEPT ![r] = [q EXCEPT !.pc = "exchange"]]
           /\ UNCHANGED stateCookie
  <2>1. [q EXCEPT !.pc = "exchange"] \in Copies
    BY <1>1, MovedCopy DEF Busy
  <2>2. /\ [q EXCEPT !.pc = "exchange"].pc = "exchange"
        /\ [q EXCEPT !.pc = "exchange"].who = b
        /\ [q EXCEPT !.pc = "exchange"].flow = f
        /\ [q EXCEPT !.pc = "exchange"].live = TRUE
    BY <1>1 DEF Copies
  <2>. QED
    BY <1>3, <2>1, <2>2 DEF PendingValid, takePending
<1>4. <1>2!1 \/ <1>3!1
  BY DEF callbackHandler, q
<1>. QED
  BY <1>2, <1>3, <1>4

\* After these steps the requests still have their type.
LEMMA CopiesStay ==
    ASSUME TypeOK, NEW r \in Requests
    PROVE  /\ Refresh(r) => req' \in [Requests -> Copies]
           /\ \A b \in Browsers : Page(r, b) => req' \in [Requests -> Copies]
           /\ \A b \in Browsers, f \in Flows, code \in sent \cup {None} :
                 callbackHandler(r, b, f, code) => req' \in [Requests -> Copies]
<1>1. \A c \in Copies : [req EXCEPT ![r] = c] \in [Requests -> Copies]
  BY DEF TypeOK
<1>2. ASSUME Refresh(r) PROVE req' \in [Requests -> Copies]
  BY <1>1, <1>2, RefreshCopy
<1>3. ASSUME NEW b \in Browsers, Page(r, b) PROVE req' \in [Requests -> Copies]
  BY <1>1, <1>3, PageCopy
<1>4. ASSUME NEW b \in Browsers, NEW f \in Flows,
             NEW code \in sent \cup {None},
             callbackHandler(r, b, f, code)
      PROVE  req' \in [Requests -> Copies]
  BY <1>1, <1>4, CallbackCopy
<1>. QED
  BY <1>2, <1>3, <1>4

\* The userinfo call decides between saving and dropping the session.
LEMMA UserinfoCopy ==
    ASSUME TypeOK, NEW r \in Requests, Userinfo(r)
    PROVE  \E c \in Copies :
              /\ req' = [req EXCEPT ![r] = c]
              /\ c.who = req[r].who /\ c.sid = req[r].sid
              /\ c.gen = req[r].gen /\ c.expiry = req[r].expiry
              /\ c.began = req[r].began
              /\ c.live => req[r].live
              /\ req[r].live => c.live
              /\ c.off => req[r].off
              /\ \/ c.pc = "save" /\ Reaches(req[r]) /\ Enabled(req[r].sid)
                 \/ c.pc = "drop" /\ ~(Reaches(req[r]) /\ Enabled(req[r].sid))
<1> DEFINE q == req[r]
           p == IF Reaches(q) /\ Enabled(q.sid) THEN "save" ELSE "drop"
           c == [q EXCEPT !.pc = p]
<1>1. q \in Copies /\ p \in Busy \cup Done /\ req' = [req EXCEPT ![r] = c]
  BY DEF TypeOK, Userinfo, Busy
<1>2. \/ p = "save" /\ Reaches(q) /\ Enabled(q.sid)
      \/ p = "drop" /\ ~(Reaches(q) /\ Enabled(q.sid))
  OBVIOUS
<1>. HIDE DEF p, q
<1>3. c \in Copies
  BY <1>1, MovedCopy
<1>4. /\ c.pc = p /\ c.who = q.who /\ c.sid = q.sid /\ c.gen = q.gen
      /\ c.expiry = q.expiry /\ c.began = q.began
  BY <1>1 DEF Copies
<1>5. c.live = q.live /\ c.off = q.off
  BY <1>1 DEF Copies
<1>. HIDE DEF c
<1>. QED
  BY <1>1, <1>2, <1>3, <1>4, <1>5 DEF q

\* A browser that leaves changes nothing in the copy but its context.
LEMMA LeaveCopy ==
    ASSUME TypeOK, NEW r \in Requests, Leave(r)
    PROVE  \E c \in Copies :
              /\ req' = [req EXCEPT ![r] = c] /\ c.pc = req[r].pc
              /\ c.who = req[r].who /\ c.sid = req[r].sid /\ c.flow = req[r].flow
              /\ c.gen = req[r].gen /\ c.expiry = req[r].expiry
              /\ c.began = req[r].began
              /\ c.off => req[r].off
<1> DEFINE q == req[r]
           c == [q EXCEPT !.live = FALSE]
<1>1. q \in Copies /\ req' = [req EXCEPT ![r] = c]
  BY DEF TypeOK, Leave
<1>. HIDE DEF q
<1>3. c \in Copies
  BY <1>1, CancelledCopy
<1>4. /\ c.pc = q.pc /\ c.who = q.who /\ c.sid = q.sid /\ c.flow = q.flow
      /\ c.gen = q.gen /\ c.expiry = q.expiry /\ c.began = q.began
  BY <1>1 DEF Copies
<1>5. c.off = q.off
  BY <1>1 DEF Copies
<1>. HIDE DEF c
<1>. QED
  BY <1>1, <1>3, <1>4, <1>5 DEF q

\* These steps end the check of the session, and the last two the request.
LEMMA EndCopy ==
    ASSUME TypeOK, NEW r \in Requests,
           Save(r) \/ Drop(r) \/ Exchange(r) \/ Served(r)
    PROVE  \E c \in Copies :
              /\ req' = [req EXCEPT ![r] = c] /\ c.live
              /\ c.pc \in {"idle", "page"}
              /\ \/ c.sid = None
                 \/ Save(r) /\ c.sid = req[r].sid /\ (c.off => req[r].off)
<1>1. CASE Save(r)
  <2> DEFINE c == Opened(req[r])
  <2>1. req[r] \in Copies /\ req' = [req EXCEPT ![r] = c]
    BY <1>1 DEF TypeOK, Save
  <2>2. c \in Copies /\ c.pc = "page" /\ c.sid = req[r].sid
    BY <2>1, OpenedCopy
  <2>3. c.live = TRUE /\ c.off = req[r].off
    BY <2>1, OpenedCopy
  <2>. HIDE DEF c
  <2>. QED
    BY <1>1, <2>1, <2>2, <2>3
<1>2. CASE Drop(r)
  BY <1>2, Turned DEF Drop
<1>3. CASE Exchange(r) \/ Served(r)
  BY <1>3, FreeSlot DEF Exchange, Served
<1>. QED
  BY <1>1, <1>2, <1>3

\* What Save does to the table: an update of the row, if there is one.
LEMMA SaveRow ==
    ASSUME TypeOK, KnownInv, NEW r \in Requests, Save(r), NEW s \in Sids
    PROVE  \/ /\ row'[s] = row[s]
              /\ s # req[r].sid \/ row[s] = None \/ ~req[r].live
           \/ /\ s = req[r].sid /\ row[s] # None /\ row'[s] # None
              /\ row'[s].exp = row[s].exp /\ row'[s].last = clock
              /\ row'[s].gen = req[r].gen /\ row'[s].expiry = req[r].expiry
<1> DEFINE q == req[r]
<1>1. q.sid \in Sids /\ (row[s] = None \/ row[s] \in Rows) /\ row \in [Sids -> Rows \cup {None}]
  BY DEF KnownInv, InSession, Save, TypeOK
<1>2. CASE q.live /\ row[q.sid] # None /\ s = q.sid
  <2>1. row'[s] = [row[s] EXCEPT !.gen = q.gen, !.expiry = q.expiry, !.last = clock]
    BY <1>1, <1>2 DEF Save, RefreshSession
  <2>2. /\ row'[s].exp = row[s].exp /\ row'[s].last = clock
        /\ row'[s].gen = q.gen /\ row'[s].expiry = q.expiry
    BY <1>1, <1>2, <2>1 DEF Rows
  <2>3. q.gen \in Nat /\ q.expiry \in Nat \cup {None} /\ clock \in Nat
    BY SessionAssumption DEF TypeOK, Copies
  <2>4. row'[s] \in Rows
    BY <1>1, <1>2, <2>1, <2>3 DEF Rows
  <2>. QED
    BY <1>2, <2>2, <2>4, NoneAssumption
<1>3. CASE ~(q.live /\ row[q.sid] # None /\ s = q.sid)
  BY <1>1, <1>3 DEF Save, RefreshSession
<1>. QED
  BY <1>2, <1>3

\* A login makes one session, in a row of its own, of the account behind the
\* code, or leaves the table as it was.
LEMMA ExchangeRow ==
    ASSUME TypeOK, NEW r \in Requests, Exchange(r)
    PROVE  \/ UNCHANGED <<row, origin, sessionCookie>>
           \/ \E s \in Sids :
                /\ origin[s] = None /\ Reaches(req[r])
                /\ req[r].code = req[r].flow /\ req[r].code \in codes
                /\ \A o \in Sids \ {s} : origin'[o] = origin[o] /\ row'[o] = row[o]
                /\ origin'[s] # None /\ origin'[s].user = begun[req[r].code]
                /\ origin'[s].flow = req[r].flow /\ origin'[s].at = req[r].who
                /\ origin'[s].made = clock
                /\ row'[s] # None /\ row'[s].gen = 0 /\ row'[s].expiry = NewExpiry
                /\ row'[s].last = clock /\ row'[s].exp = clock + SessionTTL
                /\ offAt[begun[req[r].code]] = None
                /\ sessionCookie' = [sessionCookie EXCEPT ![req[r].who] = s]
                /\ UNCHANGED faults
<1> DEFINE q == req[r]
<1>1. CASE UNCHANGED <<row, origin, sessionCookie>>
  BY <1>1
<1>2. ASSUME ExchangeSucceeds(q), NEW s \in Sids, CreateSession(q, s),
             UNCHANGED faults
      PROVE  \E t \in Sids :
                /\ origin[t] = None /\ Reaches(req[r])
                /\ req[r].code = req[r].flow /\ req[r].code \in codes
                /\ \A o \in Sids \ {t} : origin'[o] = origin[o] /\ row'[o] = row[o]
                /\ origin'[t] # None /\ origin'[t].user = begun[req[r].code]
                /\ origin'[t].flow = req[r].flow /\ origin'[t].at = req[r].who
                /\ origin'[t].made = clock
                /\ row'[t] # None /\ row'[t].gen = 0 /\ row'[t].expiry = NewExpiry
                /\ row'[t].last = clock /\ row'[t].exp = clock + SessionTTL
                /\ offAt[begun[req[r].code]] = None
                /\ sessionCookie' = [sessionCookie EXCEPT ![req[r].who] = t]
                /\ UNCHANGED faults
  <2> DEFINE new == [gen |-> 0, expiry |-> NewExpiry, last |-> clock,
                     exp |-> clock + SessionTTL]
             from == [user |-> begun[q.code], flow |-> q.flow, at |-> q.who,
                      made |-> clock]
  <2>1. row' = [row EXCEPT ![s] = new] /\ origin' = [origin EXCEPT ![s] = from]
    BY <1>2 DEF CreateSession
  <2>2. new \in Rows
    BY SessionAssumption DEF Rows, NewExpiry, TypeOK
  <2>3. q.code \in Flows /\ q.flow \in Flows /\ q.who \in Browsers \cup {None}
    BY <1>2 DEF ExchangeSucceeds, TypeOK, Copies
  <2>4. from \in Origins
    BY <2>3, SessionAssumption DEF Origins, TypeOK
  <2>5. /\ new.gen = 0 /\ new.expiry = NewExpiry /\ new.last = clock
        /\ new.exp = clock + SessionTTL
        /\ from.user = begun[q.code] /\ from.flow = q.flow /\ from.at = q.who
        /\ from.made = clock
    OBVIOUS
  <2>6. new # None /\ from # None
    BY <2>2, <2>4, NoneAssumption
  <2>. HIDE DEF new, from
  <2>7. /\ origin'[s] = from /\ row'[s] = new
        /\ \A o \in Sids \ {s} : origin'[o] = origin[o] /\ row'[o] = row[o]
    BY <2>1 DEF TypeOK
  <2>. QED
    BY <1>2, <2>5, <2>6, <2>7 DEF ExchangeSucceeds, CreateSession
<1>. QED
  BY <1>1, <1>2 DEF Exchange

----------------------------------------------------------------------------
\* Every action keeps the types.
LEMMA TypeStep == TypeOK /\ KnownInv /\ LoginInv /\ [Next]_vars => TypeOK'
<1> SUFFICES ASSUME TypeOK, KnownInv, LoginInv, [Next]_vars PROVE TypeOK'
  OBVIOUS
<1> USE SessionAssumption DEF TypeOK, InSession, Busy, Done, providerVars,
        loginVars, historyVars, storeVars, cookieVars
<1>1. ASSUME NEW r \in Requests, Refresh(r) PROVE TypeOK'
  <2>1. req' \in [Requests -> Copies]
    BY <1>1, CopiesStay
  <2>2. discovered' \in BOOLEAN
    BY <1>1 DEF Refresh, ensureReady, Ready, Reaches
  <2>3. faults' \in 0..MaxFaults
    BY <1>1 DEF Refresh
  <2>4. grant' \in [Sids -> Nat]
    BY <1>1 DEF Refresh, Copies
  <2>. QED
    BY <1>1, <2>1, <2>2, <2>3, <2>4 DEF Refresh
<1>2. ASSUME NEW r \in Requests, Userinfo(r) PROVE TypeOK'
  BY <1>2, MovedCopy DEF Userinfo, Reaches
<1>3. ASSUME NEW r \in Requests, Save(r) PROVE TypeOK'
  <2>1. row' \in [Sids -> Rows \cup {None}]
    <3>1. CASE req[r].live /\ row[req[r].sid] # None
      <4>1. req[r].sid \in Sids /\ row[req[r].sid] \in Rows
        BY <1>3, <3>1 DEF Save, KnownInv
      <4>2. req[r].gen \in Nat /\ req[r].expiry \in Nat \cup {None} /\ clock \in Nat
        BY DEF Copies
      <4>. QED
        BY <1>3, <3>1, <4>1, <4>2 DEF Save, RefreshSession, Rows
    <3>2. CASE ~(req[r].live /\ row[req[r].sid] # None)
      BY <1>3, <3>2 DEF Save, RefreshSession
    <3>. QED
      BY <3>1, <3>2
  <2>2. req' \in [Requests -> Copies]
    BY <1>3, OpenedCopy DEF Save
  <2>. QED
    BY <1>3, <2>1, <2>2 DEF Save
<1>4. ASSUME NEW r \in Requests, Drop(r) PROVE TypeOK'
  <2>1. PICK a \in WithoutSession : req' = [req EXCEPT ![r] = a]
    BY <1>4 DEF Drop
  <2>2. req' \in [Requests -> Copies]
    BY <2>1, Turned
  <2>3. req[r].sid \in Sids /\ req[r].who \in Browsers
    BY <1>4 DEF Drop, KnownInv
  <2>4. sessionCookie' \in [Browsers -> Sids \cup {None}]
    BY <1>4, <2>3 DEF Drop, Answered
  <2>5. /\ row' \in [Sids -> Rows \cup {None}] /\ gone' \subseteq Sids
        /\ refused' \subseteq Sids
    BY <1>4, <2>3 DEF Drop
  <2>. QED
    BY <1>4, <2>2, <2>4, <2>5 DEF Drop
<1>5. ASSUME NEW r \in Requests, Served(r) PROVE TypeOK'
  BY <1>5, FreeSlot DEF Served
<1>6. ASSUME NEW r \in Requests, Exchange(r) PROVE TypeOK'
  <2>1. /\ req[r].who \in Browsers /\ req[r].flow \in Flows
        /\ req[r].code \in Flows \cup {None}
    BY <1>6 DEF Exchange, LoginInv, Copies
  <2>2. discovered' \in BOOLEAN /\ codes' \subseteq Flows
    BY <1>6 DEF Exchange, ensureReady, Ready, Reaches
  <2>3. stateCookie' \in [Browsers -> Flows \cup {None}]
    BY <1>6, <2>1 DEF Exchange, Answered
  <2>4. req' \in [Requests -> Copies]
    BY <1>6, FreeSlot DEF Exchange
  <2>5. faults' \in 0..MaxFaults
    BY <1>6 DEF Exchange
  <2>6. /\ row' \in [Sids -> Rows \cup {None}]
        /\ origin' \in [Sids -> Origins \cup {None}]
        /\ sessionCookie' \in [Browsers -> Sids \cup {None}]
    <3>1. CASE UNCHANGED <<row, origin, sessionCookie>>
      BY <3>1
    <3>2. ASSUME ExchangeSucceeds(req[r]), NEW s \in Sids,
                 CreateSession(req[r], s)
          PROVE  <2>6!1 /\ <2>6!2 /\ <2>6!3
      <4>1. NewExpiry \in Nat \cup {None} /\ clock \in Nat /\ clock + SessionTTL \in Nat
        BY DEF NewExpiry
      <4>2. [gen |-> 0, expiry |-> NewExpiry, last |-> clock,
             exp |-> clock + SessionTTL] \in Rows
        BY <4>1 DEF Rows
      <4>3. begun[req[r].code] \in Browsers \cup {None}
        BY <2>1, <3>2 DEF ExchangeSucceeds
      <4>4. [user |-> begun[req[r].code], flow |-> req[r].flow, at |-> req[r].who,
             made |-> clock] \in Origins
        BY <2>1, <4>1, <4>3 DEF Origins
      <4>. QED
        BY <2>1, <3>2, <4>2, <4>4 DEF CreateSession
    <3>. QED
      BY <1>6, <3>1, <3>2 DEF Exchange
  <2>. QED
    BY <1>6, <2>2, <2>3, <2>4, <2>5, <2>6 DEF Exchange
<1>7. ASSUME NEW r \in Requests, Leave(r) PROVE TypeOK'
  BY <1>7, CancelledCopy DEF Leave, Busy
<1>8. ASSUME NEW r \in Requests, NEW b \in Browsers, Page(r, b) PROVE TypeOK'
  <2> DEFINE s == sessionCookie[b]
  <2>1. req' \in [Requests -> Copies]
    BY <1>8, CopiesStay
  <2>2. /\ row' \in [Sids -> Rows \cup {None}] /\ gone' \subseteq Sids
        /\ sessionCookie' \in [Browsers -> Sids \cup {None}]
        /\ shared' \subseteq Sids
    BY <1>8 DEF Page, GetSession
  <2>3. faults' \in 0..MaxFaults
    BY <1>8 DEF Page
  <2>. QED
    BY <1>8, <2>1, <2>2, <2>3 DEF Page
<1>9. ASSUME NEW r \in Requests, NEW b \in Browsers, NEW f \in Flows,
            NEW code \in sent \cup {None}, callbackHandler(r, b, f, code)
       PROVE  TypeOK'
  <2>3. req' \in [Requests -> Copies]
    BY <1>9, CopiesStay
  <2>4. pending' \in [Flows -> Nat \cup {None}]
    BY <1>9 DEF callbackHandler, takePending
  <2>5. stateCookie' \in [Browsers -> Flows \cup {None}]
    BY <1>9 DEF callbackHandler
  <2>. QED
    BY <1>9, <2>3, <2>4, <2>5 DEF callbackHandler
<1>10. ASSUME NEW b \in Users, NEW f \in Flows, loginHandler(b, f)
       PROVE  TypeOK'
  BY <1>10 DEF loginHandler, putPending
<1>11. ASSUME NEW f \in Flows, SignIn(f) PROVE TypeOK'
  BY <1>11 DEF SignIn
<1>12. ASSUME NEW b \in Browsers, logoutHandler(b) PROVE TypeOK'
  BY <1>12 DEF logoutHandler
<1>13. ASSUME NEW b \in Users, Disable(b) PROVE TypeOK'
  BY <1>13 DEF Disable
<1>14. CASE Outage
  <2>1. up' \in BOOLEAN
    BY <1>14 DEF Outage
  <2>2. faults' \in 0..MaxFaults
    BY <1>14 DEF Outage
  <2>. QED
    BY <1>14, <2>1, <2>2 DEF Outage
<1>15. CASE Recover
  BY <1>15 DEF Recover
<1>16. CASE Tick
  BY <1>16 DEF Tick
<1>17. CASE Restart
  <2>1. req' \in [Requests -> Copies]
    BY <1>17, FreeSlot DEF Restart
  <2>2. pending' \in [Flows -> Nat \cup {None}] /\ discovered' \in BOOLEAN
    BY <1>17 DEF Restart
  <2>3. faults' \in 0..MaxFaults
    BY <1>17 DEF Restart
  <2>. QED
    BY <1>17, <2>1, <2>2, <2>3 DEF Restart
<1>18. CASE UNCHANGED vars
  BY <1>18 DEF vars
<1>. QED
  BY <1>1, <1>2, <1>3, <1>4, <1>5, <1>6, <1>7, <1>8, <1>9, <1>10, <1>11,
     <1>12, <1>13, <1>14, <1>15, <1>16, <1>17, <1>18 DEF Next

\* Every action keeps what is known of sessions.
LEMMA KnownStep == TypeOK /\ KnownInv /\ LoginInv /\ [Next]_vars => KnownInv'
<1> SUFFICES ASSUME TypeOK, KnownInv, LoginInv, [Next]_vars PROVE KnownInv'
  OBVIOUS
<1> USE SessionAssumption DEF TypeOK, KnownInv, InSession, providerVars,
        loginVars, historyVars, storeVars, cookieVars
<1>1. ASSUME NEW r \in Requests, Refresh(r) PROVE KnownInv'
  <2>1. PICK c \in Copies :
           /\ req' = [req EXCEPT ![r] = c] /\ c.who = req[r].who /\ c.sid = req[r].sid
    BY <1>1, RefreshCopy
  <2>. QED
    BY <1>1, <2>1 DEF Refresh
<1>2. ASSUME NEW r \in Requests, Userinfo(r) PROVE KnownInv'
  BY <1>2, MovedCopy DEF Userinfo, Reaches
<1>3. ASSUME NEW r \in Requests, Save(r) PROVE KnownInv'
  <2>1. PICK c \in Copies :
           req' = [req EXCEPT ![r] = c] /\ c.pc \in {"idle", "page"}
    BY <1>3, EndCopy
  <2>2. \A s \in Sids : row'[s] = None <=> row[s] = None
    BY <1>3, SaveRow
  <2>. QED
    BY <1>3, <2>1, <2>2 DEF Save
<1>4. ASSUME NEW r \in Requests, Drop(r) PROVE KnownInv'
  <2>1. PICK c \in Copies :
           req' = [req EXCEPT ![r] = c] /\ c.pc \in {"idle", "page"}
    BY <1>4, EndCopy
  <2>2. req[r].sid \in Sids /\ req[r].who \in Browsers /\ origin[req[r].sid] # None
    BY <1>4 DEF Drop
  <2>3. UNCHANGED origin
    BY <1>4 DEF Drop
  <2>4. \A s \in Sids : row'[s] # None => row[s] # None
    BY <1>4, <2>2 DEF Drop
  <2>5. \A s \in gone' : row'[s] = None /\ origin[s] # None
    BY <1>4, <2>2 DEF Drop
  <2>6. \A o \in Browsers : sessionCookie'[o] \in {sessionCookie[o], None}
    BY <1>4, <2>2 DEF Drop, Answered
  <2>. QED
    BY <2>1, <2>3, <2>4, <2>5, <2>6
<1>5. ASSUME NEW r \in Requests, Served(r) PROVE KnownInv'
  BY <1>5, FreeSlot DEF Served
<1>6. ASSUME NEW r \in Requests, Exchange(r) PROVE KnownInv'
  <2>1. PICK c \in Copies :
           req' = [req EXCEPT ![r] = c] /\ c.pc \in {"idle", "page"}
    BY <1>6, EndCopy
  <2>2. UNCHANGED gone
    BY <1>6 DEF Exchange
  <2>3. CASE UNCHANGED <<row, origin, sessionCookie>>
    BY <2>1, <2>2, <2>3
  <2>4. CASE \E s \in Sids :
                /\ origin[s] = None
                /\ \A o \in Sids \ {s} : origin'[o] = origin[o] /\ row'[o] = row[o]
                /\ origin'[s] # None
                /\ sessionCookie' = [sessionCookie EXCEPT ![req[r].who] = s]
    BY <2>1, <2>2, <2>4
  <2>. QED
    BY <1>6, <2>3, <2>4, ExchangeRow
<1>7. ASSUME NEW r \in Requests, Leave(r) PROVE KnownInv'
  BY <1>7, CancelledCopy DEF Leave, Busy
<1>8. ASSUME NEW r \in Requests, NEW b \in Browsers, Page(r, b) PROVE KnownInv'
  <2>1. PICK c \in Copies :
           /\ req' = [req EXCEPT ![r] = c]
           /\ \/ c.pc \in {"idle", "page"}
              \/ /\ sessionCookie[b] # None /\ c.sid = sessionCookie[b]
                 /\ c.who = b
    BY <1>8, PageCopy
  <2>2. UNCHANGED origin
    BY <1>8 DEF Page
  <2>3. \A s \in Sids : row'[s] # None => row[s] # None
    BY <1>8 DEF Page, GetSession
  <2>4. \A s \in gone' : row'[s] = None /\ origin[s] # None
    BY <1>8 DEF Page, GetSession
  <2>5. \A o \in Browsers : sessionCookie'[o] \in {sessionCookie[o], None}
    BY <1>8 DEF Page
  <2>. QED
    BY <2>1, <2>2, <2>3, <2>4, <2>5
<1>9. ASSUME NEW r \in Requests, NEW b \in Browsers, NEW f \in Flows,
            NEW code \in sent \cup {None}, callbackHandler(r, b, f, code)
       PROVE  KnownInv'
  <2>1. PICK c \in Copies :
           req' = [req EXCEPT ![r] = c] /\ c.pc \in {"idle", "exchange"}
    BY <1>9, CallbackCopy
  <2>. QED
    BY <1>9, <2>1 DEF callbackHandler
<1>10. ASSUME NEW b \in Users, NEW f \in Flows, loginHandler(b, f)
       PROVE  KnownInv'
  BY <1>10 DEF loginHandler, putPending
<1>11. ASSUME NEW f \in Flows, SignIn(f) PROVE KnownInv'
  BY <1>11 DEF SignIn
<1>12. ASSUME NEW b \in Browsers, logoutHandler(b) PROVE KnownInv'
  BY <1>12 DEF logoutHandler
<1>13. ASSUME NEW b \in Users, Disable(b) PROVE KnownInv'
  BY <1>13 DEF Disable
<1>14. CASE Outage
  BY <1>14 DEF Outage
<1>15. CASE Recover
  BY <1>15 DEF Recover
<1>16. CASE Tick
  BY <1>16 DEF Tick
<1>17. CASE Restart
  BY <1>17, FreeSlot DEF Restart
<1>18. CASE UNCHANGED vars
  BY <1>18 DEF vars
<1>. QED
  BY <1>1, <1>2, <1>3, <1>4, <1>5, <1>6, <1>7, <1>8, <1>9, <1>10, <1>11,
     <1>12, <1>13, <1>14, <1>15, <1>16, <1>17, <1>18 DEF Next

\* Every action keeps login attempts bound.
LEMMA LoginStep == TypeOK /\ KnownInv /\ LoginInv /\ [Next]_vars => LoginInv'
<1> SUFFICES ASSUME TypeOK, KnownInv, LoginInv, [Next]_vars PROVE LoginInv'
  OBVIOUS
<1> USE SessionAssumption DEF TypeOK, LoginInv, LoginIsBound, Origins,
        providerVars, loginVars, historyVars, storeVars, cookieVars
<1>1. ASSUME NEW r \in Requests, Refresh(r) PROVE LoginInv'
  <2>1. PICK c \in Copies :
           req' = [req EXCEPT ![r] = c] /\ c.pc \in {"userinfo", "drop"}
    BY <1>1, RefreshCopy
  <2>. QED
    BY <1>1, <2>1 DEF Refresh
<1>2. ASSUME NEW r \in Requests, Userinfo(r) PROVE LoginInv'
  <2>1. PICK c \in Copies :
           req' = [req EXCEPT ![r] = c] /\ c.pc \in {"save", "drop"}
    BY <1>2, UserinfoCopy
  <2>. QED
    BY <1>2, <2>1 DEF Userinfo
<1>3. ASSUME NEW r \in Requests, Save(r) PROVE LoginInv'
  <2>1. PICK c \in Copies :
           req' = [req EXCEPT ![r] = c] /\ c.pc \in {"idle", "page"}
    BY <1>3, EndCopy
  <2>. QED
    BY <1>3, <2>1 DEF Save
<1>4. ASSUME NEW r \in Requests, Drop(r) PROVE LoginInv'
  <2>1. PICK c \in Copies :
           req' = [req EXCEPT ![r] = c] /\ c.pc \in {"idle", "page"}
    BY <1>4, EndCopy
  <2>. QED
    BY <1>4, <2>1 DEF Drop
<1>5. ASSUME NEW r \in Requests, Served(r) PROVE LoginInv'
  <2>1. PICK c \in Copies :
           req' = [req EXCEPT ![r] = c] /\ c.pc \in {"idle", "page"}
    BY <1>5, EndCopy
  <2>. QED
    BY <1>5, <2>1 DEF Served
<1>6. ASSUME NEW r \in Requests, Exchange(r) PROVE LoginInv'
  <2>1. PICK c \in Copies :
           req' = [req EXCEPT ![r] = c] /\ c.pc \in {"idle", "page"}
    BY <1>6, EndCopy
  <2>2. UNCHANGED <<begun, pending>>
    BY <1>6 DEF Exchange
  <2>3. \A b \in Browsers : stateCookie'[b] \in {stateCookie[b], None}
    BY <1>6 DEF Exchange, Answered
  <2>4. CASE UNCHANGED origin
    BY <2>1, <2>2, <2>3, <2>4
  <2>5. CASE \E s \in Sids :
                /\ origin[s] = None
                /\ req[r].code = req[r].flow
                /\ \A o \in Sids \ {s} : origin'[o] = origin[o]
                /\ origin'[s] # None /\ origin'[s].user = begun[req[r].code]
                /\ origin'[s].flow = req[r].flow /\ origin'[s].at = req[r].who
    <3>1. /\ req[r].pc = "exchange" /\ req[r].flow \in Flows
          /\ begun[req[r].flow] = req[r].who /\ req[r].who \in Browsers
          /\ pending[req[r].flow] = None
          /\ \A o \in Requests : req[o].pc = "exchange" /\ req[o].flow = req[r].flow => o = r
          /\ \A s \in Sids : origin[s] # None => origin[s].flow # req[r].flow
      BY <1>6 DEF Exchange
    <3>. QED
      BY <2>1, <2>2, <2>3, <2>5, <3>1
  <2>. QED
    BY <1>6, <2>4, <2>5, ExchangeRow
<1>7. ASSUME NEW r \in Requests, Leave(r) PROVE LoginInv'
  <2>1. PICK c \in Copies :
           /\ req' = [req EXCEPT ![r] = c] /\ c.pc = req[r].pc
           /\ c.who = req[r].who /\ c.flow = req[r].flow
    BY <1>7, LeaveCopy
  <2>. QED
    BY <1>7, <2>1 DEF Leave
<1>8. ASSUME NEW r \in Requests, NEW b \in Browsers, Page(r, b) PROVE LoginInv'
  <2>1. PICK c \in Copies :
           req' = [req EXCEPT ![r] = c] /\ c.pc \in {"idle", "page", "revalidate"}
    BY <1>8, PageCopy
  <2>. QED
    BY <1>8, <2>1 DEF Page
<1>9. ASSUME NEW r \in Requests, NEW b \in Browsers, NEW f \in Flows,
            NEW code \in sent \cup {None}, callbackHandler(r, b, f, code)
       PROVE  LoginInv'
  <2>1. PICK c \in Copies :
           /\ req' = [req EXCEPT ![r] = c]
           /\ \/ c.pc = "idle"
              \/ /\ c.pc = "exchange" /\ c.who = b /\ c.flow = f
                 /\ stateCookie[b] = f /\ pending[f] # None
                 /\ pending' = [pending EXCEPT ![f] = None]
                 /\ UNCHANGED stateCookie
    BY <1>9, CallbackCopy
  <2>2. /\ UNCHANGED <<begun, origin>>
        /\ \A g \in Flows : pending'[g] \in {pending[g], None}
        /\ \A o \in Browsers : stateCookie'[o] \in {stateCookie[o], None}
    BY <1>9 DEF callbackHandler, takePending
  <2>. QED
    BY <2>1, <2>2
<1>10. ASSUME NEW b \in Users, NEW f \in Flows, loginHandler(b, f)
       PROVE  LoginInv'
  <2>1. /\ begun[f] = None /\ b \in Browsers /\ UNCHANGED <<origin, req>>
        /\ begun' = [begun EXCEPT ![f] = b]
        /\ stateCookie' = [stateCookie EXCEPT ![b] = f]
        /\ \A g \in Flows \ {f} : pending'[g] \in {pending[g], None}
    BY <1>10 DEF loginHandler, putPending
  <2>. QED
    BY <2>1
<1>11. ASSUME NEW f \in Flows, SignIn(f) PROVE LoginInv'
  BY <1>11 DEF SignIn
<1>12. ASSUME NEW b \in Browsers, logoutHandler(b) PROVE LoginInv'
  BY <1>12 DEF logoutHandler
<1>13. ASSUME NEW b \in Users, Disable(b) PROVE LoginInv'
  BY <1>13 DEF Disable
<1>14. CASE Outage
  BY <1>14 DEF Outage
<1>15. CASE Recover
  BY <1>15 DEF Recover
<1>16. CASE Tick
  BY <1>16 DEF Tick
<1>17. CASE Restart
  BY <1>17, FreeSlot DEF Restart
<1>18. CASE UNCHANGED vars
  BY <1>18 DEF vars
<1>. QED
  BY <1>1, <1>2, <1>3, <1>4, <1>5, <1>6, <1>7, <1>8, <1>9, <1>10, <1>11,
     <1>12, <1>13, <1>14, <1>15, <1>16, <1>17, <1>18 DEF Next

\* Every action keeps rows and requests in time.
LEMMA TimeStep ==
    TypeOK /\ KnownInv /\ LoginInv /\ TimeInv /\ [Next]_vars => TimeInv'
<1> SUFFICES ASSUME TypeOK, KnownInv, LoginInv, TimeInv, [Next]_vars
             PROVE  TimeInv'
  OBVIOUS
<1> USE SessionAssumption DEF TypeOK, TimeInv, RowTime, RequestTime, InSession,
                               Enabled, UserOf, providerVars, loginVars, historyVars, storeVars, cookieVars
<1>1. ASSUME NEW r \in Requests, Refresh(r) PROVE TimeInv'
  <2>1. PICK c \in Copies :
           /\ req' = [req EXCEPT ![r] = c] /\ c.pc \in {"userinfo", "drop"}
           /\ c.sid = req[r].sid /\ c.began = req[r].began /\ (c.off => req[r].off)
    BY <1>1, RefreshCopy
  <2>. QED
    BY <1>1, <2>1 DEF Refresh
<1>2. ASSUME NEW r \in Requests, Userinfo(r) PROVE TimeInv'
  <2>1. PICK c \in Copies :
           /\ req' = [req EXCEPT ![r] = c]
           /\ c.sid = req[r].sid /\ c.began = req[r].began /\ (c.off => req[r].off)
           /\ \/ c.pc = "save" /\ Enabled(req[r].sid)
              \/ c.pc = "drop"
    BY <1>2, UserinfoCopy
  <2>. QED
    BY <1>2, <2>1 DEF Userinfo
<1>3. ASSUME NEW r \in Requests, Save(r) PROVE TimeInv'
  <2>1. PICK c \in Copies :
           req' = [req EXCEPT ![r] = c] /\ c.pc \in {"idle", "page"}
    BY <1>3, EndCopy
  <2>2. UNCHANGED <<clock, offAt, origin>>
    BY <1>3 DEF Save
  <2>3. /\ req[r].began \in Nat /\ req[r].sid \in Sids
        /\ req[r].began <= clock /\ clock <= req[r].began + Patience
        /\ ~Enabled(req[r].sid) => req[r].began <= offAt[UserOf(req[r].sid)]
        /\ origin[req[r].sid] # None
    BY <1>3 DEF Save, KnownInv, Copies
  <2>4. ~Enabled(req[r].sid) => clock <= offAt[UserOf(req[r].sid)] + Patience
    <3>1. offAt[UserOf(req[r].sid)] \in Nat \cup {None}
      BY <2>3 DEF LoginInv
    <3>. QED
      BY <2>3, <3>1
  <2>5. \A s \in Sids :
           \/ row'[s] = row[s]
           \/ /\ s = req[r].sid /\ row[s] # None /\ row'[s].last = clock
              /\ row'[s].exp = row[s].exp
    BY <1>3, SaveRow
  <2>. QED
    BY <2>1, <2>2, <2>4, <2>5
<1>4. ASSUME NEW r \in Requests, Drop(r) PROVE TimeInv'
  <2>1. PICK c \in Copies :
           req' = [req EXCEPT ![r] = c] /\ c.pc \in {"idle", "page"}
    BY <1>4, EndCopy
  <2>2. /\ UNCHANGED <<clock, offAt, origin>>
        /\ \A s \in Sids : row'[s] \in {row[s], None}
    BY <1>4 DEF Drop
  <2>. QED
    BY <2>1, <2>2
<1>5. ASSUME NEW r \in Requests, Served(r) PROVE TimeInv'
  <2>1. PICK c \in Copies :
           req' = [req EXCEPT ![r] = c] /\ c.pc \in {"idle", "page"}
    BY <1>5, EndCopy
  <2>. QED
    BY <1>5, <2>1 DEF Served
<1>6. ASSUME NEW r \in Requests, Exchange(r) PROVE TimeInv'
  <2>1. PICK c \in Copies :
           req' = [req EXCEPT ![r] = c] /\ c.pc \in {"idle", "page"}
    BY <1>6, EndCopy
  <2>2. UNCHANGED <<clock, offAt>>
    BY <1>6 DEF Exchange
  <2>3. CASE UNCHANGED <<row, origin>>
    BY <2>1, <2>2, <2>3
  <2>4. CASE \E s \in Sids :
                /\ origin[s] = None
                /\ \A o \in Sids \ {s} : origin'[o] = origin[o] /\ row'[o] = row[o]
                /\ origin'[s].user = begun[req[r].code] /\ origin'[s].made = clock
                /\ row'[s].last = clock /\ row'[s].exp = clock + SessionTTL
                /\ offAt[begun[req[r].code]] = None
    <3>1. \A o \in Requests : InSession(req[o]) => origin[req[o].sid] # None /\ req[o].sid \in Sids
      BY DEF KnownInv
    <3>2. \A s \in Sids : row[s] # None => origin[s] # None
      BY DEF KnownInv
    <3>. QED
      BY <2>1, <2>2, <2>4, <3>1, <3>2
  <2>. QED
    BY <1>6, <2>3, <2>4, ExchangeRow
<1>7. ASSUME NEW r \in Requests, Leave(r) PROVE TimeInv'
  <2>1. PICK c \in Copies :
           /\ req' = [req EXCEPT ![r] = c] /\ c.pc = req[r].pc
           /\ c.sid = req[r].sid /\ c.began = req[r].began /\ (c.off => req[r].off)
    BY <1>7, LeaveCopy
  <2>. QED
    BY <1>7, <2>1 DEF Leave
<1>8. ASSUME NEW r \in Requests, NEW b \in Browsers, Page(r, b) PROVE TimeInv'
  <2>1. PICK c \in Copies :
           /\ req' = [req EXCEPT ![r] = c]
           /\ \/ c.pc \in {"idle", "page"}
              \/ /\ sessionCookie[b] # None /\ ~SessionAbsent(sessionCookie[b])
                 /\ c.sid = sessionCookie[b] /\ c.pc = "revalidate"
                 /\ c.off => ~Enabled(sessionCookie[b])
                 /\ c.began = clock
    BY <1>8, PageCopy
  <2>2. /\ UNCHANGED <<clock, offAt, origin>>
        /\ \A s \in Sids : row'[s] \in {row[s], None}
    BY <1>8 DEF Page, GetSession
  <2>3. CASE c.pc \in {"idle", "page"}
    BY <2>1, <2>2, <2>3
  <2>4. CASE c.pc = "revalidate"
    <3>1. /\ c.sid \in Sids /\ row[c.sid] # None /\ ~(clock > row[c.sid].exp)
          /\ c.began = clock /\ (c.off => ~Enabled(c.sid))
      BY <2>1, <2>4 DEF SessionAbsent
    <3>2. row[c.sid].exp \in Nat
      BY <3>1 DEF Rows
    <3>3. clock <= origin[c.sid].made + SessionTTL
      BY <3>1, <3>2
    <3>. QED
      BY <2>1, <2>2, <2>4, <3>1, <3>3
  <2>. QED
    BY <2>1, <2>3, <2>4
<1>9. ASSUME NEW r \in Requests, NEW b \in Browsers, NEW f \in Flows,
            NEW code \in sent \cup {None}, callbackHandler(r, b, f, code)
       PROVE  TimeInv'
  <2>1. PICK c \in Copies :
           req' = [req EXCEPT ![r] = c] /\ c.pc \in {"idle", "exchange"}
    BY <1>9, CallbackCopy
  <2>. QED
    BY <1>9, <2>1 DEF callbackHandler
<1>10. ASSUME NEW b \in Users, NEW f \in Flows, loginHandler(b, f)
       PROVE  TimeInv'
  BY <1>10 DEF loginHandler, putPending
<1>11. ASSUME NEW f \in Flows, SignIn(f) PROVE TimeInv'
  BY <1>11 DEF SignIn
<1>12. ASSUME NEW b \in Browsers, logoutHandler(b) PROVE TimeInv'
  BY <1>12 DEF logoutHandler
<1>13. ASSUME NEW b \in Users, Disable(b) PROVE TimeInv'
  <2>1. \A s \in Sids : row[s] # None => row[s].last \in Nat
    BY DEF Rows
  <2>2. \A s \in Sids : origin[s] # None => UserOf(s) \in Browsers
    BY DEF LoginInv
  <2>3. \A q \in Requests : req[q].began \in Nat
    BY DEF Copies
  <2>4. /\ offAt[b] = None /\ offAt' = [offAt EXCEPT ![b] = clock] /\ b \in Browsers
        /\ UNCHANGED <<clock, row, origin, req>>
    BY <1>13 DEF Disable
  <2>5. \A s \in Sids : row[s] # None => RowTime(s)'
    BY <2>1, <2>2, <2>4 DEF KnownInv
  <2>6. \A q \in Requests : InSession(req[q]) => RequestTime(req[q])'
    BY <2>2, <2>3, <2>4 DEF KnownInv
  <2>. QED
    BY <2>4, <2>5, <2>6
<1>14. CASE Outage
  BY <1>14 DEF Outage
<1>15. CASE Recover
  BY <1>15 DEF Recover
<1>16. CASE Tick
  <2>1. \A s \in Sids : row[s] # None => row[s].last \in Nat
    BY DEF Rows
  <2>2. \A q \in Requests : req[q].began \in Nat
    BY DEF Copies
  <2>3. /\ clock' = clock + 1 /\ UNCHANGED <<offAt, row, origin, req>>
        /\ \A q \in Requests : InSession(req[q]) => clock - req[q].began < Patience
    BY <1>16 DEF Tick, Busy
  <2>4. \A s \in Sids : row[s] # None => RowTime(s)'
    BY <2>1, <2>3
  <2>5. \A q \in Requests : InSession(req[q]) => RequestTime(req[q])'
    BY <2>2, <2>3
  <2>. QED
    BY <2>3, <2>4, <2>5
<1>17. CASE Restart
  BY <1>17, FreeSlot DEF Restart
<1>18. CASE UNCHANGED vars
  BY <1>18 DEF vars
<1>. QED
  BY <1>1, <1>2, <1>3, <1>4, <1>5, <1>6, <1>7, <1>8, <1>9, <1>10, <1>11,
     <1>12, <1>13, <1>14, <1>15, <1>16, <1>17, <1>18 DEF Next

\* What no step takes back.
Steady ==
    /\ mode' = mode /\ faults' \in Nat /\ faults' >= faults /\ shared \subseteq shared'
    /\ \A s \in Sids : origin[s] # None => origin'[s] = origin[s]
    /\ \A b \in Browsers : offAt[b] # None => offAt'[b] = offAt[b]

\* Faults are counted, sessions are not made again, accounts stay disabled.
LEMMA SteadyStep == TypeOK /\ [Next]_vars => Steady
<1> SUFFICES ASSUME TypeOK, [Next]_vars PROVE Steady
  OBVIOUS
<1> USE SessionAssumption DEF TypeOK, Steady, providerVars, loginVars,
        historyVars, storeVars, cookieVars
<1>1. ASSUME NEW r \in Requests, Refresh(r) PROVE Steady
  BY <1>1 DEF Refresh
<1>2. ASSUME NEW r \in Requests, Userinfo(r) PROVE Steady
  BY <1>2 DEF Userinfo
<1>3. ASSUME NEW r \in Requests, Save(r) PROVE Steady
  BY <1>3 DEF Save
<1>4. ASSUME NEW r \in Requests, Drop(r) PROVE Steady
  BY <1>4 DEF Drop
<1>5. ASSUME NEW r \in Requests, Served(r) PROVE Steady
  BY <1>5 DEF Served
<1>6. ASSUME NEW r \in Requests, Exchange(r) PROVE Steady
  <2>1. UNCHANGED <<mode, shared, offAt>> /\ faults' \in Nat /\ faults' >= faults
    BY <1>6 DEF Exchange
  <2>2. \A s \in Sids : origin[s] # None => origin'[s] = origin[s]
    BY <1>6, ExchangeRow
  <2>. QED
    BY <2>1, <2>2
<1>7. ASSUME NEW r \in Requests, Leave(r) PROVE Steady
  BY <1>7 DEF Leave
<1>8. ASSUME NEW r \in Requests, NEW b \in Browsers, Page(r, b) PROVE Steady
  BY <1>8 DEF Page
<1>9. ASSUME NEW r \in Requests, NEW b \in Browsers, NEW f \in Flows,
            NEW code \in sent \cup {None}, callbackHandler(r, b, f, code)
       PROVE  Steady
  BY <1>9 DEF callbackHandler
<1>10. ASSUME NEW b \in Users, NEW f \in Flows, loginHandler(b, f) PROVE Steady
  BY <1>10 DEF loginHandler
<1>11. ASSUME NEW f \in Flows, SignIn(f) PROVE Steady
  BY <1>11 DEF SignIn
<1>12. ASSUME NEW b \in Browsers, logoutHandler(b) PROVE Steady
  BY <1>12 DEF logoutHandler
<1>13. ASSUME NEW b \in Users, Disable(b) PROVE Steady
  BY <1>13 DEF Disable
<1>14. CASE Outage
  BY <1>14 DEF Outage
<1>15. CASE Recover
  BY <1>15 DEF Recover
<1>16. CASE Tick
  BY <1>16 DEF Tick
<1>17. CASE Restart
  BY <1>17 DEF Restart
<1>18. CASE UNCHANGED vars
  BY <1>18 DEF vars
<1>. QED
  BY <1>1, <1>2, <1>3, <1>4, <1>5, <1>6, <1>7, <1>8, <1>9, <1>10, <1>11,
     <1>12, <1>13, <1>14, <1>15, <1>16, <1>17, <1>18 DEF Next

\* The provider is away and a request is cancelled only after a fault.
LEMMA FaultStep == TypeOK /\ FaultInv /\ [Next]_vars => FaultInv'
<1> SUFFICES ASSUME TypeOK, FaultInv, [Next]_vars PROVE FaultInv'
  OBVIOUS
<1> USE SessionAssumption DEF TypeOK, FaultInv, providerVars, loginVars,
        historyVars, storeVars, cookieVars
<1>0. faults' >= faults /\ faults \in Nat /\ faults' \in Nat
  BY SteadyStep DEF Steady
<1>1. ASSUME NEW r \in Requests, Refresh(r) PROVE FaultInv'
  <2>1. PICK c \in Copies :
           req' = [req EXCEPT ![r] = c] /\ (c.live \/ ~req[r].live)
    BY <1>1, RefreshCopy
  <2>2. UNCHANGED up
    BY <1>1 DEF Refresh
  <2>. QED
    BY <1>0, <2>1, <2>2
<1>2. ASSUME NEW r \in Requests, Userinfo(r) PROVE FaultInv'
  <2>1. PICK c \in Copies :
           req' = [req EXCEPT ![r] = c] /\ (c.live \/ ~req[r].live)
    BY <1>2, UserinfoCopy
  <2>2. UNCHANGED up
    BY <1>2 DEF Userinfo
  <2>. QED
    BY <1>0, <2>1, <2>2
<1>3. ASSUME NEW r \in Requests, Save(r) PROVE FaultInv'
  <2>1. PICK c \in Copies :
           req' = [req EXCEPT ![r] = c] /\ (c.live \/ ~req[r].live)
    BY <1>3, EndCopy
  <2>2. UNCHANGED up
    BY <1>3 DEF Save
  <2>. QED
    BY <1>0, <2>1, <2>2
<1>4. ASSUME NEW r \in Requests, Drop(r) PROVE FaultInv'
  <2>1. PICK c \in Copies :
           req' = [req EXCEPT ![r] = c] /\ (c.live \/ ~req[r].live)
    BY <1>4, EndCopy
  <2>2. UNCHANGED up
    BY <1>4 DEF Drop
  <2>. QED
    BY <1>0, <2>1, <2>2
<1>5. ASSUME NEW r \in Requests, Served(r) PROVE FaultInv'
  <2>1. PICK c \in Copies :
           req' = [req EXCEPT ![r] = c] /\ (c.live \/ ~req[r].live)
    BY <1>5, EndCopy
  <2>2. UNCHANGED up
    BY <1>5 DEF Served
  <2>. QED
    BY <1>0, <2>1, <2>2
<1>6. ASSUME NEW r \in Requests, Exchange(r) PROVE FaultInv'
  <2>1. PICK c \in Copies :
           req' = [req EXCEPT ![r] = c] /\ (c.live \/ ~req[r].live)
    BY <1>6, EndCopy
  <2>2. UNCHANGED up
    BY <1>6 DEF Exchange
  <2>. QED
    BY <1>0, <2>1, <2>2
<1>7. ASSUME NEW r \in Requests, Leave(r) PROVE FaultInv'
  BY <1>7, <1>0 DEF Leave
<1>8. ASSUME NEW r \in Requests, NEW b \in Browsers, Page(r, b) PROVE FaultInv'
  <2>1. PICK c \in Copies :
           req' = [req EXCEPT ![r] = c] /\ (c.live \/ ~req[r].live)
    BY <1>8, PageCopy
  <2>2. UNCHANGED up
    BY <1>8 DEF Page
  <2>. QED
    BY <1>0, <2>1, <2>2
<1>9. ASSUME NEW r \in Requests, NEW b \in Browsers, NEW f \in Flows,
            NEW code \in sent \cup {None}, callbackHandler(r, b, f, code)
       PROVE  FaultInv'
  <2>1. PICK c \in Copies :
           req' = [req EXCEPT ![r] = c] /\ (c.live \/ ~req[r].live)
    BY <1>9, CallbackCopy
  <2>2. UNCHANGED up
    BY <1>9 DEF callbackHandler
  <2>. QED
    BY <1>0, <2>1, <2>2
<1>10. ASSUME NEW b \in Users, NEW f \in Flows, loginHandler(b, f)
       PROVE  FaultInv'
  BY <1>10, <1>0 DEF loginHandler
<1>11. ASSUME NEW f \in Flows, SignIn(f) PROVE FaultInv'
  BY <1>11, <1>0 DEF SignIn
<1>12. ASSUME NEW b \in Browsers, logoutHandler(b) PROVE FaultInv'
  BY <1>12, <1>0 DEF logoutHandler
<1>13. ASSUME NEW b \in Users, Disable(b) PROVE FaultInv'
  BY <1>13, <1>0 DEF Disable
<1>14. CASE Outage
  BY <1>14, <1>0 DEF Outage
<1>15. CASE Recover
  BY <1>15, <1>0 DEF Recover
<1>16. CASE Tick
  BY <1>16, <1>0 DEF Tick
<1>17. CASE Restart
  BY <1>17, <1>0 DEF Restart
<1>18. CASE UNCHANGED vars
  BY <1>18, <1>0 DEF vars
<1>. QED
  BY <1>1, <1>2, <1>3, <1>4, <1>5, <1>6, <1>7, <1>8, <1>9, <1>10, <1>11,
     <1>12, <1>13, <1>14, <1>15, <1>16, <1>17, <1>18 DEF Next

\* A provider without rotation never changes the refresh token.
LEMMA FixedStep == TypeOK /\ KnownInv /\ FixedInv /\ [Next]_vars => FixedInv'
<1> SUFFICES ASSUME TypeOK, KnownInv, FixedInv, [Next]_vars PROVE FixedInv'
  OBVIOUS
<1> USE SessionAssumption DEF TypeOK, FixedInv, InSession, providerVars,
        loginVars, historyVars, storeVars, cookieVars
<1>1. ASSUME NEW r \in Requests, Refresh(r) PROVE FixedInv'
  <2>1. PICK c \in Copies :
           /\ req' = [req EXCEPT ![r] = c] /\ c.sid = req[r].sid
           /\ c.pc \in {"userinfo", "drop"}
           /\ \/ c.gen = req[r].gen /\ c.expiry = req[r].expiry
              \/ /\ c.gen = (IF mode = "rotating" THEN req[r].gen + 1 ELSE req[r].gen)
                 /\ c.expiry = NewExpiry
    BY <1>1, RefreshCopy
  <2>2. UNCHANGED <<mode, row>> /\ InSession(req[r])
    BY <1>1 DEF Refresh
  <2>3. mode # "rotating" => \A s \in Sids : grant'[s] = 0
    BY <1>1, <2>2 DEF Refresh
  <2>. QED
    BY <2>1, <2>2, <2>3 DEF NewExpiry
<1>2. ASSUME NEW r \in Requests, Userinfo(r) PROVE FixedInv'
  <2>1. PICK c \in Copies :
           /\ req' = [req EXCEPT ![r] = c]
           /\ c.gen = req[r].gen /\ c.expiry = req[r].expiry
    BY <1>2, UserinfoCopy
  <2>. QED
    BY <1>2, <2>1 DEF Userinfo
<1>3. ASSUME NEW r \in Requests, Save(r) PROVE FixedInv'
  <2>1. PICK c \in Copies :
           req' = [req EXCEPT ![r] = c] /\ c.pc \in {"idle", "page"}
    BY <1>3, EndCopy
  <2>2. UNCHANGED <<mode, grant>> /\ InSession(req[r])
    BY <1>3 DEF Save
  <2>3. \A s \in Sids :
           \/ row'[s] = row[s]
           \/ row'[s].gen = req[r].gen /\ row'[s].expiry = req[r].expiry
    BY <1>3, SaveRow
  <2>. QED
    BY <2>1, <2>2, <2>3
<1>4. ASSUME NEW r \in Requests, Drop(r) PROVE FixedInv'
  <2>1. PICK c \in Copies :
           req' = [req EXCEPT ![r] = c] /\ c.pc \in {"idle", "page"}
    BY <1>4, EndCopy
  <2>2. /\ UNCHANGED <<mode, grant>>
        /\ \A s \in Sids : row'[s] \in {row[s], None}
    BY <1>4 DEF Drop
  <2>. QED
    BY <2>1, <2>2
<1>5. ASSUME NEW r \in Requests, Served(r) PROVE FixedInv'
  <2>1. PICK c \in Copies :
           req' = [req EXCEPT ![r] = c] /\ c.pc \in {"idle", "page"}
    BY <1>5, EndCopy
  <2>. QED
    BY <1>5, <2>1 DEF Served
<1>6. ASSUME NEW r \in Requests, Exchange(r) PROVE FixedInv'
  <2>1. PICK c \in Copies :
           req' = [req EXCEPT ![r] = c] /\ c.pc \in {"idle", "page"}
    BY <1>6, EndCopy
  <2>2. UNCHANGED <<mode, grant>>
    BY <1>6 DEF Exchange
  <2>3. \/ UNCHANGED row
        \/ \E s \in Sids :
              /\ \A o \in Sids \ {s} : row'[o] = row[o]
              /\ row'[s].gen = 0 /\ row'[s].expiry = NewExpiry
    BY <1>6, ExchangeRow
  <2>. QED
    BY <2>1, <2>2, <2>3 DEF NewExpiry
<1>7. ASSUME NEW r \in Requests, Leave(r) PROVE FixedInv'
  <2>1. PICK c \in Copies :
           /\ req' = [req EXCEPT ![r] = c] /\ c.pc = req[r].pc
           /\ c.gen = req[r].gen /\ c.expiry = req[r].expiry
    BY <1>7, LeaveCopy
  <2>. QED
    BY <1>7, <2>1 DEF Leave
<1>8. ASSUME NEW r \in Requests, NEW b \in Browsers, Page(r, b) PROVE FixedInv'
  <2>1. PICK c \in Copies :
           /\ req' = [req EXCEPT ![r] = c]
           /\ \/ c.pc \in {"idle", "page"}
              \/ /\ sessionCookie[b] # None /\ ~SessionAbsent(sessionCookie[b])
                 /\ c.sid = sessionCookie[b]
                 /\ c.gen = row[c.sid].gen /\ c.expiry = row[c.sid].expiry
    BY <1>8, PageCopy
  <2>2. /\ UNCHANGED <<mode, grant>>
        /\ \A s \in Sids : row'[s] \in {row[s], None}
    BY <1>8 DEF Page, GetSession
  <2>. QED
    BY <2>1, <2>2 DEF SessionAbsent
<1>9. ASSUME NEW r \in Requests, NEW b \in Browsers, NEW f \in Flows,
            NEW code \in sent \cup {None}, callbackHandler(r, b, f, code)
       PROVE  FixedInv'
  <2>1. PICK c \in Copies :
           req' = [req EXCEPT ![r] = c] /\ c.pc \in {"idle", "exchange"}
    BY <1>9, CallbackCopy
  <2>. QED
    BY <1>9, <2>1 DEF callbackHandler
<1>10. ASSUME NEW b \in Users, NEW f \in Flows, loginHandler(b, f)
       PROVE  FixedInv'
  BY <1>10 DEF loginHandler
<1>11. ASSUME NEW f \in Flows, SignIn(f) PROVE FixedInv'
  BY <1>11 DEF SignIn
<1>12. ASSUME NEW b \in Browsers, logoutHandler(b) PROVE FixedInv'
  BY <1>12 DEF logoutHandler
<1>13. ASSUME NEW b \in Users, Disable(b) PROVE FixedInv'
  BY <1>13 DEF Disable
<1>14. CASE Outage
  BY <1>14 DEF Outage
<1>15. CASE Recover
  BY <1>15 DEF Recover
<1>16. CASE Tick
  BY <1>16 DEF Tick
<1>17. CASE Restart
  BY <1>17, FreeSlot DEF Restart
<1>18. CASE UNCHANGED vars
  BY <1>18 DEF vars
<1>. QED
  BY <1>1, <1>2, <1>3, <1>4, <1>5, <1>6, <1>7, <1>8, <1>9, <1>10, <1>11,
     <1>12, <1>13, <1>14, <1>15, <1>16, <1>17, <1>18 DEF Next

\* With rotation, the one request of a session or its row has the token.
LEMMA RotatingStep ==
    TypeOK /\ KnownInv /\ FaultInv /\ RotatingInv
    /\ [Next]_vars => RotatingInv'
<1> SUFFICES ASSUME TypeOK, KnownInv, FaultInv, RotatingInv, [Next]_vars,
                    (mode = "rotating" /\ faults = 0)'
             PROVE  RotatingInv'
  BY DEF RotatingInv
<1> USE SessionAssumption DEF TypeOK, RotatingInv, Alone, InSession,
        providerVars, loginVars, historyVars, storeVars, cookieVars
<1>0. /\ mode = "rotating" /\ faults = 0 /\ faults' = 0
      /\ \A r \in Requests : req[r].live
  <2>1. /\ mode = "rotating" /\ faults' >= faults /\ faults \in Nat /\ faults' = 0
    BY SteadyStep DEF Steady
  <2>2. faults = 0
    BY <2>1
  <2>. QED
    BY <2>1, <2>2 DEF FaultInv
<1>1. ASSUME NEW r \in Requests, Refresh(r) PROVE RotatingInv'
  <2>1. PICK c \in Copies :
           /\ req' = [req EXCEPT ![r] = c] /\ c.sid = req[r].sid
           /\ \/ c.pc = "userinfo" /\ c.gen = req[r].gen /\ UNCHANGED grant
              \/ c.pc = "userinfo" /\ grant' = [grant EXCEPT ![c.sid] = c.gen]
              \/ c.pc = "drop" /\ UNCHANGED grant
    BY <1>0, <1>1, RefreshCopy
  <2>2. UNCHANGED <<row, origin, shared>> /\ req[r].pc = "revalidate"
    BY <1>1 DEF Refresh
  <2>3. req[r].sid \in Sids /\ origin[req[r].sid] # None
    BY <2>2 DEF KnownInv
  <2>. QED
    BY <1>0, <2>1, <2>2, <2>3
<1>2. ASSUME NEW r \in Requests, Userinfo(r) PROVE RotatingInv'
  <2>1. PICK c \in Copies :
           /\ req' = [req EXCEPT ![r] = c] /\ c.sid = req[r].sid
           /\ c.gen = req[r].gen /\ c.pc \in {"save", "drop"}
    BY <1>2, UserinfoCopy
  <2>2. UNCHANGED <<row, origin, shared, grant>> /\ req[r].pc = "userinfo"
    BY <1>2 DEF Userinfo
  <2>. QED
    BY <1>0, <2>1, <2>2
<1>3. ASSUME NEW r \in Requests, Save(r) PROVE RotatingInv'
  <2>1. PICK c \in Copies :
           req' = [req EXCEPT ![r] = c] /\ c.pc \in {"idle", "page"}
    BY <1>3, EndCopy
  <2>2. UNCHANGED <<origin, shared, grant>> /\ req[r].pc = "save"
    BY <1>3 DEF Save
  <2>3. \A s \in Sids :
           \/ row'[s] = row[s] /\ (s # req[r].sid \/ row[s] = None)
           \/ s = req[r].sid /\ row'[s].gen = req[r].gen
    BY <1>0, <1>3, SaveRow
  <2>. QED
    BY <1>0, <2>1, <2>2, <2>3
<1>4. ASSUME NEW r \in Requests, Drop(r) PROVE RotatingInv'
  <2>1. PICK c \in Copies :
           req' = [req EXCEPT ![r] = c] /\ c.pc \in {"idle", "page"}
    BY <1>4, EndCopy
  <2>2. UNCHANGED <<origin, shared, grant>> /\ req[r].pc = "drop"
    BY <1>4 DEF Drop
  <2>3. \A s \in Sids :
           \/ row'[s] = row[s] /\ s # req[r].sid
           \/ row'[s] = None
    BY <1>0, <1>4 DEF Drop
  <2>. QED
    BY <1>0, <2>1, <2>2, <2>3
<1>5. ASSUME NEW r \in Requests, Served(r) PROVE RotatingInv'
  <2>1. PICK c \in Copies :
           req' = [req EXCEPT ![r] = c] /\ c.pc \in {"idle", "page"}
    BY <1>5, EndCopy
  <2>2. UNCHANGED <<row, origin, shared, grant>> /\ req[r].pc = "page"
    BY <1>5 DEF Served
  <2>. QED
    BY <1>0, <2>1, <2>2
<1>6. ASSUME NEW r \in Requests, Exchange(r) PROVE RotatingInv'
  <2>1. PICK c \in Copies :
           req' = [req EXCEPT ![r] = c] /\ c.pc \in {"idle", "page"}
    BY <1>6, EndCopy
  <2>2. UNCHANGED <<shared, grant>> /\ req[r].pc = "exchange"
    BY <1>6 DEF Exchange
  <2>3. CASE UNCHANGED <<row, origin>>
    BY <1>0, <2>1, <2>2, <2>3
  <2>4. CASE \E s \in Sids :
                /\ origin[s] = None
                /\ \A o \in Sids \ {s} : origin'[o] = origin[o] /\ row'[o] = row[o]
                /\ origin'[s] # None /\ row'[s].gen = 0
    BY <1>0, <2>1, <2>2, <2>4 DEF KnownInv
  <2>. QED
    BY <1>6, <2>3, <2>4, ExchangeRow
<1>7. ASSUME NEW r \in Requests, Leave(r) PROVE RotatingInv'
  BY <1>7, <1>0 DEF Leave
<1>8. ASSUME NEW r \in Requests, NEW b \in Browsers, Page(r, b)
      PROVE  RotatingInv'
  <2>1. PICK c \in Copies :
           /\ req' = [req EXCEPT ![r] = c]
           /\ \/ c.pc \in {"idle", "page"}
              \/ /\ sessionCookie[b] # None /\ ~SessionAbsent(sessionCookie[b])
                 /\ UNCHANGED row
                 /\ c.sid = sessionCookie[b] /\ c.gen = row[c.sid].gen
                 /\ c.pc = "revalidate"
    BY <1>8, PageCopy
  <2>2. /\ UNCHANGED <<mode, grant, origin>> /\ req[r].pc = "idle"
        /\ \A s \in Sids : row'[s] \in {row[s], None}
        /\ shared \subseteq shared'
    BY <1>8 DEF Page, GetSession
  <2>3. CASE c.pc \in {"idle", "page"}
    BY <1>0, <2>1, <2>2, <2>3
  <2>4. CASE c.pc = "revalidate"
    <3>1. /\ c.sid \in Sids /\ row[c.sid] # None /\ UNCHANGED row
          /\ c.gen = row[c.sid].gen /\ origin[c.sid] # None
      BY <2>1, <2>4 DEF SessionAbsent, KnownInv
    <3>2. req'[r].pc = "revalidate" /\ sessionCookie[b] = c.sid
      BY <2>1, <2>4
    <3>3. c.sid \notin shared' =>
             \A o \in Requests \ {r} : ~(InSession(req[o]) /\ req[o].sid = c.sid)
      <4>1. ~\E a \in WithoutSession : req' = [req EXCEPT ![r] = a]
        BY <3>2, Turned
      <4>2. shared' = IF \E o \in Requests \ {r} :
                            req[o].pc \in Busy /\ req[o].sid = sessionCookie[b]
                      THEN shared \cup {sessionCookie[b]} ELSE shared
        BY <1>8, <4>1 DEF Page
      <4>. QED
        BY <3>2, <4>2 DEF Busy
    <3>. QED
      BY <1>0, <2>1, <2>2, <2>4, <3>1, <3>3
  <2>. QED
    BY <2>1, <2>3, <2>4
<1>9. ASSUME NEW r \in Requests, NEW b \in Browsers, NEW f \in Flows,
            NEW code \in sent \cup {None}, callbackHandler(r, b, f, code)
       PROVE  RotatingInv'
  <2>1. PICK c \in Copies :
           req' = [req EXCEPT ![r] = c] /\ c.pc \in {"idle", "exchange"}
    BY <1>9, CallbackCopy
  <2>2. UNCHANGED <<row, origin, shared, grant>> /\ req[r].pc = "idle"
    BY <1>9 DEF callbackHandler
  <2>. QED
    BY <1>0, <2>1, <2>2
<1>10. ASSUME NEW b \in Users, NEW f \in Flows, loginHandler(b, f)
       PROVE  RotatingInv'
  BY <1>10, <1>0 DEF loginHandler
<1>11. ASSUME NEW f \in Flows, SignIn(f) PROVE RotatingInv'
  BY <1>11, <1>0 DEF SignIn
<1>12. ASSUME NEW b \in Browsers, logoutHandler(b) PROVE RotatingInv'
  <2>1. /\ UNCHANGED <<origin, shared, grant, req>>
        /\ \A s \in Sids : row'[s] \in {row[s], None}
    BY <1>12 DEF logoutHandler
  <2>. QED
    BY <1>0, <2>1
<1>13. ASSUME NEW b \in Users, Disable(b) PROVE RotatingInv'
  BY <1>13, <1>0 DEF Disable
<1>14. CASE Outage
  BY <1>14, <1>0 DEF Outage
<1>15. CASE Recover
  BY <1>15, <1>0 DEF Recover
<1>16. CASE Tick
  BY <1>16, <1>0 DEF Tick
<1>17. CASE Restart
  BY <1>17, <1>0 DEF Restart
<1>18. CASE UNCHANGED vars
  BY <1>18, <1>0 DEF vars
<1>. QED
  BY <1>1, <1>2, <1>3, <1>4, <1>5, <1>6, <1>7, <1>8, <1>9, <1>10, <1>11,
     <1>12, <1>13, <1>14, <1>15, <1>16, <1>17, <1>18 DEF Next

\* A session is refused, and a request on its way to refuse it, for a cause.
LEMMA CauseStep ==
    TypeOK /\ KnownInv /\ LoginInv /\ FaultInv /\ FixedInv /\ RotatingInv /\ CauseInv
    /\ [Next]_vars => CauseInv'
<1> SUFFICES ASSUME TypeOK, KnownInv, LoginInv, FaultInv, FixedInv,
                    RotatingInv, CauseInv, [Next]_vars
             PROVE  CauseInv'
  OBVIOUS
<1> USE SessionAssumption DEF TypeOK, CauseInv, providerVars, loginVars,
        historyVars, storeVars, cookieVars
<1>0. /\ \A s \in Sids : origin[s] # None => origin'[s] # None /\ (Cause(s) => Cause(s)')
      /\ \A r \in Requests : req[r].pc = "drop" =>
            req[r].sid \in Sids /\ origin[req[r].sid] # None
  <2>1. ASSUME NEW s \in Sids, origin[s] # None, Cause(s)
        PROVE  origin'[s] # None /\ Cause(s)'
    <3>1. origin'[s] = origin[s] /\ UserOf(s) \in Browsers
      BY <2>1, SteadyStep DEF Steady, LoginInv, UserOf
    <3>2. ~Enabled(s) => ~Enabled(s)'
      BY <3>1, SteadyStep DEF Steady, Enabled, UserOf
    <3>3. faults > 0 => faults' > 0
      BY SteadyStep DEF Steady
    <3>. QED
      BY <2>1, <3>1, <3>2, <3>3, SteadyStep DEF Steady, Cause
  <2>2. \A s \in Sids : origin[s] # None => origin'[s] # None
    BY SteadyStep DEF Steady
  <2>. QED
    BY <2>1, <2>2 DEF KnownInv, InSession
<1>1. ASSUME NEW r \in Requests, Refresh(r) PROVE CauseInv'
  <2>1. PICK c \in Copies :
           /\ req' = [req EXCEPT ![r] = c] /\ c.sid = req[r].sid
           /\ \/ c.pc = "userinfo"
              \/ /\ c.pc = "drop"
                 /\ \/ faults' > 0
                    \/ ~Reaches(req[r])
                    \/ TokenExpired(req[r]) /\ ~Honoured(req[r])
    BY <1>1, RefreshCopy
  <2>2. UNCHANGED <<refused, origin, mode, shared>> /\ req[r].pc = "revalidate"
    BY <1>1 DEF Refresh
  <2>3. req[r].sid \in Sids /\ origin[req[r].sid] # None
    BY <2>2 DEF KnownInv, InSession
  <2>4. ~Reaches(req[r]) => Cause(req[r].sid)
    BY DEF Reaches, FaultInv, Cause
  <2>5. TokenExpired(req[r]) /\ ~Honoured(req[r]) => Cause(req[r].sid)
    <3>1. mode # "eternal" \/ ~TokenExpired(req[r])
      BY <2>2 DEF FixedInv, TokenExpired, InSession
    <3>2. mode = "fixed" => req[r].gen = grant[req[r].sid]
      BY <2>2, <2>3 DEF FixedInv, InSession
    <3>3. mode = "rotating" /\ ~(faults > 0) /\ req[r].sid \notin shared
             => req[r].gen = grant[req[r].sid]
      BY <2>2, <2>3 DEF RotatingInv, InSession
    <3>. QED
      BY <3>1, <3>2, <3>3 DEF Honoured, Cause
  <2>6. c.pc = "drop" => Cause(c.sid)'
    <3>1. CASE faults' > 0
      BY <3>1 DEF Cause
    <3>2. CASE ~(faults' > 0)
      BY <1>0, <2>1, <2>3, <2>4, <2>5, <3>2
    <3>. QED
      BY <3>1, <3>2
  <2>. QED
    BY <1>0, <2>1, <2>2, <2>6
<1>2. ASSUME NEW r \in Requests, Userinfo(r) PROVE CauseInv'
  <2>1. PICK c \in Copies :
           /\ req' = [req EXCEPT ![r] = c] /\ c.sid = req[r].sid
           /\ c.pc = "save" \/ ~Reaches(req[r]) \/ ~Enabled(req[r].sid)
    BY <1>2, UserinfoCopy
  <2>2. UNCHANGED refused /\ req[r].pc = "userinfo"
    BY <1>2 DEF Userinfo
  <2>3. req[r].sid \in Sids /\ origin[req[r].sid] # None
    BY <2>2 DEF KnownInv, InSession
  <2>4. c.pc = "save" \/ Cause(req[r].sid)
    BY <2>1 DEF Reaches, FaultInv, Cause
  <2>. QED
    BY <1>0, <2>1, <2>2, <2>3, <2>4
<1>3. ASSUME NEW r \in Requests, Save(r) PROVE CauseInv'
  <2>1. PICK c \in Copies :
           req' = [req EXCEPT ![r] = c] /\ c.pc \in {"idle", "page"}
    BY <1>3, EndCopy
  <2>2. UNCHANGED refused
    BY <1>3 DEF Save
  <2>. QED
    BY <1>0, <2>1, <2>2
<1>4. ASSUME NEW r \in Requests, Drop(r) PROVE CauseInv'
  <2>1. PICK c \in Copies :
           req' = [req EXCEPT ![r] = c] /\ c.pc \in {"idle", "page"}
    BY <1>4, EndCopy
  <2>2. refused' \subseteq refused \cup {req[r].sid} /\ req[r].pc = "drop"
    BY <1>4 DEF Drop
  <2>3. req[r].sid \in Sids /\ origin[req[r].sid] # None
    BY <2>2 DEF KnownInv, InSession
  <2>. QED
    BY <1>0, <2>1, <2>2, <2>3
<1>5. ASSUME NEW r \in Requests, Served(r) PROVE CauseInv'
  <2>1. PICK c \in Copies :
           req' = [req EXCEPT ![r] = c] /\ c.pc \in {"idle", "page"}
    BY <1>5, EndCopy
  <2>2. UNCHANGED refused
    BY <1>5 DEF Served
  <2>. QED
    BY <1>0, <2>1, <2>2
<1>6. ASSUME NEW r \in Requests, Exchange(r) PROVE CauseInv'
  <2>1. PICK c \in Copies :
           req' = [req EXCEPT ![r] = c] /\ c.pc \in {"idle", "page"}
    BY <1>6, EndCopy
  <2>2. UNCHANGED refused
    BY <1>6 DEF Exchange
  <2>. QED
    BY <1>0, <2>1, <2>2
<1>7. ASSUME NEW r \in Requests, Leave(r) PROVE CauseInv'
  <2>1. PICK c \in Copies :
           req' = [req EXCEPT ![r] = c] /\ c.pc = req[r].pc /\ c.sid = req[r].sid
    BY <1>7, LeaveCopy
  <2>2. UNCHANGED refused
    BY <1>7 DEF Leave
  <2>. QED
    BY <1>0, <2>1, <2>2 DEF KnownInv, InSession
<1>8. ASSUME NEW r \in Requests, NEW b \in Browsers, Page(r, b) PROVE CauseInv'
  <2>1. PICK c \in Copies :
           req' = [req EXCEPT ![r] = c] /\ c.pc \in {"idle", "page", "revalidate"}
    BY <1>8, PageCopy
  <2>2. UNCHANGED refused
    BY <1>8 DEF Page
  <2>. QED
    BY <1>0, <2>1, <2>2
<1>9. ASSUME NEW r \in Requests, NEW b \in Browsers, NEW f \in Flows,
            NEW code \in sent \cup {None}, callbackHandler(r, b, f, code)
       PROVE  CauseInv'
  <2>1. PICK c \in Copies :
           req' = [req EXCEPT ![r] = c] /\ c.pc \in {"idle", "exchange"}
    BY <1>9, CallbackCopy
  <2>2. UNCHANGED refused
    BY <1>9 DEF callbackHandler
  <2>. QED
    BY <1>0, <2>1, <2>2
<1>10. ASSUME NEW b \in Users, NEW f \in Flows, loginHandler(b, f)
       PROVE  CauseInv'
  BY <1>10, <1>0 DEF loginHandler
<1>11. ASSUME NEW f \in Flows, SignIn(f) PROVE CauseInv'
  BY <1>11, <1>0 DEF SignIn
<1>12. ASSUME NEW b \in Browsers, logoutHandler(b) PROVE CauseInv'
  BY <1>12, <1>0 DEF logoutHandler
<1>13. ASSUME NEW b \in Users, Disable(b) PROVE CauseInv'
  BY <1>13, <1>0 DEF Disable
<1>14. CASE Outage
  BY <1>14, <1>0 DEF Outage
<1>15. CASE Recover
  BY <1>15, <1>0 DEF Recover
<1>16. CASE Tick
  BY <1>16, <1>0 DEF Tick
<1>17. CASE Restart
  <2>1. UNCHANGED refused /\ \A r \in Requests : req'[r].pc = "idle"
    BY <1>17, FreeSlot DEF Restart
  <2>. QED
    BY <1>0, <2>1
<1>18. CASE UNCHANGED vars
  BY <1>18, <1>0 DEF vars
<1>. QED
  BY <1>1, <1>2, <1>3, <1>4, <1>5, <1>6, <1>7, <1>8, <1>9, <1>10, <1>11,
     <1>12, <1>13, <1>14, <1>15, <1>16, <1>17, <1>18 DEF Next

\* How a page is opened to a session: at the end of a revalidation, or at
\* once when the row was checked recently.
OpensOnly == \A p \in Requests : Opens(p) =>
    \/ /\ req[p].pc = "save" /\ req'[p].sid = req[p].sid
       /\ req'[p].off => req[p].off
    \/ LET s == req'[p].sid
       IN  /\ req[p].pc = "idle" /\ s \in Sids /\ row[s] # None
           /\ ~(clock > row[s].exp) /\ clock - row[s].last < window
           /\ req'[p].off => ~Enabled(s)

\* No other step opens a page to a session.
LEMMA OpensStep == TypeOK /\ [Next]_vars => OpensOnly
<1> SUFFICES ASSUME TypeOK, [Next]_vars PROVE OpensOnly
  OBVIOUS
<1> USE SessionAssumption DEF TypeOK, OpensOnly, Opens, providerVars,
        loginVars, historyVars, storeVars, cookieVars
<1>1. ASSUME NEW r \in Requests, Refresh(r) PROVE OpensOnly
  <2>1. PICK c \in Copies :
           req' = [req EXCEPT ![r] = c] /\ c.pc \in {"userinfo", "drop"}
    BY <1>1, RefreshCopy
  <2>. QED
    BY <2>1
<1>2. ASSUME NEW r \in Requests, Userinfo(r) PROVE OpensOnly
  <2>1. PICK c \in Copies :
           req' = [req EXCEPT ![r] = c] /\ c.pc \in {"save", "drop"}
    BY <1>2, UserinfoCopy
  <2>. QED
    BY <2>1
<1>3. ASSUME NEW r \in Requests, Save(r) PROVE OpensOnly
  <2>1. PICK c \in Copies :
           /\ req' = [req EXCEPT ![r] = c]
           /\ c.sid = None \/ (c.sid = req[r].sid /\ (c.off => req[r].off))
    BY <1>3, EndCopy
  <2>. QED
    BY <1>3, <2>1 DEF Save
<1>4. ASSUME NEW r \in Requests, Drop(r) PROVE OpensOnly
  <2>1. PICK a \in WithoutSession : req' = [req EXCEPT ![r] = a]
    BY <1>4 DEF Drop
  <2>. QED
    BY <2>1, Turned
<1>5. ASSUME NEW r \in Requests, Served(r) PROVE OpensOnly
  BY <1>5, FreeSlot DEF Served
<1>6. ASSUME NEW r \in Requests, Exchange(r) PROVE OpensOnly
  BY <1>6, FreeSlot DEF Exchange
<1>7. ASSUME NEW r \in Requests, Leave(r) PROVE OpensOnly
  <2>1. PICK c \in Copies : req' = [req EXCEPT ![r] = c] /\ c.pc = req[r].pc
    BY <1>7, LeaveCopy
  <2>. QED
    BY <2>1
<1>8. ASSUME NEW r \in Requests, NEW b \in Browsers, Page(r, b) PROVE OpensOnly
  <2>1. PICK c \in Copies :
           /\ req' = [req EXCEPT ![r] = c]
           /\ \/ c.sid = None
              \/ /\ sessionCookie[b] # None /\ ~SessionAbsent(sessionCookie[b])
                 /\ c.sid = sessionCookie[b]
                 /\ c.off => ~Enabled(sessionCookie[b])
                 /\ c.pc # "page" \/ clock - row[c.sid].last < window
    BY <1>8, PageCopy
  <2>2. req[r].pc = "idle"
    BY <1>8 DEF Page
  <2>. QED
    BY <2>1, <2>2 DEF SessionAbsent
<1>9. ASSUME NEW r \in Requests, NEW b \in Browsers, NEW f \in Flows,
            NEW code \in sent \cup {None}, callbackHandler(r, b, f, code)
       PROVE  OpensOnly
  <2>1. PICK c \in Copies :
           req' = [req EXCEPT ![r] = c] /\ c.pc \in {"idle", "exchange"}
    BY <1>9, CallbackCopy
  <2>. QED
    BY <2>1
<1>10. ASSUME NEW b \in Users, NEW f \in Flows, loginHandler(b, f)
       PROVE  OpensOnly
  BY <1>10 DEF loginHandler
<1>11. ASSUME NEW f \in Flows, SignIn(f) PROVE OpensOnly
  BY <1>11 DEF SignIn
<1>12. ASSUME NEW b \in Browsers, logoutHandler(b) PROVE OpensOnly
  BY <1>12 DEF logoutHandler
<1>13. ASSUME NEW b \in Users, Disable(b) PROVE OpensOnly
  BY <1>13 DEF Disable
<1>14. CASE Outage
  BY <1>14 DEF Outage
<1>15. CASE Recover
  BY <1>15 DEF Recover
<1>16. CASE Tick
  BY <1>16 DEF Tick
<1>17. CASE Restart
  BY <1>17, FreeSlot DEF Restart
<1>18. CASE UNCHANGED vars
  BY <1>18 DEF vars
<1>. QED
  BY <1>1, <1>2, <1>3, <1>4, <1>5, <1>6, <1>7, <1>8, <1>9, <1>10, <1>11,
     <1>12, <1>13, <1>14, <1>15, <1>16, <1>17, <1>18 DEF Next

----------------------------------------------------------------------------
(* The invariant and what follows from it.                                 *)

\* The process starts in the invariant.
LEMMA InitInv == Init => IInv
<1> SUFFICES ASSUME Init PROVE IInv
  OBVIOUS
<1>1. \A r \in Requests : req[r] = NoRequest
  BY DEF Init
<1>2. \A r \in Requests : req[r].pc = "idle" /\ req[r].live
  BY <1>1, FreeSlot
<1>3. TypeOK
  <2>1. req \in [Requests -> Copies]
    BY FreeSlot DEF Init
  <2>2. up \in BOOLEAN /\ discovered \in BOOLEAN
    BY DEF Init
  <2>. QED
    BY <2>1, <2>2, SessionAssumption DEF Init, TypeOK
<1>4. KnownInv /\ LoginInv /\ TimeInv
  BY <1>2 DEF Init, KnownInv, LoginInv, LoginIsBound, TimeInv, InSession
<1>5. FaultInv
  BY <1>2 DEF Init, FaultInv
<1>6. FixedInv /\ RotatingInv
  BY <1>2 DEF Init, FixedInv, RotatingInv, Alone, InSession
<1>7. CauseInv
  BY <1>2 DEF Init, CauseInv
<1>. QED
  BY <1>3, <1>4, <1>5, <1>6, <1>7 DEF IInv

\* Every step keeps the invariant.
LEMMA StepInv == IInv /\ [Next]_vars => IInv'
  BY TypeStep, KnownStep, LoginStep, TimeStep, FaultStep, FixedStep,
     RotatingStep,
     CauseStep DEF IInv

\* The invariant holds in every state of the sign-in.
THEOREM SessionInvariant == Spec => []IInv
<1>. QED
  BY InitInv, StepInv, PTL DEF Spec

\* Every variable has its type, whatever the constants.
THEOREM TypeCorrect == Spec => []TypeOK
<1>1. IInv => TypeOK
  BY DEF IInv
<1>. QED
  BY <1>1, SessionInvariant, PTL

\* A session row that was deleted, by logout, expiry or a failed revalidation,
\* never comes back, whatever request still holds a copy of it.
THEOREM EndedSessionStaysEnded == Spec => []EndedStaysEnded
<1>1. IInv => EndedStaysEnded
  BY DEF IInv, KnownInv, EndedStaysEnded
<1>. QED
  BY <1>1, SessionInvariant, PTL

\* A login attempt makes at most one session, where it began and for the
\* account that signed in, for any set of browsers and callback URLs.
THEOREM LoginStaysBound == Spec => []LoginIsBound
<1>1. IInv => LoginIsBound
  BY DEF IInv, LoginInv
<1>. QED
  BY <1>1, SessionInvariant, PTL

\* A revalidation ends a session only for one of the causes the property names.
THEOREM SessionLostForCause == Spec => []LostSessionHasCause
<1>1. IInv => LostSessionHasCause
  BY DEF IInv, CauseInv, Cause, LostSessionHasCause
<1>. QED
  BY <1>1, SessionInvariant, PTL

\* A session opens no page to a request that came after the disable, but for
\* the revalidation window and the requests that were under way.
THEOREM DisableCuts == Spec => DisableCutsAccess
<1>1. IInv /\ [Next]_vars => [\A r \in Requests : Opens(r) =>
          \/ ~req'[r].off
          \/ /\ req[r].pc = "idle"
             /\ clock < offAt[UserOf(req'[r].sid)] + Patience + window]_vars
  <2> SUFFICES ASSUME IInv, [Next]_vars, NEW r \in Requests, Opens(r),
                      req'[r].off
               PROVE  /\ req[r].pc = "idle"
                      /\ clock < offAt[UserOf(req'[r].sid)] + Patience + window
    OBVIOUS
  <2> DEFINE s == req'[r].sid
  <2>1. CASE req[r].pc = "save" /\ (req'[r].off => req[r].off)
    BY <2>1 DEF IInv, TimeInv, InSession, RequestTime
  <2>2. CASE /\ req[r].pc = "idle" /\ s \in Sids /\ row[s] # None
             /\ clock - row[s].last < window /\ (req'[r].off => ~Enabled(s))
    <3>1. row[s] \in Rows /\ origin[s] # None /\ UserOf(s) \in Browsers
      BY <2>2 DEF IInv, TypeOK, KnownInv, LoginInv, UserOf
    <3>2. offAt[UserOf(s)] \in Nat /\ row[s].last \in Nat /\ window \in Nat /\ clock \in Nat
      BY <2>2, <3>1, SessionAssumption DEF IInv, TypeOK, Rows, Enabled
    <3>3. row[s].last <= offAt[UserOf(s)] + Patience
      BY <2>2 DEF IInv, TimeInv, RowTime
    <3>. HIDE DEF s
    <3>4. clock < offAt[UserOf(s)] + Patience + window
      BY <2>2, <3>2, <3>3, SessionAssumption
    <3>. QED
      BY <2>2, <3>4 DEF s
  <2>. QED
    BY <2>1, <2>2, OpensStep DEF IInv, OpensOnly
<1>. QED
  BY <1>1, SessionInvariant, PTL DEF Spec, DisableCutsAccess

\* However often it is revalidated, a session opens no page to a request that
\* came after the lifetime that began at its login.
THEOREM LifetimeIsHard == Spec => HardLifetime
<1>1. IInv /\ [Next]_vars => [\A r \in Requests : Opens(r) =>
          (IF req[r].pc = "idle" THEN clock ELSE req[r].began)
              <= origin[req'[r].sid].made + SessionTTL]_vars
  <2> SUFFICES ASSUME IInv, [Next]_vars, NEW r \in Requests, Opens(r)
               PROVE  (IF req[r].pc = "idle" THEN clock ELSE req[r].began)
                          <= origin[req'[r].sid].made + SessionTTL
    OBVIOUS
  <2> DEFINE s == req'[r].sid
  <2>1. CASE req[r].pc = "save" /\ s = req[r].sid
    BY <2>1 DEF IInv, TimeInv, InSession, RequestTime
  <2>2. CASE /\ req[r].pc = "idle" /\ s \in Sids /\ row[s] # None
             /\ ~(clock > row[s].exp)
    <3>1. row[s].exp \in Nat /\ clock \in Nat /\ row[s].exp = origin[s].made + SessionTTL
      BY <2>2, SessionAssumption DEF IInv, TypeOK, Rows, TimeInv, RowTime
    <3>. QED
      BY <2>2, <3>1
  <2>. QED
    BY <2>1, <2>2, OpensStep DEF IInv, OpensOnly
<1>. QED
  BY <1>1, SessionInvariant, PTL DEF Spec, HardLifetime
=============================================================================
