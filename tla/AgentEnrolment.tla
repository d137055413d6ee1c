-------------------------- MODULE AgentEnrolment --------------------------
(***************************************************************************)
(* How a host agent gets the key it signs with: the operator's enrolment   *)
(* tokens and revocations (cmd/wanderer/agent_enrol.go), the exchange      *)
(* route (internal/api/agents.go), the EnrolAgent transaction              *)
(* (internal/store/agent.go), and EnsureSecret on the agent's side         *)
(* (internal/agent/enrol.go), which keeps the key in a file that wins over *)
(* any token on later starts.                                              *)
(*                                                                         *)
(* A machine may die at any step, an answer may be lost, and a request the *)
(* machine gave up on may still be executed by the core.                   *)
(***************************************************************************)
EXTENDS Naturals, FiniteSets

CONSTANTS
    Machines,           \* hosts that run an agent
    Names,              \* normalised hostnames
    HostOf,             \* HostOf[m]: the hostname m is configured with
    Tokens, NoToken,    \* enrolment tokens
    Keys, NoKey,        \* signing keys: digests of the secrets the core draws
    Torn,               \* content of a key file whose write was cut short
    Reconfigure         \* whether a machine may be handed another token

ASSUME EnrolmentAssumption ==
    /\ HostOf \in [Machines -> Names]
    /\ NoToken \notin Tokens
    /\ NoKey \notin Keys /\ Torn \notin Keys /\ NoKey # Torn
    /\ Reconfigure \in BOOLEAN

VARIABLES
    token,              \* token[t]: the row in enrolment_tokens
    row,                \* row[n]: secret_hash in the agents table
    revoked,            \* names with revoked_at set
    drawn,              \* keys the core has drawn so far
    conf,               \* conf[m]: the token in m's configuration
    pc,                 \* pc[m]: where m's agent process is
    call,               \* call[m]: progress of the exchange m waits for
    reply,              \* reply[m]: the key in the core's answer
    late,               \* exchanges nobody waits for any more
    key,                \* key[m]: the key in m's memory
    file,               \* file[m]: content of m's key file
    enrolledBy          \* history: enrolledBy[n], the token that enrolled n

coreVars == <<token, row, revoked, drawn, enrolledBy>>
agentVars == <<pc, call, reply, key>>
vars == <<coreVars, conf, agentVars, late, file>>

Init ==
    /\ token = [t \in Tokens |-> "none"]
    /\ row = [n \in Names |-> NoKey]
    /\ revoked = {} /\ drawn = {}
    /\ conf = [m \in Machines |-> NoToken]
    /\ pc = [m \in Machines |-> "down"]
    /\ call = [m \in Machines |-> "none"]
    /\ reply = [m \in Machines |-> NoKey]
    /\ late = {}
    /\ key = [m \in Machines |-> NoKey]
    /\ file = [m \in Machines |-> NoKey]
    /\ enrolledBy = [n \in Names |-> NoToken]

----------------------------------------------------------------------------
(* The operator and the clock.                                             *)

CreateEnrolmentToken(t) ==
    /\ token[t] = "none"
    /\ token' = [token EXCEPT ![t] = "open"]
    /\ UNCHANGED <<row, revoked, drawn, enrolledBy, conf, agentVars, late, file>>

\* The operator puts an issued token in m's configuration; nothing keeps him
\* from handing one token to two machines.
Configure(m, t) ==
    /\ pc[m] = "down" /\ token[t] # "none" /\ conf[m] # t
    /\ conf[m] = NoToken \/ Reconfigure
    /\ conf' = [conf EXCEPT ![m] = t]
    /\ UNCHANGED <<coreVars, agentVars, late, file>>

\* The clock passes expires_at of a token nobody used.
Expire(t) ==
    /\ token[t] = "open"
    /\ token' = [token EXCEPT ![t] = "expired"]
    /\ UNCHANGED <<row, revoked, drawn, enrolledBy, conf, agentVars, late, file>>

\* RevokeAgent; no code path clears revoked_at or deletes the row.
RevokeAgent(n) ==
    /\ row[n] # NoKey /\ n \notin revoked
    /\ revoked' = revoked \cup {n}
    /\ UNCHANGED <<token, row, drawn, enrolledBy, conf, agentVars, late, file>>

----------------------------------------------------------------------------
(* The core.                                                               *)

\* Mutant: used_at is not looked at.
RedeemableTwice(t) == token[t] \in {"open", "used"}

\* The token is known, unexpired and unused.
Redeemable(t) == token[t] = "open"

\* Mutant: a second enrolment replaces the row of its name.
EnrolAgentReplaces(n, t, k) ==
    /\ Redeemable(t)
    /\ k \in Keys \ drawn
    /\ row' = [row EXCEPT ![n] = k]
    /\ token' = [token EXCEPT ![t] = "used"]
    /\ drawn' = drawn \cup {k}
    /\ enrolledBy' = [enrolledBy EXCEPT ![n] = t]
    /\ UNCHANGED revoked

\* Mutant: the key is not a fresh one.
EnrolAgentReusesKey(n, t, k) ==
    /\ Redeemable(t) /\ row[n] = NoKey
    /\ k \in Keys
    /\ row' = [row EXCEPT ![n] = k]
    /\ token' = [token EXCEPT ![t] = "used"]
    /\ drawn' = drawn \cup {k}
    /\ enrolledBy' = [enrolledBy EXCEPT ![n] = t]
    /\ UNCHANGED revoked

\* EnrolAgent, committed: the agents row and used_at in one transaction.  The
\* hostname is UNIQUE; for a second row of the same name the transaction
\* fails as a whole and the token stays as it was.
EnrolAgent(n, t, k) ==
    /\ Redeemable(t) /\ row[n] = NoKey
    /\ k \in Keys \ drawn
    /\ row' = [row EXCEPT ![n] = k]
    /\ token' = [token EXCEPT ![t] = "used"]
    /\ drawn' = drawn \cup {k}
    /\ enrolledBy' = [enrolledBy EXCEPT ![n] = t]
    /\ UNCHANGED revoked

\* EnrolHandler answers 201 with the secret.
CoreEnrols(m, k) ==
    /\ call[m] = "sent"
    /\ EnrolAgent(HostOf[m], conf[m], k)
    /\ call' = [call EXCEPT ![m] = "ok"]
    /\ reply' = [reply EXCEPT ![m] = k]
    /\ UNCHANGED <<conf, pc, key, late, file>>

\* 401 for a token that is unknown, expired or used, 500 for a taken hostname
\* or a store error.
CoreRefuses(m) ==
    /\ call[m] = "sent"
    /\ call' = [call EXCEPT ![m] = "err"]
    /\ UNCHANGED <<coreVars, conf, pc, reply, key, late, file>>

\* The same handler for a machine that stopped listening.
LateEnrols(n, t, k) ==
    /\ <<n, t>> \in late
    /\ EnrolAgent(n, t, k)
    /\ late' = late \ {<<n, t>>}
    /\ UNCHANGED <<conf, agentVars, file>>

\* Refused, lost on the way, or aborted by its cancelled context.
LateDropped(n, t) ==
    /\ <<n, t>> \in late
    /\ late' = late \ {<<n, t>>}
    /\ UNCHANGED <<coreVars, conf, agentVars, file>>

----------------------------------------------------------------------------
(* EnsureSecret on machine m.                                              *)

\* The key file exists: it is the key, whatever the configuration says.
StartWithFile(m) ==
    /\ pc[m] = "down" /\ file[m] # NoKey
    /\ pc' = [pc EXCEPT ![m] = "running"]
    /\ key' = [key EXCEPT ![m] = file[m]]
    /\ UNCHANGED <<coreVars, conf, call, reply, late, file>>

\* No file: exchange the token.  Without a token the agent exits.
StartWithToken(m) ==
    /\ pc[m] = "down" /\ file[m] = NoKey /\ conf[m] # NoToken
    /\ pc' = [pc EXCEPT ![m] = "exchange"]
    /\ call' = [call EXCEPT ![m] = "sent"]
    /\ UNCHANGED <<coreVars, conf, reply, key, late, file>>

\* exchangeToken returns the secret; the key is its digest.
ExchangeSucceeds(m) ==
    /\ pc[m] = "exchange" /\ call[m] = "ok"
    /\ pc' = [pc EXCEPT ![m] = "write"]
    /\ key' = [key EXCEPT ![m] = reply[m]]
    /\ call' = [call EXCEPT ![m] = "none"]
    /\ reply' = [reply EXCEPT ![m] = NoKey]
    /\ UNCHANGED <<coreVars, conf, late, file>>

\* What becomes of the request of a machine that stops waiting for it.
Abandon(m) ==
    /\ call' = [call EXCEPT ![m] = "none"]
    /\ reply' = [reply EXCEPT ![m] = NoKey]
    /\ \/ UNCHANGED late
       \/ call[m] = "sent" /\ late' = late \cup {<<HostOf[m], conf[m]>>}

\* A refusal, a connection error, the 30 s timeout, or a lost answer: the
\* agent process exits.
ExchangeFails(m) ==
    /\ pc[m] = "exchange"
    /\ Abandon(m)
    /\ pc' = [pc EXCEPT ![m] = "down"]
    /\ UNCHANGED <<coreVars, conf, key, file>>

\* Mutant: the error of WriteFile is not looked at.
WriteKeyUnchecked(m) ==
    /\ pc[m] = "write"
    /\ file' \in {file, [file EXCEPT ![m] = key[m]]}
    /\ pc' = [pc EXCEPT ![m] = "running"]
    /\ UNCHANGED <<coreVars, conf, call, reply, key, late>>

\* The key goes to the file; the agent starts its loop.
WriteKey(m) ==
    /\ pc[m] = "write"
    /\ file' = [file EXCEPT ![m] = key[m]]
    /\ pc' = [pc EXCEPT ![m] = "running"]
    /\ UNCHANGED <<coreVars, conf, call, reply, key, late>>

\* The process dies, or exits because MkdirAll or WriteFile failed.  WriteFile
\* creates the file before it fills it.
Die(m) ==
    /\ pc[m] # "down"
    /\ Abandon(m)
    /\ pc' = [pc EXCEPT ![m] = "down"]
    /\ key' = [key EXCEPT ![m] = NoKey]
    /\ \/ UNCHANGED file
       \/ pc[m] = "write" /\ file' = [file EXCEPT ![m] = Torn]
    /\ UNCHANGED <<coreVars, conf>>

----------------------------------------------------------------------------
MachineStep(m) ==
    \/ StartWithFile(m) \/ StartWithToken(m) \/ ExchangeSucceeds(m)
    \/ ExchangeFails(m) \/ WriteKey(m)

CoreStep(m) == CoreRefuses(m) \/ \E k \in Keys : CoreEnrols(m, k)

OperatorStep ==
    \/ \E t \in Tokens : \/ CreateEnrolmentToken(t) \/ Expire(t)
                         \/ \E m \in Machines : Configure(m, t)
    \/ \E n \in Names : RevokeAgent(n)

LateStep ==
    \E n \in Names, t \in Tokens :
        LateDropped(n, t) \/ \E k \in Keys : LateEnrols(n, t, k)

Next ==
    \/ OperatorStep \/ LateStep
    \/ \E m \in Machines : MachineStep(m) \/ CoreStep(m) \/ Die(m)

Spec == Init /\ [][Next]_vars

----------------------------------------------------------------------------
(* Properties.                                                             *)

CoreTypeOK ==
    /\ token \in [Tokens -> {"none", "open", "expired", "used"}]
    /\ row \in [Names -> Keys \cup {NoKey}]
    /\ revoked \in SUBSET Names
    /\ drawn \in SUBSET Keys
    /\ enrolledBy \in [Names -> Tokens \cup {NoToken}]
    /\ late \in SUBSET (Names \X Tokens)

MachineTypeOK ==
    /\ conf \in [Machines -> Tokens \cup {NoToken}]
    /\ pc \in [Machines -> {"down", "exchange", "write", "running"}]
    /\ call \in [Machines -> {"none", "sent", "ok", "err"}]
    /\ reply \in [Machines -> Keys \cup {NoKey}]
    /\ key \in [Machines -> Keys \cup {NoKey, Torn}]
    /\ file \in [Machines -> Keys \cup {NoKey, Torn}]

\* The values each variable takes.
TypeOK == CoreTypeOK /\ MachineTypeOK

\* "A token SHALL be usable once" (openspec/specs/scanner/spec.md): however
\* many machines were handed it and however late their requests run, a token
\* enrols at most one hostname.
TokenEnrolsOne ==
    \A n1, n2 \in Names :
        enrolledBy[n1] # NoToken /\ enrolledBy[n1] = enrolledBy[n2] => n1 = n2

\* A token is spent exactly when it enrolled somebody: a refusal, a taken
\* hostname or an abandoned request never burns it, and no agent exists whose
\* token is still good.
TokenSpentBySuccess ==
    \A t \in Tokens :
        token[t] = "used" <=> \E n \in Names : enrolledBy[n] = t

\* "exchange one for its own HMAC secret": no two machines ever hold the same
\* key, two machines with one hostname included.
KeyIsPrivate ==
    \A m1, m2 \in Machines :
        {key[m1], file[m1]} \cap {key[m2], file[m2]} \cap Keys # {} => m1 = m2

\* "EnsureSecret returns the HMAC signing key a remote-mode agent uses to talk
\* to core" (internal/agent/enrol.go): a running agent's key is the one the
\* core verifies its hostname with, unless a death cut the write of the key
\* file short.
RunningKeyWorks ==
    \A m \in Machines : pc[m] = "running" => key[m] \in {row[HostOf[m]], Torn}

\* The secret is "returned exactly once" (internal/store/agent.go) and its
\* hostname cannot be enrolled again: a key some machine can still get at is
\* lost only when the machine that waits for it, or is writing it down, gives
\* up or dies; from the first tick on it survives every restart.
Reachable(k) == \E m \in Machines : k \in {reply[m], key[m], file[m]}

KeyLostOnlyInExchange ==
    [][\A k \in Keys : Reachable(k) /\ ~Reachable(k)' =>
         \E m \in Machines :
            /\ k \in {reply[m], key[m]}
            /\ pc[m] \in {"exchange", "write"} /\ pc'[m] = "down"]_vars
=============================================================================
