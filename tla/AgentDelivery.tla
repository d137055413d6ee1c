--------------------------- MODULE AgentDelivery ---------------------------
(***************************************************************************)
(* Delivery of finding batches from a host agent to the core: the agent's  *)
(* tick (cmd/wanderer/agent.go), its on-disk outbox                        *)
(* (internal/agent/outbox.go), the signed POST (internal/agent/remote.go), *)
(* and the ingest route with its idempotent AppendBatch                    *)
(* (internal/api/findings.go, internal/store/sqlite.go).                   *)
(*                                                                         *)
(* A tick drains the outbox oldest file first, then collects one new batch *)
(* and posts it up to MaxAttempts times, then spools it.  A call the agent *)
(* gave up on may still be running at the core; the process may die at any *)
(* step; a power cut may undo file operations the kernel had not written   *)
(* back (the code never calls fsync).                                      *)
(***************************************************************************)
EXTENDS Naturals, FiniteSets, FiniteSetsExt

CONSTANTS
    Batches,            \* batch identifiers the agent may mint
    NoBatch,            \* "no batch in hand"
    Size,               \* Size[b]: bytes of b's spool file
    MaxBytes,           \* Outbox.MaxBytes
    MaxAttempts,        \* sendWithRetry's maxAttempts
    Oversized,          \* batches longer than the ingest route's LimitReader
    Invalid,            \* batches with a finding that fails Finding.Validate
    DiskFaults,         \* whether a file operation may return an error
    MayRevoke,          \* whether an operator may revoke the agent
    MaxCrashes,         \* bound on process deaths
    PowerCuts,          \* whether a death may be a power cut
    MaxLate             \* bound on abandoned requests of one batch

ASSUME DeliveryAssumption ==
    /\ NoBatch \notin Batches
    /\ IsFiniteSet(Batches)      \* identifiers have a fixed length
    /\ Size \in [Batches -> Nat \ {0}]
    /\ MaxBytes \in Nat \ {0}
    /\ MaxAttempts \in Nat \ {0}
    /\ Oversized \subseteq Batches
    /\ Invalid \subseteq Batches
    /\ DiskFaults \in BOOLEAN
    /\ PowerCuts \in BOOLEAN
    /\ MayRevoke \in BOOLEAN
    /\ MaxCrashes \in Nat
    /\ MaxLate \in Nat

VARIABLES
    pc,                 \* where the agent process is in its tick
    hand,               \* the batch the agent is sending or spooling
    attempt,            \* live attempts already failed in this tick
    expired,            \* the tick's context deadline has passed
    todo,               \* files Drain listed and has not handled yet
    call,               \* progress of the POST the agent is waiting for
    file,               \* file[b]: b's file as the running kernel shows it
    disk,               \* disk[b]: what of it survives a power cut
    name,               \* name[b]: lexicographic rank of b's file name
    lateSent,           \* abandoned requests not yet authenticated
    lateAdmitted,       \* abandoned requests past Verify, before AppendBatch
    revoked,            \* the core revoked this agent
    recorded,           \* identifiers in the finding_batches table
    copies,             \* copies[b]: how often b's findings were inserted
    minted,             \* identifiers minted so far
    acked,              \* history: batches answered 2xx
    cause,              \* history: why the agent let go of a batch
    crashes             \* history: process deaths so far

agentVars == <<pc, hand, attempt, expired, todo>>
diskVars  == <<file, disk, name>>
lateVars  == <<lateSent, lateAdmitted>>
coreVars  == <<revoked, recorded, copies>>
histVars  == <<minted, acked, cause, crashes>>
vars == <<agentVars, call, diskVars, lateVars, coreVars, histVars>>

PCs == {"down", "idle", "drain", "drainCall", "collect", "attempt",
        "liveCall", "spool", "rename", "prune"}
Calls == {"none", "sent", "admitted", "ok", "err"}
FileStates == {"none", "tmp", "intact", "torn", "corrupt"}
Causes == {"none", "pruned", "memory", "quarantined", "media"}

----------------------------------------------------------------------------
(* The outbox directory.                                                   *)

\* listBatchFiles: only *.json entries; .tmp and .corrupt are not seen.
Listed == {b \in Batches : file[b] \in {"intact", "torn"}}

\* The directory total Prune compares with the limit.
Total(S) == MapThenSumSet(LAMBDA b : Size[b], S)

\* b is the first of S in file name order.
Oldest(b, S) == b \in S /\ \A c \in S : name[b] <= name[c]

\* Spool draws one name per batch.  Names sort by wall-clock second, then by
\* three random bytes: a clock that steps back, or two spools in the same
\* second, give any order.
FreshNames == (1 .. Cardinality(Batches)) \ {name[b] : b \in Batches}

----------------------------------------------------------------------------
Init ==
    /\ pc = "down" /\ hand = NoBatch /\ attempt = 0 /\ expired = FALSE
    /\ todo = {} /\ call = "none"
    /\ file = [b \in Batches |-> "none"]
    /\ disk = [b \in Batches |-> "none"]
    /\ name = [b \in Batches |-> 0]
    /\ lateSent = [b \in Batches |-> 0]
    /\ lateAdmitted = [b \in Batches |-> 0]
    /\ revoked = FALSE /\ recorded = {}
    /\ copies = [b \in Batches |-> 0]
    /\ minted = {} /\ acked = {}
    /\ cause = [b \in Batches |-> "none"]
    /\ crashes = 0

----------------------------------------------------------------------------
(* The agent's tick.                                                       *)

\* runAgentRemote up to the loop: secret and outbox directory are ready.
Start ==
    /\ pc = "down"
    /\ pc' = "idle"
    /\ UNCHANGED <<hand, attempt, expired, todo, call, diskVars, lateVars,
                   coreVars, histVars>>

\* Mutant: the tick forgets the backlog.
TickStartWithoutDrain ==
    /\ pc = "idle"
    /\ pc' = "collect"
    /\ expired' = FALSE
    /\ UNCHANGED <<hand, attempt, todo, call, diskVars, lateVars, coreVars, histVars>>

\* The ticker fires: fresh deadline, Drain lists the directory once.
TickStart ==
    /\ pc = "idle"
    /\ pc' = "drain"
    /\ todo' = Listed
    /\ expired' = FALSE
    /\ UNCHANGED <<hand, attempt, call, diskVars, lateVars, coreVars, histVars>>

\* The tick's context deadline passes, at any point where it is looked at.
DeadlinePasses ==
    /\ pc \in {"drain", "drainCall", "collect", "attempt", "liveCall"}
    /\ ~expired
    /\ expired' = TRUE
    /\ UNCHANGED <<pc, hand, attempt, todo, call, diskVars, lateVars,
                   coreVars, histVars>>

\* Drain stops with an error: the remaining files wait for the next tick.
AbandonDrain == pc' = "collect" /\ todo' = {} /\ hand' = NoBatch

\* A readable spool file: post it, unless the deadline already passed, in
\* which case the client refuses to send and Drain stops.
DrainSend(b) ==
    /\ pc = "drain"
    /\ Oldest(b, todo)
    /\ file[b] = "intact"
    /\ \/ expired /\ AbandonDrain /\ UNCHANGED call
       \/ /\ ~expired
          /\ pc' = "drainCall" /\ hand' = b /\ call' = "sent" /\ UNCHANGED todo
    /\ UNCHANGED <<attempt, expired, diskVars, lateVars, coreVars, histVars>>

\* A spool file that is not valid JSON is renamed out of the listing; the
\* rename's own error is ignored and the file is met again next tick.
DrainQuarantine(b) ==
    /\ pc = "drain"
    /\ Oldest(b, todo)
    /\ file[b] = "torn"
    /\ \/ file' = [file EXCEPT ![b] = "corrupt"]
       \/ DiskFaults /\ UNCHANGED file
    /\ todo' = todo \ {b}
    /\ cause' = [cause EXCEPT ![b] = "quarantined"]
    /\ UNCHANGED <<pc, hand, attempt, expired, call, disk, name, lateVars,
                   coreVars, minted, acked, crashes>>

\* ReadFile fails: Drain stops.
DrainReadFails ==
    /\ DiskFaults
    /\ pc = "drain" /\ todo # {}
    /\ AbandonDrain
    /\ UNCHANGED <<attempt, expired, call, diskVars, lateVars, coreVars,
                   histVars>>

\* A 2xx answer: the file is removed and the drain goes on; if removing it
\* fails the drain stops and the stored batch stays in the outbox.
DrainAck ==
    /\ pc = "drainCall" /\ call = "ok"
    /\ \/ /\ file' = [file EXCEPT ![hand] = "none"]
          /\ pc' = "drain" /\ todo' = todo \ {hand} /\ hand' = NoBatch
       \/ DiskFaults /\ AbandonDrain /\ UNCHANGED file
    /\ call' = "none"
    /\ acked' = acked \cup {hand}
    /\ UNCHANGED <<attempt, expired, disk, name, lateVars, coreVars, minted,
                   cause, crashes>>

DrainDone ==
    /\ pc = "drain" /\ todo = {}
    /\ pc' = "collect"
    /\ UNCHANGED <<hand, attempt, expired, todo, call, diskVars, lateVars,
                   coreVars, histVars>>

\* Inspectors run, the batch is marshalled and gets its identifier.
Collect(b) ==
    /\ pc = "collect"
    /\ b \notin minted
    /\ minted' = minted \cup {b}
    /\ hand' = b /\ pc' = "attempt"
    /\ UNCHANGED <<attempt, expired, todo, call, diskVars, lateVars, coreVars, acked,
                   cause, crashes>>

\* MarshalBatch or NewBatchID fails: the tick ends without a batch.
CollectFails ==
    /\ pc = "collect"
    /\ pc' = "idle"
    /\ UNCHANGED <<hand, attempt, expired, todo, call, diskVars, lateVars,
                   coreVars, histVars>>

\* One iteration of sendWithRetry.  Past the deadline nothing is sent any
\* more and the loop falls through to Spool.
Attempt ==
    /\ pc = "attempt"
    /\ \/ expired /\ pc' = "spool" /\ attempt' = 0 /\ UNCHANGED call
       \/ ~expired /\ pc' = "liveCall" /\ call' = "sent" /\ UNCHANGED attempt
    /\ UNCHANGED <<hand, expired, todo, diskVars, lateVars, coreVars,
                   histVars>>

LiveAck ==
    /\ pc = "liveCall" /\ call = "ok"
    /\ pc' = "idle" /\ hand' = NoBatch /\ call' = "none" /\ attempt' = 0
    /\ acked' = acked \cup {hand}
    /\ UNCHANGED <<expired, todo, diskVars, lateVars, coreVars,
                   minted, cause, crashes>>

\* The request of an unfinished call is either gone or still on its way to,
\* or inside, the core's handler.
Orphan(c) ==
    \/ UNCHANGED lateVars
    \/ /\ c = "sent" /\ lateSent[hand] < MaxLate
       /\ lateSent' = [lateSent EXCEPT ![hand] = @ + 1]
       /\ UNCHANGED lateAdmitted
    \/ /\ c = "admitted" /\ lateAdmitted[hand] < MaxLate
       /\ lateAdmitted' = [lateAdmitted EXCEPT ![hand] = @ + 1]
       /\ UNCHANGED lateSent

\* Mutant: the file is removed whatever the send returned.
DrainFailsRemoves ==
    /\ pc = "drainCall"
    /\ AbandonDrain
    /\ call' = "none"
    /\ Orphan(call)
    /\ file' = [file EXCEPT ![hand] = "none"]
    /\ UNCHANGED <<attempt, expired, disk, name, coreVars, histVars>>

\* SendBytes returns an error: a status outside 2xx, a connection error, the
\* client's 30 s timeout, the tick's deadline, or a 2xx that was lost.
DrainFails ==
    /\ pc = "drainCall"
    /\ AbandonDrain
    /\ call' = "none"
    /\ Orphan(call)
    /\ UNCHANGED <<attempt, expired, diskVars, coreVars, histVars>>

\* Mutant: a batch whose attempts are used up is not spooled.
LiveFailsDrops ==
    /\ pc = "liveCall"
    /\ IF attempt + 1 < MaxAttempts
       THEN pc' = "attempt" /\ attempt' = attempt + 1 /\ UNCHANGED hand
       ELSE pc' = "idle" /\ attempt' = 0 /\ hand' = NoBatch
    /\ call' = "none"
    /\ Orphan(call)
    /\ UNCHANGED <<expired, todo, diskVars, coreVars, histVars>>

\* One failed POST of sendWithRetry; the last one falls through to Spool.
LiveFails ==
    /\ pc = "liveCall"
    /\ IF attempt + 1 < MaxAttempts
       THEN pc' = "attempt" /\ attempt' = attempt + 1
       ELSE pc' = "spool" /\ attempt' = 0
    /\ call' = "none"
    /\ Orphan(call)
    /\ UNCHANGED <<hand, expired, todo, diskVars, coreVars, histVars>>

\* Spool, first half: the envelope goes to <name>.tmp.
SpoolWrite ==
    /\ pc = "spool"
    /\ pc' = "rename"
    /\ file' = [file EXCEPT ![hand] = "tmp"]
    /\ UNCHANGED <<hand, attempt, expired, todo, call, disk, name, lateVars,
                   coreVars, histVars>>

\* Spool, second half: the file takes its listed name; Prune follows.
SpoolRename ==
    /\ pc = "rename"
    /\ pc' = "prune" /\ hand' = NoBatch
    /\ file' = [file EXCEPT ![hand] = "intact"]
    /\ \E n \in FreshNames : name' = [name EXCEPT ![hand] = n]
    /\ UNCHANGED <<attempt, expired, todo, call, disk, lateVars, coreVars,
                   histVars>>

\* Writing fails (a partial .tmp may stay) or renaming fails (the .tmp is
\* removed): the batch was only in memory and is dropped.
SpoolFails ==
    /\ DiskFaults
    /\ \/ pc = "spool"  /\ \E f \in {"none", "tmp"} : file' = [file EXCEPT ![hand] = f]
       \/ pc = "rename" /\ file' = [file EXCEPT ![hand] = "none"]
    /\ pc' = "idle" /\ hand' = NoBatch
    /\ cause' = [cause EXCEPT ![hand] = "memory"]
    /\ UNCHANGED <<attempt, expired, todo, call, disk, name, lateVars,
                   coreVars, minted, acked, crashes>>

\* Prune removes the oldest listed file while the total exceeds the limit.
PruneOldest(b) ==
    /\ pc = "prune"
    /\ Total(Listed) > MaxBytes
    /\ Oldest(b, Listed)
    /\ file' = [file EXCEPT ![b] = "none"]
    /\ cause' = [cause EXCEPT ![b] = "pruned"]
    /\ UNCHANGED <<agentVars, call, disk, name, lateVars, coreVars, minted,
                   acked, crashes>>

\* Mutant: Prune removes at most what it likes.
PruneDoneEarly ==
    /\ pc = "prune"
    /\ pc' = "idle"
    /\ UNCHANGED <<hand, attempt, expired, todo, call, diskVars, lateVars,
                   coreVars, histVars>>

\* Prune returns: the total is within the limit, or a file operation failed.
PruneDone ==
    /\ pc = "prune"
    /\ Total(Listed) <= MaxBytes \/ DiskFaults
    /\ pc' = "idle"
    /\ UNCHANGED <<hand, attempt, expired, todo, call, diskVars, lateVars,
                   coreVars, histVars>>

----------------------------------------------------------------------------
(* The core's ingest route.                                                *)

\* Lookup and Verify: a known, unrevoked host, a fresh timestamp, and a
\* signature over the body as read, which LimitReader cuts if too long.
Verifies(b) == ~revoked /\ b \notin Oversized

\* Mutant: the identifier is not looked up.
AppendBatchUnchecked(b) ==
    /\ b \notin Invalid
    /\ recorded' = recorded \cup {b}
    /\ copies' = [copies EXCEPT ![b] = @ + 1]

\* AppendBatch: one transaction on the store's only connection.  The
\* existence check, the batch row and the findings commit together; an
\* invalid finding rolls everything back.
AppendBatch(b) ==
    \/ b \in recorded /\ UNCHANGED <<recorded, copies>>
    \/ /\ b \notin recorded /\ b \notin Invalid
       /\ recorded' = recorded \cup {b}
       /\ copies' = [copies EXCEPT ![b] = @ + 1]

\* Mutant: the handler answers before it stores.
CoreVerifyAnswers ==
    /\ call = "sent"
    /\ Verifies(hand)
    /\ call' = "ok"
    /\ UNCHANGED <<agentVars, diskVars, lateVars, coreVars, histVars>>

\* The handler answers the call the agent waits for.
CoreVerify ==
    /\ call = "sent"
    /\ Verifies(hand)
    /\ call' = "admitted"
    /\ UNCHANGED <<agentVars, diskVars, lateVars, coreVars, histVars>>

CoreAppend ==
    /\ call = "admitted"
    /\ AppendBatch(hand)
    /\ call' = "ok"
    /\ UNCHANGED <<agentVars, diskVars, lateVars, revoked, histVars>>

\* 400, 401 (clock skew included) or 500 (a store error included).
CoreRefuse ==
    /\ call \in {"sent", "admitted"}
    /\ call' = "err"
    /\ UNCHANGED <<agentVars, diskVars, lateVars, coreVars, histVars>>

\* The same handler on a request whose sender stopped listening.
LateVerify(b) ==
    /\ lateSent[b] > 0 /\ lateAdmitted[b] < MaxLate
    /\ Verifies(b)
    /\ lateSent' = [lateSent EXCEPT ![b] = @ - 1]
    /\ lateAdmitted' = [lateAdmitted EXCEPT ![b] = @ + 1]
    /\ UNCHANGED <<agentVars, call, diskVars, coreVars, histVars>>

LateAppend(b) ==
    /\ lateAdmitted[b] > 0
    /\ AppendBatch(b)
    /\ lateAdmitted' = [lateAdmitted EXCEPT ![b] = @ - 1]
    /\ UNCHANGED <<agentVars, call, diskVars, lateSent, revoked, histVars>>

\* It is lost on the way, refused, or its cancelled context aborts it.
LateDrop(b) ==
    /\ \/ /\ lateSent[b] > 0
          /\ lateSent' = [lateSent EXCEPT ![b] = @ - 1]
          /\ UNCHANGED lateAdmitted
       \/ /\ lateAdmitted[b] > 0
          /\ lateAdmitted' = [lateAdmitted EXCEPT ![b] = @ - 1]
          /\ UNCHANGED lateSent
    /\ UNCHANGED <<agentVars, call, diskVars, coreVars, histVars>>

\* RevokeAgent commits, at any moment.
Revoke ==
    /\ MayRevoke
    /\ ~revoked
    /\ revoked' = TRUE
    /\ UNCHANGED <<agentVars, call, diskVars, lateVars, recorded, copies,
                   histVars>>

----------------------------------------------------------------------------
(* Deaths of the agent process, and the kernel's write-back.               *)

\* The states the running process can be in with a batch that has no file.
InMemoryOnly == {"attempt", "liveCall", "spool", "rename"}

Die ==
    /\ pc # "down"
    /\ crashes < MaxCrashes
    /\ crashes' = crashes + 1
    /\ pc' = "down" /\ hand' = NoBatch /\ todo' = {} /\ call' = "none"
    /\ attempt' = 0 /\ expired' = FALSE
    /\ Orphan(call)
    /\ UNCHANGED <<name, coreVars, minted, acked>>

\* The process is killed; files stay as they are.
Crash ==
    /\ Die
    /\ cause' = IF pc \in InMemoryOnly
                THEN [cause EXCEPT ![hand] = "memory"] ELSE cause
    /\ UNCHANGED <<file, disk>>

\* What a power cut may leave of b's file: its current state, the last
\* state written back, or a name whose content never reached the disk.
Survivors(b) ==
    {file[b], disk[b]}
      \cup (IF file[b] = "intact" /\ disk[b] # "intact" THEN {"torn"} ELSE {})

PowerCut ==
    /\ PowerCuts
    /\ Die
    /\ file' \in [Batches -> FileStates]
    /\ \A b \in Batches : file'[b] \in Survivors(b)
    /\ disk' = file'
    /\ cause' = [b \in Batches |->
                   IF b = hand /\ pc \in InMemoryOnly THEN "memory"
                   ELSE IF file[b] = "intact" /\ file'[b] # "intact" THEN "media"
                   ELSE cause[b]]

\* The kernel writes back b's directory entry and data.
WriteBack(b) ==
    /\ PowerCuts
    /\ disk[b] # file[b]
    /\ disk' = [disk EXCEPT ![b] = file[b]]
    /\ UNCHANGED <<agentVars, call, file, name, lateVars, coreVars, histVars>>

----------------------------------------------------------------------------
DrainStep == \/ \E b \in Batches : DrainSend(b) \/ DrainQuarantine(b)
             \/ DrainReadFails \/ DrainAck \/ DrainFails \/ DrainDone

LiveStep == \/ \E b \in Batches : Collect(b)
            \/ CollectFails \/ Attempt \/ LiveAck \/ LiveFails

SpoolStep == \/ SpoolWrite \/ SpoolRename \/ SpoolFails
             \/ \E b \in Batches : PruneOldest(b)
             \/ PruneDone

CoreStep == \/ CoreVerify \/ CoreAppend \/ CoreRefuse \/ Revoke
            \/ \E b \in Batches : LateVerify(b) \/ LateAppend(b) \/ LateDrop(b)

EnvStep == \/ DeadlinePasses \/ Crash \/ PowerCut
           \/ \E b \in Batches : WriteBack(b)

Next == Start \/ TickStart \/ DrainStep \/ LiveStep \/ SpoolStep
        \/ CoreStep \/ EnvStep

Spec == Init /\ [][Next]_vars

----------------------------------------------------------------------------
(* Properties.                                                             *)

AgentTypeOK ==
    /\ pc \in PCs
    /\ hand \in Batches \cup {NoBatch}
    /\ attempt \in 0 .. MaxAttempts - 1
    /\ todo \in SUBSET Batches
    /\ call \in Calls

DiskTypeOK ==
    /\ file \in [Batches -> FileStates]
    /\ disk \in [Batches -> FileStates]
    /\ name \in [Batches -> Nat]

CoreTypeOK ==
    /\ lateSent \in [Batches -> Nat]
    /\ lateAdmitted \in [Batches -> Nat]
    /\ recorded \in SUBSET Batches
    /\ copies \in [Batches -> Nat]

HistTypeOK ==
    /\ minted \in SUBSET Batches
    /\ acked \in SUBSET Batches
    /\ cause \in [Batches -> Causes]
    /\ crashes \in Nat

FlagsTypeOK == expired \in BOOLEAN /\ revoked \in BOOLEAN

\* The values each variable takes.
TypeOK == AgentTypeOK /\ FlagsTypeOK /\ DiskTypeOK /\ CoreTypeOK /\ HistTypeOK

\* "A replayed batch is stored once" (openspec/specs/scanner/spec.md): live
\* retries, drains after a restart, abandoned requests that the core still
\* executes and files a power cut brings back never insert a batch's
\* findings a second time.
StoredOnce == \A b \in Batches : copies[b] <= 1

\* The agent only forgets a batch on a 2xx when the core has its findings:
\* AppendBatch answers "duplicate" only for a committed batch.
AckedMeansStored == \A b \in acked : copies[b] = 1

\* "Remote-mode agent never silently drops findings"
\* (openspec/specs/inventory-probe/spec.md): a minted batch is in the store,
\* in the agent's hands, in an intact spool file, or was given up for one of
\* the reasons the code knows (pruned, quarantined, memory, media).
NoSilentLoss ==
    \A b \in minted : \/ copies[b] = 1
                      \/ hand = b
                      \/ file[b] = "intact"
                      \/ cause[b] # "none"

\* While the process stays alive and the disk works, pruning is the only way
\* to lose a batch: no answer, timeout, revocation or retry order drops one.
OnlyPruneLoses ==
    (crashes = 0 /\ ~DiskFaults) =>
        \A b \in minted : \/ copies[b] = 1
                          \/ hand = b
                          \/ file[b] = "intact"
                          \/ cause[b] = "pruned"

\* The largest spool file of the batches at hand.
LargestSize == Max({Size[b] : b \in Batches} \cup {0})

\* "Outbox stays bounded": Prune runs after the write and only from Spool, so
\* the listed files may exceed the limit by the batch just written, and by
\* one more for every prune that a process death cut short; never by more.
OutboxBounded ==
    (~DiskFaults /\ ~PowerCuts) => Total(Listed) <= MaxBytes
        + (crashes + (IF pc = "prune" THEN 1 ELSE 0)) * LargestSize

\* The ledger a batch's producer and reader rely on.
Ledger == INSTANCE BatchLedger
    WITH Batches <- Batches, minted <- minted, copies <- copies, acked <- acked
LedgerSpec == Ledger!LedgerSpec

\* The agent process keeps ticking, and a core that is asked again and again
\* answers now and then: a call that is sent infinitely often is admitted
\* infinitely often, and so on up to the agent reading the answer.
Fairness ==
    /\ WF_vars(Start) /\ WF_vars(TickStart)
    /\ WF_vars(DrainDone) /\ WF_vars(Attempt)
    /\ WF_vars(CollectFails \/ \E b \in Batches : Collect(b))
    /\ WF_vars(\E b \in Batches : DrainQuarantine(b))
    /\ SF_vars(\E b \in Batches : ~expired /\ DrainSend(b))
    /\ WF_vars(DrainFails) /\ WF_vars(LiveFails)
    /\ WF_vars(\E b \in Batches : DrainSend(b))
    /\ WF_vars(SpoolWrite) /\ WF_vars(SpoolRename) /\ WF_vars(PruneDone)
    /\ WF_vars(\E b \in Batches : PruneOldest(b))
    /\ SF_vars(CoreVerify) /\ SF_vars(CoreAppend) /\ SF_vars(DrainAck)

FairSpec == Spec /\ Fairness

\* Every spool file is settled: with a core that is reachable now and then its
\* batch is stored or pruned, unless the core revoked the agent or the file is,
\* or sorts behind, one that the core refuses for good (Drain stops there).
SpooledIsSettled ==
    \A b \in Batches :
        file[b] = "intact" ~>
            \/ copies[b] = 1 \/ cause[b] # "none" \/ revoked
            \/ \E c \in Oversized \cup Invalid :
                  file[c] = "intact" /\ name[c] <= name[b]
=============================================================================
