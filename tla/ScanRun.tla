------------------------------ MODULE ScanRun ------------------------------
(***************************************************************************)
(* One run of Scanner.Scan (internal/scanner/scanner.go): the scan row,    *)
(* the concurrent probes of pass 1, the join, the enriched target of pass  *)
(* 2, the synthesis steps, the terminal status and the publication hook.   *)
(*                                                                         *)
(* Each writer (a probe's goroutine, a synthesis step) puts its findings   *)
(* in memory and then appends them to the store with the scan's context;   *)
(* an error of that append is logged and nothing else.  The context may    *)
(* end at any moment: the global budget runs out, or the caller cancels.   *)
(***************************************************************************)
EXTENDS Naturals, Sequences

CONSTANTS
    Pass1,              \* every configured probe except ip
    Pass2,              \* the ip probe
    Steps,              \* <<synthesis steps and the NS-holder lookups>>
    Feeds,              \* Feeds[s]: the pass-1 probe whose hosts s reads
    Lookups,            \* steps that look hosts up themselves (NS holder)
    Hosts,              \* hosts a pass-1 probe may discover
    NoHost,             \* the host of a finding about the target itself
    Registrant,         \* writer of the expected-registrant finding
    StoreFaults,        \* whether a statement may fail with a live context
    HasPublisher        \* whether a Publisher is configured

Probes == Pass1 \cup Pass2
StepSet == {Steps[i] : i \in 1 .. Len(Steps)}
Writers == Probes \cup StepSet \cup {Registrant}

ASSUME ScanAssumption ==
    /\ Probes # {} /\ Pass1 \cap Pass2 = {}
    /\ Steps \in Seq(StepSet)
    /\ \A i, j \in 1 .. Len(Steps) : Steps[i] = Steps[j] => i = j
    /\ StepSet \cap Probes = {} /\ Registrant \notin Probes \cup StepSet
    /\ Feeds \in [StepSet -> Pass1] /\ Lookups \subseteq StepSet
    /\ NoHost \notin Hosts
    /\ StoreFaults \in BOOLEAN /\ HasPublisher \in BOOLEAN

Whats == {"registrant", "host", "asn", "error", "panic", "timeout", "synth"}
Findings == [what : Whats, host : Hosts \cup {NoHost}]
Note(w) == [what |-> w, host |-> NoHost]
About(w, H) == {[what |-> w, host |-> h] : h \in H}
HostsOf(w, F) == {h \in Hosts : [what |-> w, host |-> h] \in F}

VARIABLES
    pc,                 \* the goroutine running Scan
    step,               \* the next synthesis step
    ctx,                \* rootCtx
    run,                \* run[p]: the probe's goroutine
    outcome,            \* outcome[p]: how runOne returned
    related,            \* hosts the enriched target offers to pass 2
    mem,                \* mem[w]: w's findings in scan.Findings
    row,                \* status column of the scan row
    db,                 \* db[w]: w's findings in the findings table
    commits,            \* commits[w]: successful appends by w
    result,             \* Scan.Status of the returned record
    published           \* status column at the time Publish was called

vars == <<pc, step, ctx, run, outcome, related, mem, row, db, commits, result,
          published>>
storeVars == <<row, db, commits>>

Statuses == {"complete", "partial", "failed"}

Init ==
    /\ pc = "begin" /\ step = 1 /\ ctx = "live"
    /\ run = [p \in Probes |-> "waiting"]
    /\ outcome = [p \in Probes |-> "none"]
    /\ related = {}
    /\ mem = [w \in Writers |-> {}]
    /\ row = "absent"
    /\ db = [w \in Writers |-> {}]
    /\ commits = [w \in Writers |-> 0]
    /\ result = "none" /\ published = "none"

----------------------------------------------------------------------------
\* AppendFindings: an empty slice is a no-op, the rest is one transaction
\* under ctx.  Its error is logged by every caller and otherwise ignored.
AppendFindings(w, F) ==
    \/ F = {} /\ UNCHANGED <<db, commits>>
    \/ /\ F # {} /\ ctx = "live"
       /\ db' = [db EXCEPT ![w] = F]
       /\ commits' = [commits EXCEPT ![w] = @ + 1]
    \/ /\ F # {} /\ (StoreFaults \/ ctx # "live")
       /\ UNCHANGED <<db, commits>>

\* UpsertTarget and CreateScan; an error of either returns without a row.
Begin ==
    /\ pc = "begin"
    /\ \/ ctx = "live"
          /\ pc' = "registrant" /\ row' = "running" /\ UNCHANGED result
       \/ (StoreFaults \/ ctx # "live")
          /\ pc' = "returned" /\ result' = "error" /\ UNCHANGED row
    /\ UNCHANGED <<step, ctx, run, outcome, related, mem, db, commits, published>>

\* The organisation's expected registrant becomes a finding, unless the
\* lookup fails; then every pass-1 probe gets its goroutine.
ExpectedRegistrant ==
    /\ pc = "registrant"
    /\ \E F \in {{}, {Note("registrant")}} :
          /\ F = {} => (StoreFaults \/ ctx # "live")
          /\ mem' = [mem EXCEPT ![Registrant] = F]
          /\ AppendFindings(Registrant, F)
    /\ pc' = "pass1"
    /\ run' = [p \in Probes |-> IF p \in Pass1 THEN "running" ELSE run[p]]
    /\ UNCHANGED <<step, ctx, outcome, related, row, result, published>>

\* What results[i] holds once runOne returned: the probe's findings plus what
\* its outcome adds.  A panic loses the probe's own findings.
Result(o, F) ==
    IF o = "panic" THEN {Note("panic"), Note("error")}
    ELSE IF o = "ok" THEN F ELSE F \cup {Note(o)}

\* runOne and its goroutine up to the append.  A pass-1 probe reports the
\* hosts it discovered, a pass-2 probe the network of hosts it was offered
\* (or fewer, when single lookups fail).
ProbeReturns(p) ==
    /\ pc # "dead" /\ run[p] = "running"
    /\ \E o \in {"ok", "timeout", "error", "panic"} :
       \E H \in SUBSET (IF p \in Pass1 THEN Hosts ELSE related) :
          /\ outcome' = [outcome EXCEPT ![p] = o]
          /\ mem' = [mem EXCEPT ![p] =
                Result(o, About(IF p \in Pass1 THEN "host" ELSE "asn", H))]
    /\ run' = [run EXCEPT ![p] = "persisting"]
    /\ UNCHANGED <<pc, step, ctx, related, storeVars, result, published>>

\* Mutant: the findings of a probe that failed are kept out of the store.
ProbePersistsSuccess(p) ==
    /\ pc # "dead" /\ run[p] = "persisting"
    /\ AppendFindings(p, IF outcome[p] \in {"error", "panic"} THEN {} ELSE mem[p])
    /\ run' = [run EXCEPT ![p] = "done"]
    /\ UNCHANGED <<pc, step, ctx, outcome, related, mem, row, result, published>>

\* Each goroutine appends its own findings the moment it has them.
ProbePersists(p) ==
    /\ pc # "dead" /\ run[p] = "persisting"
    /\ AppendFindings(p, mem[p])
    /\ run' = [run EXCEPT ![p] = "done"]
    /\ UNCHANGED <<pc, step, ctx, outcome, related, mem, row, result, published>>

\* Mutant: only probes that succeeded contribute hosts.
DiscoveredBySuccess ==
    UNION {HostsOf("host", mem[p]) : p \in {q \in Pass1 : outcome[q] = "ok"}}

\* expandRelatedFromFindings over everything pass 1 left in memory.
Discovered == UNION {HostsOf("host", mem[p]) : p \in Pass1}

\* Mutant: the pass is written once more after its probes wrote it.
JoinPass1Rewrites ==
    /\ pc = "pass1"
    /\ \A p \in Pass1 : run[p] = "done"
    /\ pc' = "pass2"
    /\ related' = Discovered
    /\ run' = [p \in Probes |-> IF p \in Pass2 THEN "running" ELSE run[p]]
    /\ commits' = [w \in Writers |->
                     IF w \in Pass1 /\ mem[w] # {} THEN commits[w] + 1 ELSE commits[w]]
    /\ UNCHANGED <<step, ctx, outcome, mem, row, db, result, published>>

\* Mutant: a probe that panicked never signals the WaitGroup.
JoinPass1MissesPanics ==
    /\ pc = "pass1"
    /\ \A p \in Pass1 : run[p] = "done" /\ outcome[p] # "panic"
    /\ pc' = "pass2"
    /\ related' = Discovered
    /\ run' = [p \in Probes |-> IF p \in Pass2 THEN "running" ELSE run[p]]
    /\ UNCHANGED <<step, ctx, outcome, mem, storeVars, result, published>>

\* wg.Wait of pass 1; the ip probe starts with the enriched target.
JoinPass1 ==
    /\ pc = "pass1"
    /\ \A p \in Pass1 : run[p] = "done"
    /\ pc' = "pass2"
    /\ related' = Discovered
    /\ run' = [p \in Probes |-> IF p \in Pass2 THEN "running" ELSE run[p]]
    /\ UNCHANGED <<step, ctx, outcome, mem, storeVars, result, published>>

\* Mutant: nobody waits for the ip probe.
JoinPass2Early ==
    /\ pc = "pass2"
    /\ pc' = "synth"
    /\ UNCHANGED <<step, ctx, run, outcome, related, mem, storeVars, result,
                   published>>

\* wg.Wait of pass 2.
JoinPass2 ==
    /\ pc = "pass2"
    /\ \A p \in Pass2 : run[p] = "done"
    /\ pc' = "synth"
    /\ UNCHANGED <<step, ctx, run, outcome, related, mem, storeVars, result,
                   published>>

\* The hosts step s can place: the ones its feeding probe found and, unless
\* it looks them up itself, that some pass-2 lookup put in a network.
Basis(s) ==
    {h \in HostsOf("host", mem[Feeds[s]]) :
        s \in Lookups \/ \E p \in Pass2 : h \in HostsOf("asn", mem[p])}

\* What step s emits: one aggregate over the hosts it placed (the others are
\* "undetermined" in it), or one finding for each host it looked up.
Emits(s) == About("synth", Basis(s)) \cup (IF s \in Lookups THEN {} ELSE {Note("synth")})

\* One synthesis step, or the NS-holder lookups.  It speaks when the probe it
\* reads left hosts; otherwise that probe may have left a "none" finding or
\* nothing, and the step says so or is silent.  It appends what it emits.
Synthesise ==
    /\ pc = "synth" /\ step <= Len(Steps)
    /\ LET s == Steps[step]
       IN  \E F \in {{}, Emits(s)} :
              /\ F = {} => HostsOf("host", mem[Feeds[s]]) = {}
              /\ mem' = [mem EXCEPT ![s] = F]
              /\ AppendFindings(s, F)
    /\ step' = step + 1
    /\ UNCHANGED <<pc, ctx, run, outcome, related, row, result, published>>

\* The terminal status: a probe failed when runOne returned an error.
Failed == {p \in Probes : outcome[p] \in {"error", "panic"}}
Status == IF Failed = Probes THEN "failed"
          ELSE IF Failed # {} THEN "partial" ELSE "complete"

\* FinishScan; its error is only logged, the returned record says Status.
Finish ==
    /\ pc = "synth" /\ step > Len(Steps)
    /\ \/ ctx = "live" /\ row' = Status
       \/ (StoreFaults \/ ctx # "live") /\ UNCHANGED row
    /\ result' = Status
    /\ pc' = IF HasPublisher THEN "publish" ELSE "returned"
    /\ UNCHANGED <<step, ctx, run, outcome, related, mem, db, commits, published>>

\* The hook reads the scan back from the store under its own context.
Publish ==
    /\ pc = "publish"
    /\ published' = row
    /\ pc' = "returned"
    /\ UNCHANGED <<step, ctx, run, outcome, related, mem, storeVars, result>>

\* GlobalBudget runs out, or the caller's context ends.
ContextEnds ==
    /\ pc \notin {"returned", "dead"} /\ ctx = "live"
    /\ ctx' \in {"deadline", "cancelled"}
    /\ UNCHANGED <<pc, step, run, outcome, related, mem, storeVars, result,
                   published>>

\* The process dies: goroutines and memory are gone, the store stays.
Die ==
    /\ pc \notin {"returned", "dead"}
    /\ pc' = "dead"
    /\ UNCHANGED <<step, ctx, run, outcome, related, mem, storeVars, result, published>>

ProbeStep(p) == ProbeReturns(p) \/ ProbePersists(p)
ScanStep == Begin \/ ExpectedRegistrant \/ JoinPass1 \/ JoinPass2 \/ Synthesise
            \/ Finish \/ Publish
Next == ScanStep \/ (\E p \in Probes : ProbeStep(p)) \/ ContextEnds \/ Die

Spec == Init /\ [][Next]_vars

----------------------------------------------------------------------------
(* Properties.                                                             *)

RunTypeOK ==
    /\ pc \in {"begin", "registrant", "pass1", "pass2", "synth", "publish",
               "returned", "dead"}
    /\ step \in Nat \ {0}
    /\ ctx \in {"live", "deadline", "cancelled"}
    /\ run \in [Probes -> {"waiting", "running", "persisting", "done"}]
    /\ outcome \in [Probes -> {"none", "ok", "timeout", "error", "panic"}]
    /\ related \in SUBSET Hosts

StoreTypeOK ==
    /\ mem \in [Writers -> SUBSET Findings]
    /\ db \in [Writers -> SUBSET Findings]
    /\ commits \in [Writers -> Nat]
    /\ row \in Statuses \cup {"absent", "running"}
    /\ result \in Statuses \cup {"none", "error"}
    /\ published \in Statuses \cup {"none", "absent", "running"}

\* The values each variable takes.
TypeOK == RunTypeOK /\ StoreTypeOK

\* Every writer's findings enter the table at most once, and what the table
\* shows of a running scan is what memory holds of it: concurrent appends,
\* failed appends and an expired budget never duplicate or mix findings.
AppendedOnce ==
    \A w \in Writers : /\ commits[w] <= 1
                       /\ db[w] # {} => db[w] = mem[w]

\* While the context lives and the store works, a returned scan is in the
\* store to the last finding, with the status the caller was told.
ReturnedIsStored ==
    (pc = "returned" /\ ctx = "live" /\ ~StoreFaults) =>
        row = result /\ db = mem

\* A terminal status speaks for every probe and never hides a failed one:
\* complete means that none returned an error, failed that all did, and behind
\* partial at least one returned without error.
StatusShowsFailures ==
    /\ row \in Statuses => \A p \in Probes : outcome[p] # "none"
    /\ row = "complete" => Failed = {}
    /\ row = "failed"   => Failed = Probes
    /\ row = "partial"  => Failed # Probes

\* "a domain that resolves but whose HTTPS endpoint times out ... the Scan has
\* status partial" (openspec/specs/scanner/spec.md, lines 25-27).
TimeoutIsPartial ==
    row = "complete" => \A p \in Probes : outcome[p] # "timeout"

\* "Scanner runs in two passes so the IP probe sees discovered hosts": once
\* pass 2 started, every host any pass-1 probe found was offered to it,
\* whether or not that probe failed or its append did.
Pass2SeesEveryHost ==
    pc \in {"pass2", "synth", "publish", "returned"} /\ row # "absent" =>
        \A p \in Pass1 : HostsOf("host", mem[p]) \subseteq related

\* A synthesised finding rests on the final evidence: no probe adds a host
\* or a network after the step that correlates them has spoken.
SynthesisIsFinal ==
    \A s \in StepSet :
        mem[s] # {} => HostsOf("synth", mem[s]) = Basis(s)

\* Probes honour their context and so return; the scheduler of goroutines
\* and the database make progress.
Fairness == WF_vars(ScanStep) /\ \A p \in Probes : WF_vars(ProbeStep(p))
FairSpec == Spec /\ Fairness

\* Scan returns to its caller, whatever the probes, the store and the budget
\* do, unless the process dies.
ScanReturns == <>(pc \in {"returned", "dead"})
=============================================================================
