---------------------------- MODULE ScanHistory ----------------------------
(***************************************************************************)
(* The scans of one target, and what is derived by comparing them.  Two    *)
(* kinds of writers share the tables: scheduled jobs (makeJob in           *)
(* internal/scheduler/scheduler.go: scan, assess, diff, persist) and       *)
(* Internet.nl imports (ImportNetnlDomains in                              *)
(* internal/scanner/netnlimport.go).  Every store call is a step of its    *)
(* own: the store has one connection, so calls do not overlap, but calls   *)
(* of different writers interleave.                                        *)
(*                                                                         *)
(* What a scan found is a value per facet.  A set facet (MX, NS, third     *)
(* parties) counts as empty when the scan holds no finding of it; a value  *)
(* facet (issuer, country of an address) is compared when both scans have  *)
(* it.                                                                     *)
(***************************************************************************)
EXTENDS Naturals, FiniteSets

CONSTANTS
    Jobs,               \* ticks of schedules that scan the target
    Assessing,          \* those whose schedule has assessing enabled
    Imports,            \* import requests that name the target
    FileOf,             \* FileOf[i]: the file (its hash) request i carries
    TypesOf,            \* TypesOf[f]: measurement types in file f
    Types,              \* "web" and "mail"
    NoScan,             \* no scan at all
    SetFacets, ValueFacets,
    Values,             \* what a facet can look like
    Blank,              \* a finding without hosts ("no MX records")
    Nothing,            \* no finding of the facet
    Scenes,             \* bounds on a behaviour, see HistoryAssumption
    MaxUpsets           \* bound: writers that meet an error, panic or die

Writers == Jobs \cup Imports
Facets == SetFacets \cup ValueFacets
Seen == Values \cup {Blank, Nothing}
Frameworks == 2

ASSUME HistoryAssumption ==
    /\ Jobs \cap Imports = {} /\ Assessing \subseteq Jobs
    /\ NoScan \notin Writers
    /\ TypesOf \in [{FileOf[i] : i \in Imports} -> (SUBSET Types) \ {{}}]
    /\ Blank \notin Values /\ Nothing \notin Values /\ Blank # Nothing
    /\ SetFacets \cap ValueFacets = {}
    /\ {"baseline", "no_changes"} \cap Facets = {}
    /\ MaxUpsets \in Nat
    \* whether writers run at the same time, the facets that are probed, how
    \* many import requests arrive and how often the outside world changes
    /\ Scenes \subseteq [overlap : BOOLEAN, facets : SUBSET Facets,
                         imports : Nat, changes : Nat]

VARIABLES
    scene,              \* the bounds of this behaviour
    world, changes,     \* what a probe would see now, and how often it changed
    target,             \* whether the targets table has the domain
    now,                \* clock of started_at
    started,            \* started[w]: started_at of w's scan, 0 for no row
    status,             \* status[w]: "none", "running" or "ended"
    facts,              \* facts[w]: perimeter findings in the table
    types,              \* types[w]: measurement types of its import findings
    drift,              \* drift[w]: drift findings in the table
    panics,             \* scans that carry a scheduler.panic finding
    judged,             \* judged[j]: assessments stored for j's scan
    recorded,           \* files in netnl_imports
    pc,                 \* pc[w]: the next store call of w
    todo,               \* todo[j]: facets whose probe has not reported
    mem,                \* mem[j]: the findings of the scan in memory
    used,               \* used[j]: import scans the assessor reads, per type
    base,               \* base[j]: the scan PreviousScanForTarget chose
    diff,               \* diff[j]: what drift.Compute returned
    answer,             \* answer[i]: what import request i was told
    early,              \* history: jobs that read a scan which was running
    upset               \* history: writers that met an error, panic or death

worldVars == <<scene, world, changes>>
tableVars == <<target, now, started, status, facts, types, drift, panics,
               judged, recorded>>
localVars == <<todo, mem, used, base, diff, early, answer>>
vars == <<worldVars, tableVars, pc, localVars, upset>>

Init ==
    /\ scene \in Scenes
    /\ world \in [scene.facets -> Values] /\ changes = 0
    /\ target \in BOOLEAN
    /\ now = 0
    /\ started = [w \in Writers |-> 0]
    /\ status = [w \in Writers |-> "none"]
    /\ facts = [w \in Writers |-> [f \in Facets |-> Nothing]]
    /\ types = [w \in Writers |-> {}]
    /\ drift = [w \in Writers |-> {}]
    /\ panics = {}
    /\ judged = [j \in Jobs |-> 0]
    /\ recorded = {}
    /\ pc = [w \in Writers |-> "idle"]
    /\ todo = [j \in Jobs |-> scene.facets]
    /\ mem = [j \in Jobs |-> [f \in Facets |-> Nothing]]
    /\ used = [j \in Jobs |-> [t \in Types |-> NoScan]]
    /\ base = [j \in Jobs |-> NoScan]
    /\ diff = [j \in Jobs |-> {}]
    /\ answer = [i \in Imports |-> "none"]
    /\ early = {} /\ upset = {}

Goto(w, l) == pc' = [pc EXCEPT ![w] = l]

\* A store call of w fails (budget over, disk full), w panics or dies.
Upset(w) ==
    /\ w \in upset \/ Cardinality(upset) < MaxUpsets
    /\ upset' = upset \cup {w}

----------------------------------------------------------------------------
(* A scheduled job, up to its scan.                                        *)

Alone(w) == \A o \in Writers \ {w} : pc[o] \in {"idle", "done"}

\* The tick fires and the organisation is found.
JobTicks(j) ==
    /\ pc[j] = "idle" /\ (scene.overlap \/ Alone(j))
    /\ Goto(j, "target")
    /\ UNCHANGED <<worldVars, tableVars, localVars, upset>>

\* UpsertTarget reads the targets row ...
LookUpTarget(j) ==
    /\ pc[j] = "target"
    /\ Goto(j, IF target THEN "create" ELSE "insert")
    /\ UNCHANGED <<worldVars, tableVars, localVars, upset>>

\* ... and inserts it when there was none.  The domain is UNIQUE: a row that
\* appeared in between makes the insert, and with it Scan, fail.
InsertTarget(j) ==
    /\ pc[j] = "insert"
    /\ target' = TRUE
    /\ Goto(j, IF target THEN "done" ELSE "create")
    /\ UNCHANGED <<worldVars, now, started, status, facts, types, drift,
                   panics, judged, recorded, localVars, upset>>

CreateScan(w) ==
    /\ pc[w] = "create"
    /\ now' = now + 1
    /\ started' = [started EXCEPT ![w] = now + 1]
    /\ status' = [status EXCEPT ![w] = "running"]
    /\ Goto(w, "findings")
    /\ UNCHANGED <<worldVars, target, facts, types, drift, panics, judged,
                   recorded, localVars, upset>>

\* Mutant: the findings are stored and not kept in the returned scan.
ProbeReportsToTable(j, f, v) ==
    /\ j \in Jobs /\ pc[j] = "findings" /\ f \in todo[j]
    /\ v = world[f] \/ v = Nothing
    /\ todo' = [todo EXCEPT ![j] = @ \ {f}]
    /\ facts' = [facts EXCEPT ![j][f] = v]
    /\ UNCHANGED <<worldVars, target, now, started, status, types, drift,
                   panics, judged, recorded, pc, mem, used, base, diff, early, answer, upset>>

\* The probe behind facet f reports v; its findings go to memory and table.
ProbeReports(j, f, v) ==
    /\ j \in Jobs /\ pc[j] = "findings" /\ f \in todo[j]
    /\ v = world[f] \/ v = Nothing \/ (v = Blank /\ f \in SetFacets)
    /\ todo' = [todo EXCEPT ![j] = @ \ {f}]
    /\ mem' = [mem EXCEPT ![j][f] = v]
    /\ \/ facts' = [facts EXCEPT ![j][f] = v] /\ UNCHANGED upset
       \/ Upset(j) /\ UNCHANGED facts
    /\ UNCHANGED <<worldVars, target, now, started, status, types, drift,
                   panics, judged, recorded, pc, used, base, diff, early, answer>>

\* FinishScan; an error is logged and the scan returned all the same.
FinishScan(j) ==
    /\ j \in Jobs /\ pc[j] = "findings" /\ todo[j] = {}
    /\ \/ status' = [status EXCEPT ![j] = "ended"] /\ UNCHANGED upset
       \/ Upset(j) /\ UNCHANGED status
    /\ Goto(j, IF j \in Assessing THEN "read" ELSE "pick")
    /\ UNCHANGED <<worldVars, target, now, started, facts, types, drift,
                   panics, judged, recorded, localVars>>

----------------------------------------------------------------------------
(* assessScan.                                                             *)

\* The scan in S with the highest started_at.
Latest(S) == CHOOSE s \in S : \A o \in S : started[o] <= started[s]

\* Mutant: only the target's newest scan is looked at.
LatestImportIfNewest(t) ==
    LET all == {w \in Writers : started[w] # 0}
    IN  IF all # {} /\ t \in types[Latest(all)] THEN Latest(all) ELSE NoScan

\* LatestImportFindings: per type the most recently started scan that has
\* findings of the type.
LatestImport(t) ==
    LET ofType == {w \in Writers : started[w] # 0 /\ t \in types[w]}
    IN  IF ofType = {} THEN NoScan ELSE Latest(ofType)

\* FindingsForAssessment.
ReadForAssessment(j) ==
    /\ pc[j] = "read"
    /\ used' = [used EXCEPT ![j] = [t \in Types |-> LatestImport(t)]]
    /\ Goto(j, "judge")
    /\ UNCHANGED <<worldVars, tableVars, todo, mem, base, diff, early, answer, upset>>

\* CreateAssessment for the next framework.
CreateAssessment(j) ==
    /\ pc[j] = "judge"
    /\ judged' = [judged EXCEPT ![j] = @ + 1]
    /\ Goto(j, IF judged[j] + 1 = Frameworks THEN "pick" ELSE "judge")
    /\ UNCHANGED <<worldVars, target, now, started, status, facts, types,
                   drift, panics, recorded, localVars, upset>>

\* An assessment that fails is logged; drift goes on.
AssessFails(j) ==
    /\ pc[j] \in {"read", "judge"}
    /\ Goto(j, "pick")
    /\ Upset(j)
    /\ UNCHANGED <<worldVars, tableVars, localVars>>

----------------------------------------------------------------------------
(* drift.Compute and the append of its findings.                           *)

\* Mutant: only scans that ended are compared with.
EarlierScansEnded(j) ==
    {w \in Writers : status[w] = "ended" /\ started[w] < started[j] /\ types[w] = {}}

\* Scans that started before j's and hold no import finding, whatever their
\* status.
EarlierScans(j) ==
    {w \in Writers : started[w] # 0 /\ started[w] < started[j] /\ types[w] = {}}

\* PreviousScanForTarget selects the id ...
PickPrevious(j) ==
    /\ pc[j] = "pick"
    /\ base' = [base EXCEPT ![j] = IF EarlierScans(j) = {} THEN NoScan
                                   ELSE Latest(EarlierScans(j))]
    /\ Goto(j, "load")
    /\ UNCHANGED <<worldVars, tableVars, todo, mem, used, diff, early, answer, upset>>

Hosts(v) == IF v = Nothing THEN Blank ELSE v

\* The facets whose rule fires.
Changed(p, c) ==
    {f \in SetFacets : Hosts(p[f]) # Hosts(c[f])}
    \cup {f \in ValueFacets : p[f] # c[f] /\ Nothing \notin {p[f], c[f]}}

\* Mutant: two scans without a change give no finding.
DiffSilent(p, c) == IF p = NoScan THEN {"baseline"} ELSE Changed(facts[p], c)

\* Diff: a baseline without a previous scan, else what changed, else
\* no_changes.
Diff(p, c) ==
    IF p = NoScan THEN {"baseline"}
    ELSE IF Changed(facts[p], c) = {} THEN {"no_changes"}
    ELSE Changed(facts[p], c)

\* ... GetScan reads its findings, and the rules run on them and on the scan
\* in memory.
LoadAndDiff(j) ==
    /\ pc[j] = "load"
    /\ diff' = [diff EXCEPT ![j] = Diff(base[j], mem[j])]
    /\ early' = IF base[j] # NoScan /\ status[base[j]] = "running"
                THEN early \cup {j} ELSE early
    /\ Goto(j, "append")
    /\ UNCHANGED <<worldVars, tableVars, todo, mem, used, base, answer, upset>>

\* Finding.Validate: the rules for sets take their subject from the new
\* scan's findings of the facet, and an empty subject is refused.
Valid(j) == \A f \in diff[j] \cap SetFacets : mem[j][f] # Nothing

\* AppendFindings, one transaction; an error is logged and the job is over.
AppendDrift(j) ==
    /\ pc[j] = "append"
    /\ \/ Valid(j) /\ drift' = [drift EXCEPT ![j] = diff[j]] /\ UNCHANGED upset
       \/ ~Valid(j) /\ UNCHANGED <<drift, upset>>
       \/ Upset(j) /\ UNCHANGED drift
    /\ Goto(j, "done")
    /\ UNCHANGED <<worldVars, target, now, started, status, facts, types,
                   panics, judged, recorded, localVars>>

\* Any store call before the scan row exists, and either read of
\* drift.Compute, may fail and end the job.
JobFails(j) ==
    /\ pc[j] \in {"target", "insert", "create", "pick", "load"} /\ j \in Jobs
    /\ Goto(j, "done")
    /\ Upset(j)
    /\ UNCHANGED <<worldVars, tableVars, localVars>>

\* makeJob recovers from a panic: persistPanicFinding puts a finding on the
\* scan that started last, whosever it is.
JobPanics(j) ==
    /\ j \in Jobs /\ pc[j] \notin {"idle", "done"}
    /\ panics' = LET all == {w \in Writers : started[w] # 0}
                 IN  panics \cup (IF all = {} THEN {} ELSE {Latest(all)})
    /\ Goto(j, "done")
    /\ Upset(j)
    /\ UNCHANGED <<worldVars, target, now, started, status, facts, types,
                   drift, judged, recorded, localVars>>

----------------------------------------------------------------------------
(* ImportNetnlDomains, for the target's domain.                            *)

Answered(i, a) ==
    /\ answer' = [answer EXCEPT ![i] = a]
    /\ Goto(i, "done")
    /\ UNCHANGED <<worldVars, todo, mem, used, base, diff, early>>

\* A request arrives and its file parses.
ImportArrives(i) ==
    /\ pc[i] = "idle" /\ (scene.overlap \/ Alone(i))
    /\ Cardinality({o \in Imports : pc[o] # "idle"}) < scene.imports
    /\ Goto(i, "check")
    /\ UNCHANGED <<worldVars, tableVars, localVars, upset>>

\* NetnlImportRecorded.
ImportChecks(i) ==
    /\ pc[i] = "check"
    /\ IF FileOf[i] \in recorded
       THEN Answered(i, "already")
       ELSE Goto(i, "lookup") /\ UNCHANGED <<worldVars, localVars>>
    /\ UNCHANGED <<tableVars, upset>>

\* GetTargetByDomain.
ImportLooksUp(i) ==
    /\ pc[i] = "lookup"
    /\ IF target
       THEN Goto(i, "create") /\ UNCHANGED <<worldVars, localVars>>
       ELSE Answered(i, "unknown")
    /\ UNCHANGED <<tableVars, upset>>

\* AppendFindings with everything the file says about the domain.
ImportAppends(i) ==
    /\ i \in Imports /\ pc[i] = "findings"
    /\ types' = [types EXCEPT ![i] = TypesOf[FileOf[i]]]
    /\ Goto(i, "finish")
    /\ UNCHANGED <<worldVars, target, now, started, status, facts, drift,
                   panics, judged, recorded, localVars, upset>>

ImportFinishes(i) ==
    /\ pc[i] = "finish"
    /\ status' = [status EXCEPT ![i] = "ended"]
    /\ Goto(i, "record")
    /\ UNCHANGED <<worldVars, target, now, started, facts, types, drift,
                   panics, judged, recorded, localVars, upset>>

\* Mutant: the record is written with INSERT OR IGNORE.
ImportRecordsQuietly(i) ==
    /\ pc[i] = "record"
    /\ Answered(i, "imported")
    /\ recorded' = recorded \cup {FileOf[i]}
    /\ UNCHANGED <<target, now, started, status, facts, types, drift, panics,
                   judged, upset>>

\* RecordNetnlImport; (file_hash, domain) is the primary key.
ImportRecords(i) ==
    /\ pc[i] = "record"
    /\ Answered(i, IF FileOf[i] \in recorded THEN "error" ELSE "imported")
    /\ recorded' = recorded \cup {FileOf[i]}
    /\ UNCHANGED <<target, now, started, status, facts, types, drift, panics,
                   judged, upset>>

ImportFails(i) ==
    /\ i \in Imports /\ pc[i] \notin {"idle", "done"}
    /\ Answered(i, "error")
    /\ Upset(i)
    /\ UNCHANGED tableVars

----------------------------------------------------------------------------
(* The environment.                                                        *)

\* The process dies between two store calls, or the request is cancelled.
Dies(w) ==
    /\ pc[w] \notin {"idle", "done"}
    /\ Goto(w, "done")
    /\ Upset(w)
    /\ UNCHANGED <<worldVars, tableVars, localVars>>

\* The domain is added to the fleet by hand.
AddFleetDomain ==
    /\ ~target /\ (scene.overlap \/ \A w \in Writers : pc[w] \in {"idle", "done"})
    /\ target' = TRUE
    /\ UNCHANGED <<worldVars, now, started, status, facts, types, drift,
                   panics, judged, recorded, pc, localVars, upset>>

WorldChanges ==
    /\ changes < scene.changes
    /\ changes' = changes + 1 /\ UNCHANGED scene
    /\ \E f \in scene.facets : \E v \in Values \ {world[f]} :
          world' = [world EXCEPT ![f] = v]
    /\ UNCHANGED <<tableVars, pc, localVars, upset>>

JobStep(j) ==
    \/ JobTicks(j) \/ LookUpTarget(j) \/ InsertTarget(j) \/ CreateScan(j)
    \/ \E f \in scene.facets, v \in Seen : ProbeReports(j, f, v)
    \/ FinishScan(j) \/ ReadForAssessment(j) \/ CreateAssessment(j)
    \/ AssessFails(j) \/ PickPrevious(j) \/ LoadAndDiff(j) \/ AppendDrift(j)
    \/ JobFails(j) \/ JobPanics(j)

ImportStep(i) ==
    \/ ImportArrives(i) \/ ImportChecks(i) \/ ImportLooksUp(i) \/ CreateScan(i)
    \/ ImportAppends(i) \/ ImportFinishes(i) \/ ImportRecords(i) \/ ImportFails(i)

EnvStep == AddFleetDomain \/ WorldChanges \/ \E w \in Writers : Dies(w)

Next ==
    \/ \E j \in Jobs : JobStep(j)
    \/ \E i \in Imports : ImportStep(i)
    \/ EnvStep

Spec == Init /\ [][Next]_vars

----------------------------------------------------------------------------
(* Properties.                                                             *)

JobPlaces == {"idle", "target", "insert", "create", "findings", "read", "judge",
              "pick", "load", "append", "done"}
ImportPlaces == {"idle", "check", "lookup", "create", "findings", "finish",
                 "record", "done"}
Results == Facets \cup {"baseline", "no_changes"}

TableTypeOK ==
    /\ target \in BOOLEAN /\ now \in Nat
    /\ started \in [Writers -> Nat]
    /\ status \in [Writers -> {"none", "running", "ended"}]
    /\ facts \in [Writers -> [Facets -> Seen]]
    /\ types \in [Writers -> SUBSET Types]
    /\ drift \in [Writers -> SUBSET Results]
    /\ panics \in SUBSET Writers
    /\ judged \in [Jobs -> Nat]

LocalTypeOK ==
    /\ pc \in [Writers -> JobPlaces \cup ImportPlaces]
    /\ \A j \in Jobs : pc[j] \in JobPlaces
    /\ \A i \in Imports : pc[i] \in ImportPlaces
    /\ todo \in [Jobs -> SUBSET Facets]
    /\ mem \in [Jobs -> [Facets -> Seen]]
    /\ used \in [Jobs -> [Types -> Writers \cup {NoScan}]]
    /\ base \in [Jobs -> Writers \cup {NoScan}]
    /\ diff \in [Jobs -> SUBSET Results]
    /\ answer \in [Imports -> {"none", "already", "unknown", "imported", "error"}]
    /\ early \in SUBSET Jobs /\ upset \in SUBSET Writers

WorldTypeOK ==
    /\ scene \in Scenes
    /\ world \in [scene.facets -> Values] /\ changes \in Nat

\* The values each variable takes.
TypeOK == WorldTypeOK /\ TableTypeOK /\ LocalTypeOK

\* "First scan yields a baseline, never spurious drift"
\* (openspec/specs/scheduling/spec.md): however ticks, failures and imports
\* interleave, one scan at most is the target's baseline, and it stays the
\* perimeter scan that started first.
OneBaseline ==
    \A j \in Jobs :
        "baseline" \in drift[j] =>
            /\ drift[j] = {"baseline"}
            /\ \A o \in Jobs \ {j} : started[o] # 0 => started[o] > started[j]

\* "a perimeter scan never erases imported findings and vice versa"
\* (FindingsForAssessment): an assessment never rests on older Internet.nl
\* findings of a type than an assessment made before it, nor drops a type.
StandardsNeverGoBack ==
    [][\A j, o \in Jobs, t \in Types :
          /\ pc[j] = "read" /\ pc'[j] = "judge" /\ used[o][t] # NoScan
          => /\ used'[j][t] # NoScan
             /\ started[used'[j][t]] >= started[used[o][t]]]_vars

\* What import requests are told is true: one request at most per file is
\* answered "imported", and a file is reported as imported already only when
\* some import scan holds all of it.
ImportAnswersAreTrue ==
    /\ \A i1, i2 \in Imports :
          /\ FileOf[i1] = FileOf[i2]
          /\ answer[i1] = "imported" /\ answer[i2] = "imported"
          => i1 = i2
    /\ \A i \in Imports :
          answer[i] \in {"already", "imported"} =>
              \E o \in Imports : /\ FileOf[o] = FileOf[i] /\ status[o] = "ended"
                                 /\ types[o] = TypesOf[FileOf[i]]

\* "the scheduler invokes the drift engine which compares the new scan against
\* the previous one for the same target and persists drift Findings"
\* (docs/how-to/scheduling.md): a job that met no error left drift findings,
\* unless a facet whose findings are gone took them all along.
LostDriftHasCause ==
    \A j \in Jobs :
        j \notin upset /\ pc[j] = "done" /\ started[j] # 0 /\ drift[j] = {} =>
            \E f \in SetFacets : mem[j][f] = Nothing /\ base[j] # NoScan

\* wanderer diff "Computes the same Findings the scheduler would persist"
\* (docs/reference/drift.md): what the job stored can be recomputed from the
\* two scans in the store, when neither of them lost findings on the way and
\* the earlier one was over when the job read it.
DriftReproducible ==
    \A j \in Jobs \ early :
        drift[j] # {} /\ {j, base[j]} \cap upset = {}
        => drift[j] = Diff(base[j], facts[j])

\* "Re-importing an identical file SHALL be idempotent"
\* (openspec/specs/scanner/spec.md): one scan at most holds a file's findings.
FileImportedOnce ==
    \A i1, i2 \in Imports :
        /\ FileOf[i1] = FileOf[i2] /\ types[i1] # {} /\ types[i2] # {}
        => i1 = i2

=============================================================================
