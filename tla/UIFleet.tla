------------------------------ MODULE UIFleet ------------------------------
(***************************************************************************)
(* The fleets of organisations and the scans behind their pages: requests  *)
(* that add and remove domains (internal/store/fleet.go, the fleet routes  *)
(* in internal/ui/ui.go), scans started from the UI, which run in a        *)
(* goroutine of their own and assess what they found, Internet.nl imports, *)
(* and assessments by other callers (POST /scans/{id}/assessments, the     *)
(* assess command, the MCP tool, scheduled jobs).  Every store call is a   *)
(* step: the store has one connection and no transaction spans two calls.  *)
(*                                                                         *)
(* What the findings of a scan amount to is an outcome: the result of      *)
(* every rule on them.  It changes while the scan runs.  A page is a       *)
(* function of the tables in one state.                                    *)
(***************************************************************************)
EXTENDS FleetPages

CONSTANTS
    Orgs,               \* organisations
    DefaultOrg,         \* DefaultOrganisationID, where UI scans put a target
    Domains,
    MaxJobs,            \* bound on scans, each with the goroutine behind it
    Adds,               \* add requests that can be under way at one time
    None,               \* no row
    Outcomes,           \* what findings can amount to
    NoFindings,         \* the outcome of a scan that found nothing yet
    Says,               \* Says[fw][o]: the rules of pack fw judge outcome o
    Endings,            \* terminal statuses of scans from the UI
    Order,              \* rules <<fw, id>> by id, alphabetically
    Budgets             \* bounds that are tried: on requests that add a domain
                        \* or remove one, on store calls of add requests that
                        \* fail, on scans, on assessments by other callers and
                        \* on jobs that fail, are cut short or die

ASSUME FleetAssumption ==
    /\ DefaultOrg \in Orgs /\ NoFindings \in Outcomes
    /\ None \notin Orgs \cup Domains \cup [org : Orgs, removed : BOOLEAN]
    /\ DOMAIN Says = {"wand", "eucsf"}
    /\ \A fw \in DOMAIN Says : DOMAIN Says[fw] = Outcomes
    /\ Endings \subseteq {"complete", "partial", "failed"}
    /\ Budgets \subseteq [add : Nat, remove : Nat, fault : Nat, scan : Nat,
                          assess : Nat, upset : Nat]
    /\ \A b \in Budgets : b.scan <= MaxJobs
    /\ MaxJobs \in Nat
    /\ IsFiniteSet(Domains)

\* What the engine makes of a pack: each rule judges once, on the scale of
\* four, and does not blame where it has a reason for not knowing.
JudgesOnce(rules) ==
    /\ \A r, q \in rules : r.id = q.id => r = q
    /\ \A r \in rules : /\ r.res.score \in Scores
                        /\ r.res.score = Afhankelijk => r.res.reason = ""

ASSUME PackAssumption ==
    /\ \A o \in Outcomes : Says["wand"][o] # {}
    /\ \A fw \in DOMAIN Says, o \in Outcomes :
          /\ JudgesOnce(Says[fw][o])
          /\ \A r \in Says[fw][o] : <<fw, r.id>> \in ToSet(Order)
    /\ Order \in Seq((DOMAIN Says) \X STRING)

\* Scans, numbered in the order they are asked for.
Jobs == 1..MaxJobs

VARIABLES
    target,             \* target[d]: the row of d in targets, or None
    scan,               \* scan[j]: the row of j in scans
    found,              \* found[j]: outcome of the findings stored for j
    assessed,           \* assessed[j]: the assessments of j, newest first
    pc,                 \* pc[j]: the next store call of the goroutine of j
    add,                \* add[a]: where the add request a is
    budget,             \* what is left of the bounds
    upset               \* history: jobs that failed, were cut short or died

vars == <<target, scan, found, assessed, pc, add, budget, upset>>

NoScan == [domain |-> None, start |-> 0, status |-> "none", import |-> FALSE]
Answered == {"idle", "accepted", "rejected", "failed"}
NoAdd == [pc |-> "idle", org |-> None, domain |-> None, overtaken |-> {}]

Init ==
    /\ target = [d \in Domains |-> None]
    /\ scan = [j \in Jobs |-> NoScan]
    /\ found = [j \in Jobs |-> NoFindings]
    /\ assessed = [j \in Jobs |-> <<>>]
    /\ pc = [j \in Jobs |-> [at |-> "idle", domain |-> None]]
    /\ add = [a \in Adds |-> NoAdd] /\ budget \in Budgets
    /\ upset = {}

Row(org) == [org |-> org, removed |-> FALSE]
At(j, l) == pc[j].at = l
Goto(j, l) == pc' = [pc EXCEPT ![j].at = l]

\* History: someone else inserted the row of d, or removed d, since a request
\* about d looked it up.
Overtake(d, how) == [a \in Adds |->
    IF add[a].pc \notin Answered \cup {"lookup"} /\ add[a].domain = d
    THEN [add[a] EXCEPT !.overtaken = @ \cup {how}] ELSE add[a]]

----------------------------------------------------------------------------
(* A domain joins and leaves a fleet.  Each store call of an add request    *)
(* may fail, also because the browser went away and took the context of    *)
(* the request with it; a write that fails may have taken effect.          *)

\* POST /ui/orgs/{slug}/fleet/domains: the slug names an organisation.
fleetAddHandler(a, org, d) ==
    /\ add[a].pc \in Answered
    /\ budget.add > 0 /\ budget' = [budget EXCEPT !.add = @ - 1]
    /\ add' = [add EXCEPT ![a] = [pc |-> "lookup", org |-> org, domain |-> d,
                                  overtaken |-> {}]]
    /\ UNCHANGED <<target, scan, found, assessed, pc, upset>>

Continue(a, l) == add' = [add EXCEPT ![a].pc = l]
Reply(l) == [NoAdd EXCEPT !.pc = l]
Answer(a, l) == add' = [add EXCEPT ![a] = Reply(l)]

StoreWorks == UNCHANGED budget
StoreFails == budget.fault > 0 /\ budget' = [budget EXCEPT !.fault = @ - 1]

\* Mutant: whose row it is is not looked at.
AddFleetDomainAny(a) ==
    /\ add[a].pc = "lookup"
    /\ \/ /\ Continue(a, IF target[add[a].domain] = None THEN "upsert"
                         ELSE "unremove")
          /\ StoreWorks
       \/ Answer(a, "failed") /\ StoreFails
    /\ UNCHANGED <<target, scan, found, assessed, pc, upset>>

\* The row of the domain is looked up: there is none, it is another
\* organisation's, it is this organisation's, or the query fails.
AddFleetDomain(a) ==
    LET row == target[add[a].domain]
    IN  /\ add[a].pc = "lookup"
        /\ \/ row = None /\ Continue(a, "upsert") /\ StoreWorks
           \/ /\ row # None /\ row.org # add[a].org
              /\ Answer(a, "rejected") /\ StoreWorks
           \/ /\ row # None /\ row.org = add[a].org
              /\ Continue(a, "unremove") /\ StoreWorks
           \/ Answer(a, "failed") /\ StoreFails
        /\ UNCHANGED <<target, scan, found, assessed, pc, upset>>

\* UpsertTarget looks again; a row that is there by now is simply returned.
AddUpsert(a) ==
    LET row == target[add[a].domain]
    IN  /\ add[a].pc = "upsert"
        /\ \/ row = None /\ Continue(a, "insert") /\ StoreWorks
           \/ row # None /\ Answer(a, "accepted") /\ StoreWorks
           \/ Answer(a, "failed") /\ StoreFails
        /\ UNCHANGED <<target, scan, found, assessed, pc, upset>>

\* The row gets in, and the request is answered l.
Inserts(a, l) ==
    LET d == add[a].domain
    IN  /\ target[d] = None
        /\ target' = [target EXCEPT ![d] = Row(add[a].org)]
        /\ add' = [Overtake(d, "inserted") EXCEPT ![a] = Reply(l)]

\* The domain is UNIQUE: a row that came in between makes the insert fail.
AddInsert(a) ==
    /\ add[a].pc = "insert"
    /\ \/ Inserts(a, "accepted") /\ StoreWorks
       \/ Inserts(a, "failed") /\ StoreFails
       \/ target[add[a].domain] # None
          /\ Answer(a, "failed") /\ StoreWorks /\ UNCHANGED target
       \/ Answer(a, "failed") /\ StoreFails /\ UNCHANGED target
    /\ UNCHANGED <<scan, found, assessed, pc, upset>>

\* The UPDATE that takes the removal back.
AddUnremove(a) ==
    LET back == [target EXCEPT ![add[a].domain].removed = FALSE]
    IN  /\ add[a].pc = "unremove"
        /\ \/ target' = back /\ Continue(a, "get") /\ StoreWorks
           \/ target' \in {target, back} /\ Answer(a, "failed") /\ StoreFails
        /\ UNCHANGED <<scan, found, assessed, pc, upset>>

\* GetTarget reads the row back; when it fails the request is refused
\* although the domain is in the fleet.
AddGet(a) ==
    /\ add[a].pc = "get"
    /\ \/ Answer(a, "accepted") /\ StoreWorks
       \/ Answer(a, "failed") /\ StoreFails
    /\ UNCHANGED <<target, scan, found, assessed, pc, upset>>

\* One statement: the row of this organisation that is not removed yet.
RemoveFleetDomain(org, d) ==
    /\ target[d] = Row(org)
    /\ budget.remove > 0 /\ budget' = [budget EXCEPT !.remove = @ - 1]
    /\ target' = [target EXCEPT ![d].removed = TRUE]
    /\ add' = Overtake(d, "removed")
    /\ UNCHANGED <<scan, found, assessed, pc, upset>>

----------------------------------------------------------------------------
(* A scan started from the UI, and an import.                              *)

Upset(j) ==
    /\ j \in upset \/ Cardinality(upset) < budget.upset
    /\ upset' = upset \cup {j}

\* Job j is the next to start.
IsNext(j) == /\ At(j, "idle") /\ \A k \in 1..(j - 1) : ~At(k, "idle")
             /\ budget.scan > 0 /\ budget' = [budget EXCEPT !.scan = @ - 1]

\* POST /ui/scan starts the goroutine and sends the browser to the status
\* page.
scanTriggerHandler(j, d) ==
    /\ IsNext(j)
    /\ pc' = [pc EXCEPT ![j] = [at |-> "upsert", domain |-> d]]
    /\ UNCHANGED <<target, scan, found, assessed, add, upset>>

\* Mutant: a scan of a target that is known already waits for ever.
UpsertTargetNew(j) ==
    /\ At(j, "upsert") /\ target[pc[j].domain] = None
    /\ Goto(j, "insert")
    /\ UNCHANGED <<target, scan, found, assessed, add, upset, budget>>

\* Scan upserts its target, in the default organisation when it is new; a
\* removed domain stays removed.
UpsertTarget(j) ==
    /\ At(j, "upsert")
    /\ Goto(j, IF target[pc[j].domain] = None THEN "insert" ELSE "create")
    /\ UNCHANGED <<target, scan, found, assessed, add, upset, budget>>

InsertTarget(j) ==
    LET d == pc[j].domain
    IN  /\ At(j, "insert")
        /\ IF target[d] = None
           THEN /\ target' = [target EXCEPT ![d] = Row(DefaultOrg)]
                /\ add' = Overtake(d, "inserted")
                /\ Goto(j, "create")
                /\ UNCHANGED upset
           ELSE /\ Goto(j, "done")
                /\ upset' = upset \cup {j}
                /\ UNCHANGED <<target, add>>
        /\ UNCHANGED <<scan, found, assessed, budget>>

Clock == Cardinality({j \in Jobs : scan[j] # NoScan})

NewScan(d) == [domain |-> d, start |-> Clock + 1, status |-> "running",
               import |-> FALSE]

CreateScan(j) ==
    /\ At(j, "create")
    /\ scan' = [scan EXCEPT ![j] = NewScan(pc[j].domain)]
    /\ Goto(j, "probe")
    /\ UNCHANGED <<target, found, assessed, add, upset, budget>>

\* A probe stores what it found.
AppendFindings(j) ==
    /\ At(j, "probe")
    /\ \E o \in Outcomes \ {NoFindings, found[j]} :
          found' = [found EXCEPT ![j] = o]
    /\ UNCHANGED <<target, scan, assessed, pc, add, upset, budget>>

\* Mutant: the row is left alone when a probe failed.
FinishScanComplete(j) ==
    /\ At(j, "probe")
    /\ \/ scan' = [scan EXCEPT ![j].status = "complete"]
       \/ UNCHANGED scan
    /\ Goto(j, "assess")
    /\ UNCHANGED <<target, found, assessed, add, upset, budget>>

\* The status follows from how many probes failed.
FinishScan(j) ==
    /\ At(j, "probe")
    /\ \E st \in Endings :
          scan' = [scan EXCEPT ![j].status = st]
    /\ Goto(j, "assess")
    /\ UNCHANGED <<target, found, assessed, add, upset, budget>>

\* The terminal update fails, which Scan logs and leaves at that.
FinishLost(j) ==
    /\ At(j, "probe")
    /\ Upset(j)
    /\ Goto(j, "assess")
    /\ UNCHANGED <<target, scan, found, assessed, add, budget>>

Judgement(j, fw) == [framework |-> fw, rules |-> Says[fw][found[j]],
                     ended |-> scan[j].status # "running"]

Store(j, fw) == assessed' = [assessed EXCEPT ![j] = <<Judgement(j, fw)>> \o @]

\* The goroutine assesses the findings with the wand pack.
CreateAssessment(j) ==
    /\ At(j, "assess")
    /\ Store(j, "wand")
    /\ Goto(j, "done")
    /\ UNCHANGED <<target, scan, found, add, upset, budget>>

\* A store call of the goroutine fails: the error is logged.
JobFails(j) ==
    /\ pc[j].at \in {"upsert", "insert", "create", "assess", "append", "finish"}
    /\ Upset(j)
    /\ Goto(j, "done")
    /\ UNCHANGED <<target, scan, found, assessed, add, budget>>

\* An import request knows the target and creates its scan, which is told
\* from other scans by its findings, so only from the next step on.
ImportNetnlDomains(j, d) ==
    /\ IsNext(j) /\ target[d] # None
    /\ scan' = [scan EXCEPT ![j] = NewScan(d)]
    /\ pc' = [pc EXCEPT ![j] = [at |-> "append", domain |-> d]]
    /\ UNCHANGED <<target, found, assessed, add, upset>>

ImportAppends(j) ==
    /\ At(j, "append")
    /\ scan' = [scan EXCEPT ![j].import = TRUE]
    /\ Goto(j, "finish")
    /\ UNCHANGED <<target, found, assessed, add, upset, budget>>

ImportFinishes(j) ==
    /\ At(j, "finish")
    /\ scan' = [scan EXCEPT ![j].status = "complete"]
    /\ Goto(j, "done")
    /\ UNCHANGED <<target, found, assessed, add, upset, budget>>

\* Any scan can be assessed at any time, by any caller, with either pack.
AssessScan(j, fw) ==
    /\ scan[j] # NoScan
    /\ budget.assess > 0 /\ budget' = [budget EXCEPT !.assess = @ - 1]
    /\ Store(j, fw)
    /\ UNCHANGED <<target, scan, found, pc, add, upset>>

\* The process ends and takes every goroutine with it; nothing repairs the
\* rows they leave.
Dies ==
    LET cut == {j \in Jobs : pc[j].at \notin {"idle", "done"}}
    IN  /\ cut # {} /\ Cardinality(upset \cup cut) <= budget.upset
        /\ upset' = upset \cup cut
        /\ pc' = [j \in Jobs |-> IF j \in cut THEN [pc[j] EXCEPT !.at = "done"]
                                 ELSE pc[j]]
        /\ add' = [a \in Adds |-> NoAdd]
        /\ UNCHANGED <<target, scan, found, assessed, budget>>

----------------------------------------------------------------------------
(* The pages.                                                              *)

\* The scan rows of a domain that a page chooses from.
Perimeter(d) == {j \in Jobs : scan[j].domain = d /\ ~scan[j].import}
Newest(S) == CHOOSE j \in S : \A k \in S : scan[k].start <= scan[j].start

\* ORDER BY created_at DESC.
ListAssessmentsForScan(j) == assessed[j]

Of(list, fw) == {k \in DOMAIN list : list[k].framework = fw}

\* Mutant: the oldest assessment of each framework.
TargetSnapshotOldest(d) ==
    LET j == Newest(Perimeter(d))
        list == ListAssessmentsForScan(j)
    IN  [target |-> d, status |-> scan[j].status,
         assessments |-> [fw \in {list[k].framework : k \in DOMAIN list} |->
                            list[Max(Of(list, fw))]]]

\* The most recent scan of a target that is not an import, and per framework
\* the most recent assessment of that scan.
TargetSnapshot(d) ==
    LET j == Newest(Perimeter(d))
        list == ListAssessmentsForScan(j)
    IN  [target |-> d, status |-> scan[j].status,
         assessments |-> [fw \in {list[k].framework : k \in DOMAIN list} |->
                            list[Min(Of(list, fw))]]]

\* Domains with such a scan, of one organisation or (None) of all.
Selected(org, activeOnly) ==
    {d \in Domains : /\ Perimeter(d) # {}
                     /\ org \in {None, target[d].org}
                     /\ activeOnly => ~target[d].removed}

buildSnapshots(org, activeOnly) ==
    {TargetSnapshot(d) : d \in Selected(org, activeOnly)}

\* GET /ui/ and /ui/orgs/{slug}.
renderDoor(org) ==
    LET snaps == buildSnapshots(org, TRUE)
        summary == BuildFleetSummary(snaps)
    IN  [summary |-> summary,
         Ring |-> BuildFleetRing(summary.X, summary.N, summary.Unanswered),
         FlowBars |-> BuildFlowBars(summary.Flows),
         TopRules |-> TopConcerns({s \in snaps : Voltooid(s)}, Order, 3),
         Domains |-> buildDoorDomains(snaps)]

\* The most recent scan before another one, imports skipped.
Previous(j) == {k \in Perimeter(scan[j].domain) : scan[k].start < scan[j].start}

PreviousList(j) == IF Previous(j) = {} THEN <<>>
                   ELSE ListAssessmentsForScan(Newest(Previous(j)))

\* Mutant: an import counts as the domain's last scan.
lastScanByTargetAny(d) == {j \in Jobs : scan[j].domain = d}

\* Scans the fleet page chooses a domain's last one from.
lastScanByTarget(d) == {j \in Jobs : scan[j].domain = d /\ ~scan[j].import}

\* A domain of the fleet: the score is from all assessments of its last scan,
\* whatever the status of that scan.
fleetRow(d) ==
    LET S == lastScanByTarget(d)
        list == ListAssessmentsForScan(Newest(S))
    IN  IF S = {}
        THEN [target |-> d, hasScan |-> FALSE, score |-> BuildFleetScore(<<>>),
              delta |-> BuildFleetDelta(FALSE, <<>>, <<>>)]
        ELSE [target |-> d, hasScan |-> TRUE, score |-> BuildFleetScore(list),
              delta |-> BuildFleetDelta(Previous(Newest(S)) # {},
                                        PreviousList(Newest(S)), list)]

\* GET /ui/orgs/{slug}/fleet.
fleetHandler(org) == {fleetRow(d) : d \in {e \in Domains : target[e] = Row(org)}}

\* GET /ui/scans/{id}/answer: the stored findings are assessed on the spot.
answerHandler(j) ==
    LET list == <<[framework |-> "wand",
                   rules |-> Says["wand"][found[j]]]>>
        done == scan[j].status # "running"
    IN  [Refreshing |-> ~done,
         JustStarted |-> found[j] = NoFindings /\ ~done,
         verdict |-> BuildAnswerVerdict(list),
         score |-> BuildFleetScore(list),
         Flows |-> BuildFlowStates(list, done)]

\* GET /ui/scans/{id}/assessment: the answer sheets from what is stored, one
\* card per stored assessment.
assessmentHandler(j) ==
    LET list == ListAssessmentsForScan(j)
    IN  [FlowAnswers |-> BuildFlowAnswers(list),
         Frameworks |-> [k \in DOMAIN list |->
            [Framework |-> list[k].framework,
             Dimensions |-> Dims(list[k]),
             Accountability |-> BuildAccountabilityAnswers(list[k].rules)]]]

\* GET /ui/scan-status: goes on to the answer page once there is a scan.
scanStatusHandler(d) == Perimeter(d) # {}

\* GET /ui/targets.
targetsHandler(snaps) ==
    {[target |-> s.target, FrameworkRows |-> lastAssessmentsForScan(s.assessments)] :
       s \in snaps}

\* GET /ui/trends, on all snapshots, those of removed domains included.
trendsHandler(snaps) ==
    LET matrix == RuleSummary(snaps)
    IN  [Catalogue |-> [k \in DOMAIN matrix |-> WorstScoreFromCounts(matrix[k])],
         Targets |-> buildFleetRows(snaps),
         Verdicts |-> WorstByFramework(snaps)]

----------------------------------------------------------------------------

JobStep(j) ==
    \/ UpsertTarget(j) \/ InsertTarget(j) \/ CreateScan(j)
    \/ FinishScan(j) \/ CreateAssessment(j)
    \/ ImportAppends(j) \/ ImportFinishes(j)

Next ==
    \/ \E a \in Adds, org \in Orgs, d \in Domains : fleetAddHandler(a, org, d)
    \/ \E a \in Adds : \/ AddFleetDomain(a) \/ AddUpsert(a) \/ AddInsert(a)
                      \/ AddUnremove(a) \/ AddGet(a)
    \/ \E org \in Orgs, d \in Domains : RemoveFleetDomain(org, d)
    \/ \E j \in Jobs, d \in Domains :
          scanTriggerHandler(j, d) \/ ImportNetnlDomains(j, d)
    \/ \E j \in Jobs : \/ JobStep(j) \/ AppendFindings(j)
                       \/ FinishLost(j) \/ JobFails(j)
    \/ \E j \in Jobs, fw \in DOMAIN Says : AssessScan(j, fw)
    \/ Dies

\* The runtime runs every goroutine, and the store answers every call.
Fairness == \A j \in Jobs : WF_vars(JobStep(j))

Spec == Init /\ [][Next]_vars /\ Fairness

----------------------------------------------------------------------------
(* Properties.                                                             *)

TargetRows == [org : Orgs, removed : BOOLEAN]
ScanRows == [domain : Domains \cup {None}, start : Nat, import : BOOLEAN,
             status : {"none", "running", "complete", "partial", "failed"}]
Judgements ==
    UNION {[framework : {fw}, ended : BOOLEAN, rules : {Says[fw][o] : o \in Outcomes}] :
             fw \in DOMAIN Says}
Routines == [at : {"idle", "upsert", "insert", "create", "probe", "assess",
                  "append", "finish", "done"},
            domain : Domains \cup {None}]
Requests == [pc : Answered \cup {"lookup", "upsert", "insert", "unremove",
                                 "get"},
             org : Orgs \cup {None}, domain : Domains \cup {None},
             overtaken : SUBSET {"inserted", "removed"}]

TableTypeOK ==
    /\ target \in [Domains -> TargetRows \cup {None}]
    /\ scan \in [Jobs -> ScanRows]
    /\ found \in [Jobs -> Outcomes]
    /\ assessed \in [Jobs -> Seq(Judgements)]

JobTypeOK ==
    /\ pc \in [Jobs -> Routines]
    /\ \A j \in Jobs : pc[j].at # "idle" => pc[j].domain \in Domains
    /\ upset \in SUBSET Jobs

AddTypeOK ==
    /\ add \in [Adds -> Requests]
    /\ \A a \in Adds : add[a].pc \notin Answered =>
          add[a].org \in Orgs /\ add[a].domain \in Domains

BudgetTypeOK ==
    budget \in [add : Nat, remove : Nat, fault : Nat, scan : Nat, assess : Nat,
                upset : Nat]

\* The values each variable takes; a request or a job under way is about a
\* domain.
TypeOK == TableTypeOK /\ JobTypeOK /\ AddTypeOK /\ BudgetTypeOK

\* AddFleetDomain (fleet.go): a request that is told its domain was added
\* leaves it in the fleet of that organisation, unless someone else inserted
\* or removed it since the request looked it up; one that is told another
\* organisation has it is always right; any other refusal goes back to a store
\* call that failed or to such an insert.  And whatever is asked, answered,
\* half done or overtaken, no domain ever changes hands ("silently
\* reassigning it would pull that org's scan history out from under it").
AddAnswersAreTrue ==
    [][/\ \A a \in Adds : add[a].pc \notin Answered =>
            LET row == target'[add[a].domain]
            IN  /\ add'[a].pc = "accepted" =>
                     /\ row # None
                     /\ row.org = add[a].org \/ "inserted" \in add[a].overtaken
                     /\ ~row.removed \/ "removed" \in add[a].overtaken
                /\ add'[a].pc = "rejected" => row # None /\ row.org # add[a].org
                /\ add'[a].pc = "failed" =>
                     \/ budget'.fault < budget.fault
                     \/ "inserted" \in add[a].overtaken
       /\ \A d \in Domains : target[d] # None =>
            target'[d] # None /\ target'[d].org = target[d].org]_vars

RowOf(d, rows) == CHOOSE r \in rows : r.target = d

\* A domain of the fleet that was scanned and assessed has its score on the
\* door, unless its newest scan still runs, failed, or was left behind
\* unfinished by an error or a dead process (sqlite.go, CreateScan).
HiddenScoreHasCause ==
    \A d \in Domains :
      LET j == Newest(Perimeter(d))
          row == RowOf(d, buildDoorDomains(buildSnapshots(None, TRUE)))
      IN  /\ target[d] # None /\ ~target[d].removed
          /\ \E k \in Perimeter(d) : scan[k].status \in {"complete", "partial"}
          => \/ row.HasScore
             \/ scan[j].status = "failed"
             \/ pc[j].at # "done"
             \/ j \in upset

Finished(j) == scan[j].status \in {"complete", "partial"}

\* Mutually different wand verdicts were stored for one scan.
JudgedTwice(j) == \E a, b \in ToSet(assessed[j]) :
    /\ a.framework = "wand" /\ b.framework = "wand"
    /\ a.rules # b.rules

\* The door and the fleet page of an organisation list the same scanned
\* domains and, once the newest scan of a domain has finished, with the same
\* score, which both rank by "so the two lists agree" (buildDoorDomains),
\* unless that scan was assessed twice with different results: the door then
\* goes by the newest assessment and the fleet page by the oldest (byRule).
DoorAndFleetAgree ==
    \A org \in Orgs :
      LET door == renderDoor(org).Domains
          fleet == {r \in fleetHandler(org) : r.hasScan}
      IN  /\ {r.target : r \in door} = {r.target : r \in fleet}
          /\ \A r \in door, q \in fleet :
                r.target = q.target /\ r.HasScore =>
                   \/ r.score = q.score
                   \/ JudgedTwice(Newest(Perimeter(r.target)))

\* The door shows a score from a stored assessment, the answer page behind it
\* judges the stored findings: once a finished scan was assessed after its
\* end, both give the same score, and the sentence on the answer page agrees
\* with it.  The answer sheet of the assessment page gives every flow it has
\* evidence for the score the answer page shows, unless it was judged twice.
AnswerMatchesDoor ==
    \A d \in Domains :
      Perimeter(d) # {} /\ Finished(Newest(Perimeter(d))) =>
        LET j == Newest(Perimeter(d))
            row == RowOf(d, buildDoorDomains(buildSnapshots(None, FALSE)))
            page == answerHandler(j)
        IN  (\E a \in ToSet(assessed[j]) : a.ended /\ a.framework = "wand")
            => /\ page.score = row.score
               /\ page.verdict.Verdict =
                     (IF row.score.X < row.score.N THEN "nee"
                      ELSE IF row.score.X > 0 THEN "ja" ELSE "onbekend")
               /\ page.verdict.DecidingFlow = row.score.WorstFlow
               /\ \A id \in DOMAIN assessmentHandler(j).FlowAnswers :
                    LET sheet == assessmentHandler(j).FlowAnswers[id]
                    IN  sheet.evidence # {} /\ ~JudgedTwice(j)
                        => \A i \in DOMAIN flowRules : flowRules[i] = id =>
                              /\ page.Flows[i].state = "beantwoord"
                              /\ page.Flows[i].score = sheet.score

Cells(rows, k, letters) == Cardinality({r \in rows : r.Grid[k] \in letters})

\* The fleet score hides nothing ("a high X/N can never hide a failing
\* domain", ui.go): it is the sum of the rows, every domain that fails a flow
\* counts as not sovereign, and every bar, the ring and the concerns agree
\* with the cells of the grid.
DoorAddsUp ==
    \A org \in Orgs :
      LET door == renderDoor(org)
          scored == {r \in door.Domains : r.HasScore}
          failing == {r \in scored : \E k \in DOMAIN r.Grid : r.Grid[k] = "N"}
      IN  /\ door.summary.X =
               SumFunction([k \in DOMAIN flowRules |->
                              Cells(scored, k, {"S", "V"})])
          /\ door.Ring.afhankelijk =
               SumFunction([k \in DOMAIN flowRules |->
                              Cells(scored, k, {"N"})])
          /\ door.Ring.onbekend =
               SumFunction([k \in DOMAIN flowRules |->
                              Cells(scored, k, {"?"})])
          /\ door.summary.NotSovereign = Cardinality(failing)
          /\ door.summary.DomainsWithoutScan =
               Cardinality(door.Domains \ scored)
          /\ failing # {} => door.TopRules # {}
          /\ \A k \in DOMAIN flowRules :
               flowRules[k] \in DOMAIN door.FlowBars =>
                 LET bar == door.FlowBars[flowRules[k]]
                 IN  /\ bar.outside = Cells(scored, k, {"N"})
                     /\ bar.inEEA = Cells(scored, k, {"S", "V"})
                     /\ bar.unknown = Cells(scored, k, {"?"})

\* A rule that has evidence and still does not know counts as the worst one.
Masked(rules) == \E r \in Evidenced(rules) : r.res.score = Onbekend

\* Trends: what the catalogue says of a rule is what the rule's own page
\* lists, target by target, the verdict of a framework is the worst verdict
\* any target has in it, the target list shows the same verdicts, and the pill
\* fails where the answer sheet of accountability has a no, unless a rule with
\* evidence for not knowing masks it.
TrendsAgree ==
    LET snaps == buildSnapshots(None, FALSE)
        page == trendsHandler(snaps)
        list == targetsHandler(snaps)
        InWand(t) == \E s \in snaps : s.target = t /\ "wand" \in DOMAIN s.assessments
    IN  /\ \A k \in DOMAIN page.Catalogue :
             LET rows == RuleTargetRows(snaps, k[1], k[2])
                 status == page.Catalogue[k]
                 known == {r \in rows : r.score # Onbekend}
             IN  /\ status.total = Cardinality(rows)
                 /\ status.atWorst = Cardinality({r \in rows :
                                                   r.score = status.worst})
                 /\ \A r \in known : Rank(status.worst) <= Rank(r.score)
                 /\ status.worst = Onbekend => known = {}
        /\ \A r \in page.Targets : Rank(r.verdict) > 0 /\ InWand(r.target) =>
             Rank(page.Verdicts["wand"].Score) \in 1..Rank(r.verdict)
        /\ \A r \in page.Targets, q \in list :
             r.target = q.target /\ InWand(r.target) =>
               r.verdict = q.FrameworkRows["wand"]
        /\ \A r \in page.Targets, s \in snaps :
             r.target = s.target /\ InWand(r.target) =>
               LET rules == s.assessments["wand"].rules
               IN  (r.pill = Afhankelijk) =
                     /\ \E a \in BuildAccountabilityAnswers(rules) : a.answer = "nee"
                     /\ ~Masked(OfDim(rules, "accountability"))

\* Every number that stands for many targets, on the door and on Trends, can
\* be recounted from the rows of the single targets.
AggregatesAddUp == DoorAddsUp /\ TrendsAgree

\* The status page that POST /ui/scan leads to does not wait for ever: the
\* scan gets its row and ends, unless its goroutine met an error or died.
ScanSettles ==
    \A j \in Jobs : At(j, "upsert") ~>
        (scan[j].status \in {"complete", "partial", "failed"} \/ j \in upset)
=============================================================================
