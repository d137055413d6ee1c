--------------------------- MODULE UIFleetProofs ---------------------------
(***************************************************************************)
(* Proofs about UIFleet, for any organisations, domains, requests, scans   *)
(* and bounds.                                                             *)
(*                                                                         *)
(* FleetInv, the inductive invariant:                                      *)
(*   TypeOK    the variables keep their types;                             *)
(*   RowInv    whoever relies on a row in targets finds one;               *)
(*   AddInv    what an add request read about its domain still holds,      *)
(*             unless someone else inserted the row or removed it since;   *)
(*   JobInv    what a scan row says of the place of its goroutine;         *)
(*   SheetInv  an assessment made after the end of a scan judged the       *)
(*             findings that are stored, and newer ones did too.           *)
(***************************************************************************)
EXTENDS UIFleet, FiniteSetTheorems, WellFoundedInduction, TLAPS

RowInv ==
    /\ \A j \in Jobs : scan[j].domain # None => target[scan[j].domain] # None
    /\ \A j \in Jobs : pc[j].at = "create" => target[pc[j].domain] # None
    /\ \A a \in Adds : add[a].pc \in {"unremove", "get"} =>
          target[add[a].domain] # None

AddInv ==
    \A a \in Adds :
        LET row == target[add[a].domain]
        IN  /\ add[a].pc \in {"upsert", "insert"} /\ row # None =>
                 /\ "inserted" \in add[a].overtaken
                 /\ ~row.removed \/ "removed" \in add[a].overtaken
            /\ add[a].pc \in {"unremove", "get"} => row.org = add[a].org
            /\ add[a].pc = "get" =>
                 ~row.removed \/ "removed" \in add[a].overtaken

JobInv ==
    \A j \in Jobs :
        /\ scan[j] = NoScan \/ (scan[j].domain \in Domains /\ scan[j].status # "none")
        /\ scan[j].start <= MaxJobs + 1
        /\ pc[j].at \in {"idle", "upsert", "insert", "create"} => scan[j] = NoScan
        /\ pc[j].at \in {"assess", "append", "finish"} => scan[j] # NoScan
        /\ pc[j].at = "probe" => scan[j].status = "running"
        /\ scan[j].status = "running" /\ j \notin upset =>
              pc[j].at \in {"probe", "append", "finish"}

SheetInv ==
    \A j \in Jobs :
        /\ assessed[j] # <<>> => scan[j] # NoScan
        /\ \A k \in DOMAIN assessed[j] : assessed[j][k].ended =>
              /\ scan[j].status # "running"
              /\ assessed[j][k].rules = Says[assessed[j][k].framework][found[j]]
              /\ \A i \in 1..k : assessed[j][i].ended

FleetInv == TypeOK /\ RowInv /\ AddInv /\ JobInv /\ SheetInv

----------------------------------------------------------------------------
(* What the building blocks of the actions do.                             *)

Places == {"upsert", "insert", "create", "probe", "assess", "append",
           "finish", "done"}

\* A goroutine moves on and stays with its domain.
LEMMA GotoMoves ==
    ASSUME JobTypeOK, NEW j \in Jobs, pc[j].at # "idle",
           NEW l \in Places, Goto(j, l)
    PROVE  /\ pc' \in [Jobs -> Routines]
           /\ \A k \in Jobs : pc'[k].domain = pc[k].domain
           /\ \A k \in Jobs \ {j} : pc'[k].at = pc[k].at
           /\ pc'[j].at = l /\ pc[j].domain \in Domains
           /\ \A k \in Jobs : pc'[k].at # "idle" => pc'[k].domain \in Domains
<1>1. pc[j] \in Routines /\ pc[j].domain \in Domains
  BY DEF JobTypeOK
<1>2. [pc[j] EXCEPT !.at = l] \in Routines
  BY <1>1 DEF Routines, Places
<1>3. /\ [pc[j] EXCEPT !.at = l].at = l
      /\ [pc[j] EXCEPT !.at = l].domain = pc[j].domain
  BY <1>1 DEF Routines
<1>4. pc' = [pc EXCEPT ![j] = [pc[j] EXCEPT !.at = l]]
  BY DEF Goto
<1> HIDE DEF Routines, Places, Goto
<1> QED
  BY <1>1, <1>2, <1>3, <1>4 DEF JobTypeOK

\* A request moves on and stays with its domain and organisation.
LEMMA ContinueMoves ==
    ASSUME AddTypeOK, NEW a \in Adds, add[a].pc \notin Answered,
           NEW l \in {"upsert", "insert", "unremove", "get"}, Continue(a, l)
    PROVE  /\ AddTypeOK'
           /\ \A b \in Adds \ {a} : add'[b] = add[b]
           /\ add'[a].pc = l /\ add'[a].domain = add[a].domain
           /\ add'[a].org = add[a].org /\ add'[a].overtaken = add[a].overtaken
<1> DEFINE q == [add[a] EXCEPT !.pc = l]
<1>1. add[a] \in Requests /\ add[a].domain \in Domains /\ add[a].org \in Orgs
  BY DEF AddTypeOK
<1>2. q \in Requests
  BY <1>1 DEF Requests
<1>3. /\ q.pc = l /\ q.domain = add[a].domain
      /\ q.org = add[a].org /\ q.overtaken = add[a].overtaken
  BY <1>1 DEF Requests
<1>4. add' = [add EXCEPT ![a] = q]
  BY DEF Continue
<1> HIDE DEF q
<1> QED
  BY <1>1, <1>2, <1>3, <1>4 DEF AddTypeOK

\* A request is answered.
LEMMA ReplyMoves ==
    ASSUME NEW R, R \in [Adds -> Requests], NEW a \in Adds,
           \A b \in Adds : R[b].pc \notin Answered =>
              R[b].org \in Orgs /\ R[b].domain \in Domains,
           NEW l \in Answered \ {"idle"},
           add' = [R EXCEPT ![a] = Reply(l)]
    PROVE  /\ AddTypeOK'
           /\ \A b \in Adds \ {a} : add'[b] = R[b]
           /\ add'[a].pc = l /\ add'[a].pc \in Answered
<1>1. Reply(l) \in Requests /\ Reply(l).pc = l /\ l \in Answered
  BY DEF Reply, NoAdd, Requests, Answered
<1> QED
  BY <1>1 DEF AddTypeOK

\* A request is answered, and nothing else happens to requests.
LEMMA AnswerMoves ==
    ASSUME AddTypeOK, NEW a \in Adds, NEW l \in Answered \ {"idle"}, Answer(a, l)
    PROVE  /\ AddTypeOK'
           /\ \A b \in Adds \ {a} : add'[b] = add[b]
           /\ add'[a].pc = l /\ add'[a].pc \in Answered
  BY ReplyMoves DEF Answer, AddTypeOK

\* Requests about the domain learn what happened to its row, nothing else.
LEMMA OvertakeMarks ==
    ASSUME AddTypeOK, NEW d \in Domains, NEW how \in {"inserted", "removed"}
    PROVE  /\ Overtake(d, how) \in [Adds -> Requests]
           /\ \A b \in Adds :
                LET q == Overtake(d, how)[b]
                IN  /\ q.pc = add[b].pc /\ q.org = add[b].org
                    /\ q.domain = add[b].domain
                    /\ add[b].overtaken \subseteq q.overtaken
                    /\ add[b].pc \notin Answered \cup {"lookup"} /\ add[b].domain = d
                          => how \in q.overtaken
           /\ \A b \in Adds : Overtake(d, how)[b].pc \notin Answered =>
                /\ Overtake(d, how)[b].org \in Orgs
                /\ Overtake(d, how)[b].domain \in Domains
<1> DEFINE q(b) == [add[b] EXCEPT !.overtaken = @ \cup {how}]
           Late(b) == add[b].pc \notin Answered \cup {"lookup"} /\ add[b].domain = d
<1>1. \A b \in Adds : add[b] \in Requests
  BY DEF AddTypeOK
<1>2. ASSUME NEW b \in Adds
      PROVE  /\ q(b) \in Requests /\ how \in q(b).overtaken
             /\ add[b].overtaken \subseteq q(b).overtaken
             /\ q(b).pc = add[b].pc /\ q(b).org = add[b].org
             /\ q(b).domain = add[b].domain
  <2>1. /\ add[b].pc \in Answered \cup {"lookup", "upsert", "insert", "unremove",
                                        "get"}
        /\ add[b].org \in Orgs \cup {None} /\ add[b].domain \in Domains \cup {None}
        /\ add[b].overtaken \in SUBSET {"inserted", "removed"}
        /\ add[b] = [pc |-> add[b].pc, org |-> add[b].org,
                     domain |-> add[b].domain, overtaken |-> add[b].overtaken]
    BY <1>1 DEF Requests
  <2>2. q(b) = [pc |-> add[b].pc, org |-> add[b].org, domain |-> add[b].domain,
                overtaken |-> add[b].overtaken \cup {how}]
    BY <2>1
  <2>3. add[b].overtaken \cup {how} \in SUBSET {"inserted", "removed"}
    BY <2>1
  <2> QED
    BY <2>1, <2>2, <2>3 DEF Requests
<1>3. Overtake(d, how) = [b \in Adds |-> IF Late(b) THEN q(b) ELSE add[b]]
  BY DEF Overtake
<1> HIDE DEF q
<1>4. \A b \in Adds : \/ Overtake(d, how)[b] = add[b] /\ ~Late(b)
                      \/ Overtake(d, how)[b] = q(b)
  BY <1>3
<1>5. Overtake(d, how) \in [Adds -> Requests]
  BY <1>1, <1>2, <1>3
<1> QED
  BY <1>2, <1>4, <1>5 DEF AddTypeOK

\* A column of a scan row is written.
LEMMA StatusWritten ==
    ASSUME TableTypeOK, NEW j \in Jobs, NEW st \in {"complete", "partial", "failed"},
           scan' = [scan EXCEPT ![j].status = st]
    PROVE  /\ scan' \in [Jobs -> ScanRows]
           /\ \A k \in Jobs \ {j} : scan'[k] = scan[k]
           /\ scan'[j].status = st /\ scan'[j].domain = scan[j].domain
           /\ scan'[j].start = scan[j].start /\ scan'[j].import = scan[j].import
<1> DEFINE q == [scan[j] EXCEPT !.status = st]
<1>1. scan[j] \in ScanRows /\ scan \in [Jobs -> ScanRows]
  BY DEF TableTypeOK
<1>2. q \in ScanRows /\ q.status = st /\ q.domain = scan[j].domain
      /\ q.start = scan[j].start /\ q.import = scan[j].import
  BY <1>1 DEF ScanRows
<1>3. scan' = [scan EXCEPT ![j] = q]
  OBVIOUS
<1> HIDE DEF q
<1> QED
  BY <1>1, <1>2, <1>3

LEMMA ImportMarked ==
    ASSUME TableTypeOK, NEW j \in Jobs, scan' = [scan EXCEPT ![j].import = TRUE]
    PROVE  /\ scan' \in [Jobs -> ScanRows]
           /\ \A k \in Jobs \ {j} : scan'[k] = scan[k]
           /\ scan'[j].status = scan[j].status /\ scan'[j].domain = scan[j].domain
           /\ scan'[j].start = scan[j].start
<1> DEFINE q == [scan[j] EXCEPT !.import = TRUE]
<1>1. scan[j] \in ScanRows /\ scan \in [Jobs -> ScanRows]
  BY DEF TableTypeOK
<1>2. q \in ScanRows /\ q.status = scan[j].status /\ q.domain = scan[j].domain
      /\ q.start = scan[j].start
  BY <1>1 DEF ScanRows
<1>3. scan' = [scan EXCEPT ![j] = q]
  OBVIOUS
<1> HIDE DEF q
<1> QED
  BY <1>1, <1>2, <1>3

\* A new scan starts later than no scan can.
LEMMA NewScanRow ==
    ASSUME TableTypeOK, NEW d \in Domains
    PROVE  /\ NewScan(d) \in ScanRows /\ NewScan(d) # NoScan
           /\ NewScan(d).domain = d /\ NewScan(d).status = "running"
           /\ NewScan(d).start <= MaxJobs + 1
<1> DEFINE S == {j \in Jobs : scan[j] # NoScan}
<1>1. IsFiniteSet(Jobs) /\ Cardinality(Jobs) = MaxJobs /\ MaxJobs \in Nat
  <2>1. MaxJobs \in Nat /\ MaxJobs \in Int /\ 1 \in Int
    BY FleetAssumption
  <2>2. /\ IsFiniteSet(1..MaxJobs)
        /\ Cardinality(1..MaxJobs) = IF 1 > MaxJobs THEN 0 ELSE MaxJobs - 1 + 1
    BY <2>1, FS_Interval
  <2> QED
    BY <2>1, <2>2 DEF Jobs
<1>2. S \in SUBSET Jobs
  OBVIOUS
<1> HIDE DEF S
<1>3. IsFiniteSet(S) /\ Cardinality(S) <= MaxJobs
  BY <1>1, <1>2, FS_Subset
<1>4. Cardinality(S) \in Nat
  BY <1>3, FS_CardinalityType
<1>5. Clock = Cardinality(S)
  BY DEF Clock, S
<1> QED
  BY <1>1, <1>3, <1>4, <1>5 DEF NewScan, NoScan, ScanRows

\* The row of a domain is written.
LEMMA RemovedWritten ==
    ASSUME TableTypeOK, NEW d \in Domains, target[d] # None, NEW b \in BOOLEAN,
           target' = [target EXCEPT ![d].removed = b]
    PROVE  /\ target' \in [Domains -> TargetRows \cup {None}]
           /\ \A e \in Domains \ {d} : target'[e] = target[e]
           /\ target'[d] # None /\ target'[d].org = target[d].org
           /\ target'[d] = [org |-> target[d].org, removed |-> b]
           /\ target'[d].removed = b
<1> DEFINE q == [target[d] EXCEPT !.removed = b]
<1>1. target[d] \in TargetRows
  BY DEF TableTypeOK
<1>2. q \in TargetRows /\ q = [org |-> target[d].org, removed |-> b]
  BY <1>1 DEF TargetRows
<1>3. None \notin TargetRows
  BY FleetAssumption DEF TargetRows
<1>4. target' = [target EXCEPT ![d] = q]
  OBVIOUS
<1> HIDE DEF q
<1> QED
  BY <1>1, <1>2, <1>3, <1>4 DEF TableTypeOK

LEMMA RowInserted ==
    ASSUME TableTypeOK, NEW d \in Domains, NEW org \in Orgs,
           target' = [target EXCEPT ![d] = Row(org)]
    PROVE  /\ target' \in [Domains -> TargetRows \cup {None}]
           /\ \A e \in Domains \ {d} : target'[e] = target[e]
           /\ target'[d] # None /\ target'[d] = Row(org)
           /\ target'[d].org = org /\ ~target'[d].removed
<1>1. Row(org) \in TargetRows /\ Row(org).org = org /\ ~Row(org).removed
  BY DEF Row, TargetRows
<1>2. None \notin TargetRows
  BY FleetAssumption DEF TargetRows
<1> QED
  BY <1>1, <1>2 DEF TableTypeOK

\* A new assessment comes first in the list.
LEMMA Stored ==
    ASSUME TableTypeOK, NEW j \in Jobs, NEW fw \in DOMAIN Says, Store(j, fw)
    PROVE  /\ assessed' \in [Jobs -> Seq(Judgements)]
           /\ \A k \in Jobs \ {j} : assessed'[k] = assessed[k]
           /\ assessed'[j] # <<>>
           /\ Len(assessed'[j]) = Len(assessed[j]) + 1
           /\ assessed'[j][1] = Judgement(j, fw)
           /\ \A k \in 1..Len(assessed[j]) : assessed'[j][k + 1] = assessed[j][k]
<1> DEFINE q == Judgement(j, fw)
           s == <<q>> \o assessed[j]
<1>1. assessed[j] \in Seq(Judgements) /\ assessed \in [Jobs -> Seq(Judgements)]
  BY DEF TableTypeOK
<1>2. Judgement(j, fw) \in Judgements
  <2>1. found[j] \in Outcomes
    BY DEF TableTypeOK
  <2>2. Says[fw][found[j]] \in {Says[fw][o] : o \in Outcomes}
    BY <2>1
  <2>3. (scan[j].status # "running") \in BOOLEAN
    OBVIOUS
  <2>4. Judgement(j, fw) \in [framework : {fw}, ended : BOOLEAN,
                             rules : {Says[fw][o] : o \in Outcomes}]
    BY <2>2, <2>3 DEF Judgement
  <2> QED
    BY <2>4 DEF Judgements
<1>3. assessed' = [assessed EXCEPT ![j] = s]
  BY DEF Store
<1> HIDE DEF q
<1>4. /\ s \in Seq(Judgements) /\ s # <<>> /\ Len(s) = Len(assessed[j]) + 1 /\ s[1] = q
      /\ \A k \in 1..Len(assessed[j]) : s[k + 1] = assessed[j][k]
  <2>1. q \in Judgements
    BY <1>2 DEF q
  <2> HIDE DEF Judgements
  <2> QED
    BY <1>1, <2>1
<1> HIDE DEF s
<1> QED
  BY <1>1, <1>3, <1>4 DEF q

----------------------------------------------------------------------------
(* The invariant is inductive, part by part.                               *)

\* Tables, goroutines and requests keep their types.
LEMMA TypeStep ==
    ASSUME TypeOK, JobInv, RowInv, [Next]_vars
    PROVE  TableTypeOK' /\ JobTypeOK' /\ AddTypeOK'
<1>1. ASSUME NEW a \in Adds, NEW org \in Orgs, NEW d \in Domains,
     fleetAddHandler(a, org, d) PROVE TableTypeOK' /\ JobTypeOK' /\ AddTypeOK'
  <2>1. [pc |-> "lookup", org |-> org, domain |-> d, overtaken |-> {}] \in
       Requests
    BY DEF Requests
  <2> QED
    BY <1>1, <2>1 DEF fleetAddHandler, TypeOK, TableTypeOK, JobTypeOK,
         AddTypeOK
<1>2. ASSUME NEW a \in Adds, AddFleetDomain(a) PROVE TableTypeOK' /\ JobTypeOK'
     /\ AddTypeOK'
  <2>1. AddTypeOK /\ add[a].pc \notin Answered
    BY <1>2 DEF AddFleetDomain, TypeOK, Answered
  <2>2. CASE \E l \in Answered \ {"idle"} : Answer(a, l)
    BY <1>2, <2>1, <2>2, AnswerMoves DEF AddFleetDomain, TypeOK, TableTypeOK,
         JobTypeOK
  <2>3. CASE \E l \in {"upsert", "unremove"} : Continue(a, l)
    BY <1>2, <2>1, <2>3, ContinueMoves DEF AddFleetDomain, TypeOK,
         TableTypeOK, JobTypeOK
  <2> QED
    BY <1>2, <2>2, <2>3 DEF AddFleetDomain, Answered
<1>3. ASSUME NEW a \in Adds, AddUpsert(a) PROVE TableTypeOK' /\ JobTypeOK' /\
     AddTypeOK'
  <2>1. AddTypeOK /\ add[a].pc \notin Answered
    BY <1>3 DEF AddUpsert, TypeOK, Answered
  <2>2. CASE \E l \in Answered \ {"idle"} : Answer(a, l)
    BY <1>3, <2>1, <2>2, AnswerMoves DEF AddUpsert, TypeOK, TableTypeOK,
         JobTypeOK
  <2>3. CASE Continue(a, "insert")
    BY <1>3, <2>1, <2>3, ContinueMoves DEF AddUpsert, TypeOK, TableTypeOK,
         JobTypeOK
  <2> QED
    BY <1>3, <2>2, <2>3 DEF AddUpsert, Answered
<1>4. ASSUME NEW a \in Adds, AddInsert(a) PROVE TableTypeOK' /\ JobTypeOK' /\
     AddTypeOK'
  <2> DEFINE d == add[a].domain
  <2>1. /\ TableTypeOK /\ JobTypeOK /\ AddTypeOK /\ add[a].pc \notin Answered
        /\ d \in Domains /\ add[a].org \in Orgs
        /\ UNCHANGED <<scan, found, assessed, pc, upset>>
    BY <1>4 DEF AddInsert, TypeOK, Answered, AddTypeOK
  <2>2. ASSUME NEW l \in Answered \ {"idle"}, Inserts(a, l)
        PROVE  TableTypeOK' /\ AddTypeOK'
    <3>1. /\ target' = [target EXCEPT ![d] = Row(add[a].org)]
          /\ add' = [Overtake(d, "inserted") EXCEPT ![a] = Reply(l)]
      BY <2>2 DEF Inserts
    <3> HIDE DEF d
    <3>2. target' \in [Domains -> TargetRows \cup {None}]
      BY <2>1, <3>1, RowInserted
    <3>3. AddTypeOK'
      BY <2>1, <2>2, <3>1, OvertakeMarks, ReplyMoves
    <3> QED
      BY <2>1, <3>2, <3>3 DEF TableTypeOK
  <2>3. CASE Answer(a, "failed") /\ UNCHANGED target
    BY <2>1, <2>3, AnswerMoves DEF TableTypeOK, JobTypeOK, Answered
  <2> QED
    BY <1>4, <2>1, <2>2, <2>3 DEF AddInsert, Answered, JobTypeOK
<1>5. ASSUME NEW a \in Adds, AddUnremove(a) PROVE TableTypeOK' /\ JobTypeOK' /\
     AddTypeOK'
  <2> DEFINE d == add[a].domain
  <2>1. /\ TableTypeOK /\ JobTypeOK /\ AddTypeOK /\ add[a].pc \notin Answered
        /\ d \in Domains /\ target[d] # None
        /\ UNCHANGED <<scan, found, assessed, pc, upset>>
    BY <1>5 DEF AddUnremove, TypeOK, Answered, AddTypeOK, RowInv
  <2>2. \/ target' = target \/ target' = [target EXCEPT ![d].removed = FALSE]
    BY <1>5 DEF AddUnremove
  <2>3. Continue(a, "get") \/ Answer(a, "failed")
    BY <1>5 DEF AddUnremove
  <2> HIDE DEF d
  <2>4. target' \in [Domains -> TargetRows \cup {None}]
    BY <2>1, <2>2, RemovedWritten DEF TableTypeOK
  <2>5. AddTypeOK'
    BY <2>1, <2>3, ContinueMoves, AnswerMoves DEF Answered
  <2> QED
    BY <2>1, <2>4, <2>5 DEF TableTypeOK, JobTypeOK
<1>5a. ASSUME NEW a \in Adds, AddGet(a) PROVE TableTypeOK' /\ JobTypeOK' /\
     AddTypeOK'
  <2>1. AddTypeOK /\ \E l \in Answered \ {"idle"} : Answer(a, l)
    BY <1>5a DEF AddGet, TypeOK, Answered
  <2> QED
    BY <1>5a, <2>1, AnswerMoves DEF AddGet, TypeOK, TableTypeOK, JobTypeOK
<1>6. ASSUME NEW org \in Orgs, NEW d \in Domains, RemoveFleetDomain(org, d)
     PROVE TableTypeOK' /\ JobTypeOK' /\ AddTypeOK'
  <2>1. /\ TableTypeOK /\ JobTypeOK /\ AddTypeOK /\ target[d] # None
    <3>1. target[d] \in TargetRows /\ None \notin TargetRows
      BY <1>6, FleetAssumption DEF RemoveFleetDomain, Row, TargetRows
    <3> QED
      BY <3>1 DEF TypeOK
  <2>2. /\ target' = [target EXCEPT ![d].removed = TRUE]
        /\ add' = Overtake(d, "removed")
        /\ UNCHANGED <<scan, found, assessed, pc, upset>>
    BY <1>6 DEF RemoveFleetDomain
  <2>3. target' \in [Domains -> TargetRows \cup {None}]
    BY <2>1, <2>2, RemovedWritten
  <2>4. AddTypeOK'
    BY <2>1, <2>2, OvertakeMarks DEF AddTypeOK
  <2> QED
    BY <2>1, <2>2, <2>3, <2>4 DEF TableTypeOK, JobTypeOK
<1>7. ASSUME NEW j \in Jobs, NEW d \in Domains, scanTriggerHandler(j, d) PROVE
     TableTypeOK' /\ JobTypeOK' /\ AddTypeOK'
  <2>1. [at |-> "upsert", domain |-> d] \in Routines
    BY DEF Routines
  <2> QED
    BY <1>7, <2>1 DEF scanTriggerHandler, TypeOK, TableTypeOK, JobTypeOK,
         AddTypeOK
<1>8. ASSUME NEW j \in Jobs, NEW d \in Domains, ImportNetnlDomains(j, d) PROVE
     TableTypeOK' /\ JobTypeOK' /\ AddTypeOK'
  <2>1. [at |-> "append", domain |-> d] \in Routines
    BY DEF Routines
  <2>2. NewScan(d) \in ScanRows
    BY NewScanRow DEF TypeOK
  <2> QED
    BY <1>8, <2>1, <2>2 DEF ImportNetnlDomains, TypeOK, TableTypeOK,
         JobTypeOK, AddTypeOK
<1>9. ASSUME NEW j \in Jobs, UpsertTarget(j) PROVE TableTypeOK' /\ JobTypeOK'
     /\ AddTypeOK'
  <2>1. JobTypeOK /\ pc[j].at # "idle" /\ \E l \in Places : Goto(j, l)
    BY <1>9 DEF UpsertTarget, TypeOK, At, Places
  <2> QED
    BY <1>9, <2>1, GotoMoves DEF UpsertTarget, TypeOK, TableTypeOK, JobTypeOK,
         AddTypeOK
<1>10. ASSUME NEW j \in Jobs, InsertTarget(j) PROVE TableTypeOK' /\ JobTypeOK'
     /\ AddTypeOK'
  <2> DEFINE d == pc[j].domain
  <2>1. TableTypeOK /\ JobTypeOK /\ AddTypeOK /\ d \in Domains /\ pc[j].at #
       "idle"
    BY <1>10 DEF InsertTarget, TypeOK, At, JobTypeOK
  <2>2. CASE target[d] = None
    <3>1. /\ target' = [target EXCEPT ![d] = Row(DefaultOrg)]
          /\ add' = Overtake(d, "inserted") /\ Goto(j, "create")
          /\ UNCHANGED <<scan, found, assessed, upset>>
      BY <1>10, <2>2 DEF InsertTarget
    <3> HIDE DEF d
    <3>2. target' \in [Domains -> TargetRows \cup {None}]
      BY <2>1, <3>1, RowInserted, FleetAssumption
    <3>3. AddTypeOK'
      BY <2>1, <3>1, OvertakeMarks DEF AddTypeOK
    <3>4. "create" \in Places
      BY DEF Places
    <3>5. JobTypeOK'
      BY <2>1, <3>1, <3>4, GotoMoves DEF JobTypeOK
    <3> QED
      BY <2>1, <3>1, <3>2, <3>3, <3>5 DEF TableTypeOK
  <2>3. CASE target[d] # None
    <3>1. /\ Goto(j, "done") /\ upset' = upset \cup {j}
          /\ UNCHANGED <<target, scan, found, assessed, add>>
      BY <1>10, <2>3 DEF InsertTarget
    <3>2. "done" \in Places
      BY DEF Places
    <3>3. JobTypeOK'
      BY <2>1, <3>1, <3>2, GotoMoves DEF JobTypeOK
    <3> QED
      BY <2>1, <3>1, <3>3 DEF TableTypeOK, AddTypeOK
  <2> QED
    BY <2>2, <2>3
<1>11. ASSUME NEW j \in Jobs, CreateScan(j) PROVE TableTypeOK' /\ JobTypeOK' /\
     AddTypeOK'
  <2>1. TableTypeOK /\ JobTypeOK /\ pc[j].at # "idle" /\ "probe" \in Places
    BY <1>11 DEF CreateScan, TypeOK, At, Places
  <2>2. NewScan(pc[j].domain) \in ScanRows
    BY <2>1, NewScanRow DEF JobTypeOK
  <2>3. JobTypeOK'
    BY <1>11, <2>1, GotoMoves DEF CreateScan, JobTypeOK
  <2> QED
    BY <1>11, <2>1, <2>2, <2>3 DEF CreateScan, TypeOK, TableTypeOK, AddTypeOK
<1>12. ASSUME NEW j \in Jobs, FinishScan(j) PROVE TableTypeOK' /\ JobTypeOK' /\
     AddTypeOK'
  <2>1. TableTypeOK /\ JobTypeOK /\ pc[j].at # "idle" /\ "assess" \in Places
    BY <1>12 DEF FinishScan, TypeOK, At, Places
  <2>2. JobTypeOK'
    BY <1>12, <2>1, GotoMoves DEF FinishScan, JobTypeOK
  <2>3. TableTypeOK'
    BY <1>12, <2>1, FleetAssumption, StatusWritten DEF FinishScan, TableTypeOK
  <2> QED
    BY <1>12, <2>2, <2>3 DEF FinishScan, TypeOK, AddTypeOK
<1>13. ASSUME NEW j \in Jobs, CreateAssessment(j) PROVE TableTypeOK' /\
     JobTypeOK' /\ AddTypeOK'
  <2>1. TableTypeOK /\ JobTypeOK /\ pc[j].at # "idle" /\ "done" \in Places
    BY <1>13 DEF CreateAssessment, TypeOK, At, Places
  <2>2. JobTypeOK'
    BY <1>13, <2>1, GotoMoves DEF CreateAssessment, JobTypeOK
  <2>3. TableTypeOK'
    BY <1>13, <2>1, FleetAssumption, Stored DEF CreateAssessment, TableTypeOK
  <2> QED
    BY <1>13, <2>2, <2>3 DEF CreateAssessment, TypeOK, AddTypeOK
<1>14. ASSUME NEW j \in Jobs, ImportAppends(j) PROVE TableTypeOK' /\ JobTypeOK'
     /\ AddTypeOK'
  <2>1. TableTypeOK /\ JobTypeOK /\ pc[j].at # "idle" /\ "finish" \in Places
    BY <1>14 DEF ImportAppends, TypeOK, At, Places
  <2>2. JobTypeOK'
    BY <1>14, <2>1, GotoMoves DEF ImportAppends, JobTypeOK
  <2>3. TableTypeOK'
    BY <1>14, <2>1, ImportMarked DEF ImportAppends, TableTypeOK
  <2> QED
    BY <1>14, <2>2, <2>3 DEF ImportAppends, TypeOK, AddTypeOK
<1>15. ASSUME NEW j \in Jobs, ImportFinishes(j) PROVE TableTypeOK' /\
     JobTypeOK' /\ AddTypeOK'
  <2>1. TableTypeOK /\ JobTypeOK /\ pc[j].at # "idle" /\ "done" \in Places
    BY <1>15 DEF ImportFinishes, TypeOK, At, Places
  <2>2. JobTypeOK'
    BY <1>15, <2>1, GotoMoves DEF ImportFinishes, JobTypeOK
  <2>3. TableTypeOK'
    BY <1>15, <2>1, StatusWritten DEF ImportFinishes, TableTypeOK
  <2> QED
    BY <1>15, <2>2, <2>3 DEF ImportFinishes, TypeOK, AddTypeOK
<1>16. ASSUME NEW j \in Jobs, AppendFindings(j) PROVE TableTypeOK' /\
     JobTypeOK' /\ AddTypeOK'
  BY <1>16 DEF AppendFindings, TypeOK, TableTypeOK, JobTypeOK, AddTypeOK
<1>17. ASSUME NEW j \in Jobs, FinishLost(j) PROVE TableTypeOK' /\ JobTypeOK' /\
     AddTypeOK'
  <2>1. TableTypeOK /\ JobTypeOK /\ pc[j].at # "idle" /\ "assess" \in Places
    BY <1>17 DEF FinishLost, TypeOK, At, Places
  <2>2. JobTypeOK'
    BY <1>17, <2>1, GotoMoves DEF FinishLost, JobTypeOK, Upset
  <2>3. TableTypeOK'
    BY <1>17, <2>1 DEF FinishLost, TableTypeOK
  <2> QED
    BY <1>17, <2>2, <2>3 DEF FinishLost, TypeOK, AddTypeOK
<1>18. ASSUME NEW j \in Jobs, JobFails(j) PROVE TableTypeOK' /\ JobTypeOK' /\
     AddTypeOK'
  <2>1. TableTypeOK /\ JobTypeOK /\ pc[j].at # "idle" /\ "done" \in Places
    BY <1>18 DEF JobFails, TypeOK, At, Places
  <2>2. JobTypeOK'
    BY <1>18, <2>1, GotoMoves DEF JobFails, JobTypeOK, Upset
  <2>3. TableTypeOK'
    BY <1>18, <2>1 DEF JobFails, TableTypeOK
  <2> QED
    BY <1>18, <2>2, <2>3 DEF JobFails, TypeOK, AddTypeOK
<1>19. ASSUME NEW j \in Jobs, NEW fw \in DOMAIN Says, AssessScan(j, fw) PROVE
     TableTypeOK' /\ JobTypeOK' /\ AddTypeOK'
  <2>1. TableTypeOK'
    BY <1>19, Stored DEF AssessScan, TypeOK, TableTypeOK
  <2> QED
    BY <1>19, <2>1 DEF AssessScan, TypeOK, JobTypeOK, AddTypeOK
<1>20. CASE Dies
  <2> DEFINE cut == {j \in Jobs : pc[j].at \notin {"idle", "done"}}
  <2>1. NoAdd \in Requests /\ NoAdd.pc \in Answered
    BY DEF NoAdd, Requests, Answered
  <2>2. AddTypeOK'
    BY <1>20, <2>1 DEF Dies, AddTypeOK
  <2>3. ASSUME NEW j \in Jobs
        PROVE  /\ [pc[j] EXCEPT !.at = "done"] \in Routines
               /\ [pc[j] EXCEPT !.at = "done"].domain = pc[j].domain
    <3>1. pc[j] \in Routines
      BY DEF TypeOK, JobTypeOK
    <3> QED
      BY <3>1 DEF Routines
  <2>4. /\ pc' \in [Jobs -> Routines]
        /\ \A j \in Jobs : pc'[j].at # "idle" => pc'[j].domain \in Domains
    BY <1>20, <2>3 DEF Dies, TypeOK, JobTypeOK
  <2>5. JobTypeOK'
    BY <1>20, <2>4 DEF Dies, TypeOK, JobTypeOK
  <2> QED
    BY <1>20, <2>2, <2>5 DEF Dies, TypeOK, TableTypeOK
<1>21. CASE UNCHANGED vars
  BY <1>21 DEF vars, TypeOK, TableTypeOK, JobTypeOK, AddTypeOK
<1> QED
  BY <1>1, <1>2, <1>3, <1>4, <1>5, <1>6, <1>7, <1>8, <1>9, <1>10, <1>11,
       <1>12, <1>13, <1>14, <1>15, <1>16, <1>17, <1>18, <1>19, <1>20, <1>21,
       <1>5a DEF Next, JobStep

\* No bound goes below zero.
LEMMA BudgetStep ==
    ASSUME BudgetTypeOK, [Next]_vars
    PROVE  BudgetTypeOK'
<1>1. ASSUME NEW a \in Adds, NEW org \in Orgs, NEW d \in Domains,
     fleetAddHandler(a, org, d) PROVE BudgetTypeOK'
  BY <1>1 DEF fleetAddHandler, BudgetTypeOK
<1>2. ASSUME NEW a \in Adds, AddFleetDomain(a) PROVE BudgetTypeOK'
  BY <1>2 DEF AddFleetDomain, StoreWorks, StoreFails, BudgetTypeOK
<1>3. ASSUME NEW a \in Adds, AddUpsert(a) PROVE BudgetTypeOK'
  BY <1>3 DEF AddUpsert, StoreWorks, StoreFails, BudgetTypeOK
<1>4. ASSUME NEW a \in Adds, AddInsert(a) PROVE BudgetTypeOK'
  BY <1>4 DEF AddInsert, StoreWorks, StoreFails, BudgetTypeOK
<1>5. ASSUME NEW a \in Adds, AddUnremove(a) PROVE BudgetTypeOK'
  BY <1>5 DEF AddUnremove, StoreWorks, StoreFails, BudgetTypeOK
<1>5a. ASSUME NEW a \in Adds, AddGet(a) PROVE BudgetTypeOK'
  BY <1>5a DEF AddGet, StoreWorks, StoreFails, BudgetTypeOK
<1>6. ASSUME NEW org \in Orgs, NEW d \in Domains, RemoveFleetDomain(org, d)
     PROVE BudgetTypeOK'
  BY <1>6 DEF RemoveFleetDomain, BudgetTypeOK
<1>7. ASSUME NEW j \in Jobs, NEW d \in Domains, scanTriggerHandler(j, d) PROVE
     BudgetTypeOK'
  BY <1>7 DEF scanTriggerHandler, IsNext, BudgetTypeOK
<1>8. ASSUME NEW j \in Jobs, NEW d \in Domains, ImportNetnlDomains(j, d) PROVE
     BudgetTypeOK'
  BY <1>8 DEF ImportNetnlDomains, IsNext, BudgetTypeOK
<1>9. ASSUME NEW j \in Jobs, UpsertTarget(j) PROVE BudgetTypeOK'
  BY <1>9 DEF UpsertTarget, BudgetTypeOK
<1>10. ASSUME NEW j \in Jobs, InsertTarget(j) PROVE BudgetTypeOK'
  BY <1>10 DEF InsertTarget, BudgetTypeOK
<1>11. ASSUME NEW j \in Jobs, CreateScan(j) PROVE BudgetTypeOK'
  BY <1>11 DEF CreateScan, BudgetTypeOK
<1>12. ASSUME NEW j \in Jobs, FinishScan(j) PROVE BudgetTypeOK'
  BY <1>12 DEF FinishScan, BudgetTypeOK
<1>13. ASSUME NEW j \in Jobs, CreateAssessment(j) PROVE BudgetTypeOK'
  BY <1>13 DEF CreateAssessment, BudgetTypeOK
<1>14. ASSUME NEW j \in Jobs, ImportAppends(j) PROVE BudgetTypeOK'
  BY <1>14 DEF ImportAppends, BudgetTypeOK
<1>15. ASSUME NEW j \in Jobs, ImportFinishes(j) PROVE BudgetTypeOK'
  BY <1>15 DEF ImportFinishes, BudgetTypeOK
<1>16. ASSUME NEW j \in Jobs, AppendFindings(j) PROVE BudgetTypeOK'
  BY <1>16 DEF AppendFindings, BudgetTypeOK
<1>17. ASSUME NEW j \in Jobs, FinishLost(j) PROVE BudgetTypeOK'
  BY <1>17 DEF FinishLost, BudgetTypeOK
<1>18. ASSUME NEW j \in Jobs, JobFails(j) PROVE BudgetTypeOK'
  BY <1>18 DEF JobFails, BudgetTypeOK
<1>19. ASSUME NEW j \in Jobs, NEW fw \in DOMAIN Says, AssessScan(j, fw) PROVE
     BudgetTypeOK'
  BY <1>19 DEF AssessScan, BudgetTypeOK
<1>20. CASE Dies
  BY <1>20 DEF Dies, BudgetTypeOK
<1>21. CASE UNCHANGED vars
  BY <1>21 DEF vars, BudgetTypeOK
<1> QED
  BY <1>1, <1>2, <1>3, <1>4, <1>5, <1>6, <1>7, <1>8, <1>9, <1>10, <1>11,
       <1>12, <1>13, <1>14, <1>15, <1>16, <1>17, <1>18, <1>19, <1>20, <1>21,
       <1>5a DEF Next, JobStep

\* The row of one domain is inserted or removed, and the requests about it
\* learn so, except one that is answered.
LEMMA RowChanged ==
    ASSUME TypeOK, RowInv, AddInv, NEW d \in Domains, UNCHANGED scan,
           NEW how \in {"inserted", "removed"},
           target'[d] # None, \A e \in Domains \ {d} : target'[e] = target[e],
           \/ how = "inserted" /\ target[d] = None /\ ~target'[d].removed
           \/ how = "removed" /\ target[d] # None /\ target'[d].org = target[d].org,
           \A j \in Jobs : pc'[j].at = "create" =>
              pc'[j].domain = d \/ (pc[j].at = "create" /\ pc'[j].domain =
                   pc[j].domain),
           \A b \in Adds : add'[b] = Overtake(d, how)[b] \/ add'[b].pc \in Answered
    PROVE  RowInv' /\ AddInv'
<1>1. /\ TableTypeOK /\ JobTypeOK /\ AddTypeOK
      /\ \A j \in Jobs : scan[j].domain # None => scan[j].domain \in Domains
    BY DEF TypeOK, TableTypeOK, ScanRows
<1>2. \A e \in Domains : target[e] # None => target'[e] # None
  OBVIOUS
<1>3. \A b \in Adds : add'[b].pc \notin Answered =>
         /\ add'[b].pc = add[b].pc /\ add'[b].org = add[b].org
         /\ add'[b].domain = add[b].domain
         /\ add[b].overtaken \subseteq add'[b].overtaken
         /\ add[b].pc # "lookup" /\ add[b].domain = d => how \in add'[b].overtaken
  BY <1>1, OvertakeMarks
<1>4. \A b \in Adds : add[b].pc \notin Answered => add[b].domain \in Domains
  BY <1>1 DEF AddTypeOK
<1>5. /\ "upsert" \notin Answered /\ "insert" \notin Answered
      /\ "unremove" \notin Answered /\ "get" \notin Answered
  BY DEF Answered
<1>6. RowInv'
  <2>1. \A j \in Jobs : pc[j].at = "create" => pc[j].domain \in Domains
    BY <1>1 DEF JobTypeOK
  <2> QED
    BY <1>1, <1>2, <1>3, <1>4, <1>5, <2>1 DEF RowInv
<1>7. AddInv'
  <2> SUFFICES ASSUME NEW b \in Adds, add'[b].pc \notin Answered
               PROVE  LET row == target'[add'[b].domain]
                      IN  /\ add'[b].pc \in {"upsert", "insert"} /\ row # None =>
                               /\ "inserted" \in add'[b].overtaken
                               /\ ~row.removed \/ "removed" \in add'[b].overtaken
                          /\ add'[b].pc \in {"unremove", "get"} =>
                               row.org = add'[b].org
                          /\ add'[b].pc = "get" =>
                               ~row.removed \/ "removed" \in add'[b].overtaken
    BY <1>5 DEF AddInv
  <2>1. CASE add[b].domain # d
    BY <1>3, <1>4, <2>1 DEF AddInv
  <2>2. CASE add[b].domain = d
    <3>1. add[b].pc \in {"unremove", "get"} => target[d] # None
      BY <2>2 DEF RowInv
    <3> QED
      BY <1>3, <2>2, <3>1 DEF AddInv
  <2> QED
    BY <2>1, <2>2
<1> QED
  BY <1>6, <1>7

\* A request moves on alone, and rows keep their owner and stay.
LEMMA Alone ==
    ASSUME TypeOK, RowInv, AddInv, NEW a \in Adds, UNCHANGED <<target, scan, pc>>,
           \A b \in Adds \ {a} : add'[b] = add[b], add'[a].pc \in Answered
    PROVE  RowInv' /\ AddInv'
  BY DEF RowInv, AddInv, Answered

\* What requests and jobs read about a row holds until it changes.
LEMMA RequestStep ==
    ASSUME TypeOK, RowInv, AddInv, JobInv, TypeOK', [Next]_vars
    PROVE  RowInv' /\ AddInv'
<1>1. ASSUME NEW a \in Adds, NEW org \in Orgs, NEW d \in Domains,
     fleetAddHandler(a, org, d) PROVE RowInv' /\ AddInv'
  <2>1. /\ add'[a].pc = "lookup" /\ \A b \in Adds \ {a} : add'[b] = add[b]
        /\ UNCHANGED <<target, scan, pc>>
    BY <1>1 DEF fleetAddHandler, TypeOK, AddTypeOK
  <2> QED
    BY <2>1 DEF RowInv, AddInv
<1>2. ASSUME NEW a \in Adds, AddFleetDomain(a) PROVE RowInv' /\ AddInv'
  <2> DEFINE d == add[a].domain
  <2>1. AddTypeOK /\ add[a].pc \notin Answered /\ UNCHANGED <<target, scan,
       pc>>
    BY <1>2 DEF AddFleetDomain, TypeOK, Answered
  <2>2. CASE target[d] = None /\ Continue(a, "upsert")
    <3>1. /\ add'[a].pc = "upsert" /\ add'[a].domain = d
          /\ \A b \in Adds \ {a} : add'[b] = add[b]
      BY <2>1, <2>2, ContinueMoves
    <3> QED
      BY <2>1, <2>2, <3>1 DEF RowInv, AddInv
  <2>3. CASE \E l \in Answered \ {"idle"} : Answer(a, l)
    BY <2>1, <2>3, AnswerMoves, Alone
  <2>4. CASE target[d] # None /\ target[d].org = add[a].org /\ Continue(a,
       "unremove")
    <3>1. /\ add'[a].pc = "unremove" /\ add'[a].domain = d
          /\ add'[a].org = add[a].org /\ \A b \in Adds \ {a} : add'[b] = add[b]
      BY <2>1, <2>4, ContinueMoves
    <3> QED
      BY <2>1, <2>4, <3>1 DEF RowInv, AddInv
  <2> QED
    BY <1>2, <2>2, <2>3, <2>4 DEF AddFleetDomain, Answered
<1>3. ASSUME NEW a \in Adds, AddUpsert(a) PROVE RowInv' /\ AddInv'
  <2> DEFINE d == add[a].domain
  <2>1. AddTypeOK /\ add[a].pc \notin Answered /\ UNCHANGED <<target, scan,
       pc>>
    BY <1>3 DEF AddUpsert, TypeOK, Answered
  <2>2. CASE target[d] = None /\ Continue(a, "insert")
    <3>1. /\ add'[a].pc = "insert" /\ add'[a].domain = d
          /\ \A b \in Adds \ {a} : add'[b] = add[b]
      BY <2>1, <2>2, ContinueMoves
    <3> QED
      BY <2>1, <2>2, <3>1 DEF RowInv, AddInv
  <2>3. CASE \E l \in Answered \ {"idle"} : Answer(a, l)
    BY <2>1, <2>3, AnswerMoves, Alone
  <2> QED
    BY <1>3, <2>2, <2>3 DEF AddUpsert, Answered
<1>4. ASSUME NEW a \in Adds, AddInsert(a) PROVE RowInv' /\ AddInv'
  <2> DEFINE d == add[a].domain
  <2>1. /\ TableTypeOK /\ AddTypeOK /\ add[a].pc \notin Answered
        /\ d \in Domains /\ add[a].org \in Orgs /\ UNCHANGED <<scan, pc>>
    BY <1>4 DEF AddInsert, TypeOK, Answered, AddTypeOK
  <2>2. ASSUME NEW l \in Answered \ {"idle"}, Inserts(a, l)
        PROVE  RowInv' /\ AddInv'
    <3>1. /\ target' = [target EXCEPT ![d] = Row(add[a].org)]
          /\ add' = [Overtake(d, "inserted") EXCEPT ![a] = Reply(l)]
          /\ target[d] = None
      BY <2>2 DEF Inserts
    <3> HIDE DEF d
    <3>2. /\ target'[d] # None /\ ~target'[d].removed
          /\ \A e \in Domains \ {d} : target'[e] = target[e]
      BY <2>1, <3>1, RowInserted
    <3>3. /\ add'[a].pc \in Answered
          /\ \A b \in Adds \ {a} : add'[b] = Overtake(d, "inserted")[b]
      BY <2>1, <2>2, <3>1, OvertakeMarks, ReplyMoves
    <3> QED
      BY <2>1, <3>1, <3>2, <3>3, RowChanged
  <2>3. CASE Answer(a, "failed") /\ UNCHANGED target
    BY <2>1, <2>3, AnswerMoves, Alone DEF Answered
  <2> QED
    BY <1>4, <2>2, <2>3 DEF AddInsert, Answered
<1>5. ASSUME NEW a \in Adds, AddUnremove(a) PROVE RowInv' /\ AddInv'
  <2> DEFINE d == add[a].domain
  <2>1. /\ TableTypeOK /\ AddTypeOK /\ add[a].pc \notin Answered
        /\ d \in Domains /\ target[d] # None /\ target[d].org = add[a].org
        /\ UNCHANGED <<scan, pc>>
    BY <1>5 DEF AddUnremove, TypeOK, Answered, AddTypeOK, RowInv, AddInv
  <2>2. CASE UNCHANGED target /\ Answer(a, "failed")
    BY <2>1, <2>2, AnswerMoves, Alone DEF Answered
  <2>3. CASE /\ target' = [target EXCEPT ![d].removed = FALSE]
             /\ Continue(a, "get") \/ Answer(a, "failed")
    <3>1. /\ target'[d] # None /\ target'[d].org = target[d].org
          /\ target'[d].removed = FALSE
          /\ \A e \in Domains \ {d} : target'[e] = target[e]
      <4> HIDE DEF d
      <4> QED
        BY <2>1, <2>3, RemovedWritten
    <3>2. /\ \A b \in Adds \ {a} : add'[b] = add[b]
          /\ \/ add'[a].pc \in Answered
             \/ /\ add'[a].pc = "get" /\ add'[a].domain = d
                /\ add'[a].org = add[a].org
      BY <2>1, <2>3, ContinueMoves, AnswerMoves DEF Answered
    <3>3. \A e \in Domains : /\ target[e] # None => target'[e] # None
                             /\ target[e] # None => target'[e].org = target[e].org
                             /\ target'[e] # None => target[e] # None
                             /\ target'[e].removed => target'[e] = target[e]
      BY <2>1, <3>1
    <3>4. /\ \A j \in Jobs : pc[j].at = "create" => pc[j].domain \in Domains
          /\ \A j \in Jobs : scan[j].domain # None => scan[j].domain \in Domains
          /\ \A b \in Adds : add[b].pc \in {"upsert", "insert", "unremove", "get"}
                => add[b].domain \in Domains
      BY DEF TypeOK, TableTypeOK, ScanRows, JobTypeOK, AddTypeOK, Answered
    <3>5. RowInv'
      BY <2>1, <3>1, <3>2, <3>3, <3>4 DEF RowInv, Answered
    <3>6. AddInv'
      <4>1. ASSUME NEW b \in Adds \ {a}
            PROVE  LET row == target'[add[b].domain]
                   IN  /\ add[b].pc \in {"upsert", "insert"} /\ row # None =>
                            /\ "inserted" \in add[b].overtaken
                            /\ ~row.removed \/ "removed" \in add[b].overtaken
                       /\ add[b].pc \in {"unremove", "get"} => row.org = add[b].org
                       /\ add[b].pc = "get" =>
                            ~row.removed \/ "removed" \in add[b].overtaken
        BY <3>3, <3>4 DEF RowInv, AddInv
      <4> QED
        BY <2>1, <3>1, <3>2, <4>1 DEF AddInv, Answered
    <3> QED
      BY <3>5, <3>6
  <2> QED
    BY <1>5, <2>2, <2>3 DEF AddUnremove
<1>5a. ASSUME NEW a \in Adds, AddGet(a) PROVE RowInv' /\ AddInv'
  <2>1. /\ AddTypeOK /\ \E l \in Answered \ {"idle"} : Answer(a, l)
        /\ UNCHANGED <<target, scan, pc>>
    BY <1>5a DEF AddGet, TypeOK, Answered
  <2> QED
    BY <2>1, AnswerMoves, Alone
<1>6. ASSUME NEW org \in Orgs, NEW d \in Domains, RemoveFleetDomain(org, d)
     PROVE RowInv' /\ AddInv'
  <2>1. /\ TableTypeOK /\ AddTypeOK /\ target[d] # None
        /\ target[d].org = org /\ UNCHANGED <<scan, pc>>
    <3>1. /\ target[d] \in TargetRows /\ None \notin TargetRows
          /\ target[d].org = org
      BY <1>6, FleetAssumption DEF RemoveFleetDomain, Row, TargetRows
    <3> QED
      BY <1>6, <3>1 DEF TypeOK, RemoveFleetDomain
  <2>2. /\ target' = [target EXCEPT ![d].removed = TRUE]
        /\ add' = Overtake(d, "removed")
    BY <1>6 DEF RemoveFleetDomain
  <2>3. /\ target'[d] # None /\ target'[d].org = target[d].org
        /\ \A e \in Domains \ {d} : target'[e] = target[e]
    BY <2>1, <2>2, RemovedWritten
  <2> QED
    BY <2>1, <2>2, <2>3, OvertakeMarks, RowChanged
<1>7. ASSUME NEW j \in Jobs, NEW d \in Domains, scanTriggerHandler(j, d) PROVE
     RowInv' /\ AddInv'
  <2>1. /\ pc'[j].at = "upsert" /\ \A k \in Jobs \ {j} : pc'[k] = pc[k]
        /\ UNCHANGED <<target, scan, add>>
    BY <1>7 DEF scanTriggerHandler, TypeOK, JobTypeOK
  <2> QED
    BY <2>1 DEF RowInv, AddInv
<1>8. ASSUME NEW j \in Jobs, NEW d \in Domains, ImportNetnlDomains(j, d) PROVE
     RowInv' /\ AddInv'
  <2>1. NewScan(d).domain = d
    BY NewScanRow DEF TypeOK
  <2>2. /\ pc'[j].at = "append" /\ \A k \in Jobs \ {j} : pc'[k] = pc[k]
        /\ scan'[j].domain = d /\ \A k \in Jobs \ {j} : scan'[k] = scan[k]
        /\ target[d] # None /\ UNCHANGED <<target, add>>
    BY <1>8, <2>1 DEF ImportNetnlDomains, TypeOK, JobTypeOK, TableTypeOK
  <2> QED
    BY <2>2 DEF RowInv, AddInv
<1>9. ASSUME NEW j \in Jobs, UpsertTarget(j) PROVE RowInv' /\ AddInv'
  <2>1. CASE target[pc[j].domain] = None
    <3>1. Goto(j, "insert") /\ "insert" \in Places
      BY <1>9, <2>1 DEF UpsertTarget, Places
    <3>2. /\ pc'[j].at = "insert"
          /\ \A k \in Jobs : pc'[k].domain = pc[k].domain
          /\ \A k \in Jobs \ {j} : pc'[k].at = pc[k].at
      BY <1>9, <3>1, GotoMoves DEF UpsertTarget, At, TypeOK
    <3> QED
      BY <1>9, <3>2 DEF UpsertTarget, RowInv, AddInv
  <2>2. CASE target[pc[j].domain] # None
    <3>1. Goto(j, "create") /\ "create" \in Places
      BY <1>9, <2>2 DEF UpsertTarget, Places
    <3>2. /\ \A k \in Jobs : pc'[k].domain = pc[k].domain
          /\ \A k \in Jobs \ {j} : pc'[k].at = pc[k].at
      BY <1>9, <3>1, GotoMoves DEF UpsertTarget, At, TypeOK
    <3> QED
      BY <1>9, <2>2, <3>2 DEF UpsertTarget, RowInv, AddInv
  <2> QED
    BY <2>1, <2>2
<1>10. ASSUME NEW j \in Jobs, InsertTarget(j) PROVE RowInv' /\ AddInv'
  <2> DEFINE d == pc[j].domain
  <2>1. TableTypeOK /\ JobTypeOK /\ AddTypeOK /\ d \in Domains /\ pc[j].at #
       "idle"
    BY <1>10 DEF InsertTarget, TypeOK, At, JobTypeOK
  <2>2. CASE target[d] = None
    <3>1. /\ target' = [target EXCEPT ![d] = Row(DefaultOrg)]
          /\ add' = Overtake(d, "inserted") /\ Goto(j, "create") /\ UNCHANGED scan
          /\ "create" \in Places
      BY <1>10, <2>2 DEF InsertTarget, Places
    <3> HIDE DEF d
    <3>2. /\ target'[d] # None /\ ~target'[d].removed /\ target[d] = None
          /\ \A e \in Domains \ {d} : target'[e] = target[e]
      BY <2>1, <2>2, <3>1, RowInserted, FleetAssumption DEF d
    <3>3. /\ \A k \in Jobs : pc'[k].domain = pc[k].domain
          /\ \A k \in Jobs \ {j} : pc'[k].at = pc[k].at
      BY <2>1, <3>1, GotoMoves
    <3>4. \A k \in Jobs : pc'[k].at = "create" =>
             pc'[k].domain = d \/ (pc[k].at = "create" /\ pc'[k].domain =
                  pc[k].domain)
      BY <3>3 DEF d
    <3> QED
      BY <2>1, <3>1, <3>2, <3>4, OvertakeMarks, RowChanged
  <2>3. CASE target[d] # None
    <3>1. /\ Goto(j, "done") /\ UNCHANGED <<target, scan, add>>
          /\ "done" \in Places
      BY <1>10, <2>3 DEF InsertTarget, Places
    <3>2. /\ pc'[j].at = "done" /\ \A k \in Jobs : pc'[k].domain = pc[k].domain
          /\ \A k \in Jobs \ {j} : pc'[k].at = pc[k].at
      BY <2>1, <3>1, GotoMoves
    <3> QED
      BY <3>1, <3>2 DEF RowInv, AddInv
  <2> QED
    BY <2>2, <2>3
<1>11. ASSUME NEW j \in Jobs, CreateScan(j) PROVE RowInv' /\ AddInv'
  <2>1. TableTypeOK /\ JobTypeOK /\ pc[j].at = "create" /\ "probe" \in Places
    BY <1>11 DEF CreateScan, TypeOK, At, Places
  <2>2. /\ pc'[j].at = "probe" /\ \A k \in Jobs : pc'[k].domain = pc[k].domain
        /\ \A k \in Jobs \ {j} : pc'[k].at = pc[k].at
        /\ pc[j].domain \in Domains
    BY <1>11, <2>1, GotoMoves DEF CreateScan
  <2>3. NewScan(pc[j].domain).domain = pc[j].domain
    BY <2>1, <2>2, NewScanRow DEF JobTypeOK
  <2>4. /\ scan'[j].domain = pc[j].domain
        /\ \A k \in Jobs \ {j} : scan'[k] = scan[k]
        /\ UNCHANGED <<target, add>>
    BY <1>11, <2>1, <2>3 DEF CreateScan, TableTypeOK
  <2> QED
    BY <2>1, <2>2, <2>4 DEF RowInv, AddInv
<1>12. ASSUME NEW j \in Jobs, FinishScan(j) PROVE RowInv' /\ AddInv'
  <2>1. TableTypeOK /\ JobTypeOK /\ pc[j].at # "idle" /\ "assess" \in Places
    BY <1>12 DEF FinishScan, TypeOK, At, Places
  <2>2. /\ pc'[j].at = "assess" /\ \A k \in Jobs : pc'[k].domain = pc[k].domain
        /\ \A k \in Jobs \ {j} : pc'[k].at = pc[k].at
    BY <1>12, <2>1, GotoMoves DEF FinishScan
  <2>3. \A k \in Jobs : scan'[k].domain = scan[k].domain
    BY <1>12, <2>1, FleetAssumption, StatusWritten DEF FinishScan, TableTypeOK
  <2> QED
    BY <1>12, <2>2, <2>3 DEF FinishScan, RowInv, AddInv
<1>13. ASSUME NEW j \in Jobs, CreateAssessment(j) PROVE RowInv' /\ AddInv'
  <2>1. TableTypeOK /\ JobTypeOK /\ pc[j].at # "idle" /\ "done" \in Places
    BY <1>13 DEF CreateAssessment, TypeOK, At, Places
  <2>2. /\ pc'[j].at = "done" /\ \A k \in Jobs : pc'[k].domain = pc[k].domain
        /\ \A k \in Jobs \ {j} : pc'[k].at = pc[k].at
    BY <1>13, <2>1, GotoMoves DEF CreateAssessment
  <2>3. \A k \in Jobs : scan'[k].domain = scan[k].domain
    BY <1>13, <2>1 DEF CreateAssessment, TableTypeOK
  <2> QED
    BY <1>13, <2>2, <2>3 DEF CreateAssessment, RowInv, AddInv
<1>14. ASSUME NEW j \in Jobs, ImportAppends(j) PROVE RowInv' /\ AddInv'
  <2>1. TableTypeOK /\ JobTypeOK /\ pc[j].at # "idle" /\ "finish" \in Places
    BY <1>14 DEF ImportAppends, TypeOK, At, Places
  <2>2. /\ pc'[j].at = "finish" /\ \A k \in Jobs : pc'[k].domain = pc[k].domain
        /\ \A k \in Jobs \ {j} : pc'[k].at = pc[k].at
    BY <1>14, <2>1, GotoMoves DEF ImportAppends
  <2>3. \A k \in Jobs : scan'[k].domain = scan[k].domain
    BY <1>14, <2>1, ImportMarked DEF ImportAppends, TableTypeOK
  <2> QED
    BY <1>14, <2>2, <2>3 DEF ImportAppends, RowInv, AddInv
<1>15. ASSUME NEW j \in Jobs, ImportFinishes(j) PROVE RowInv' /\ AddInv'
  <2>1. TableTypeOK /\ JobTypeOK /\ pc[j].at # "idle" /\ "done" \in Places
    BY <1>15 DEF ImportFinishes, TypeOK, At, Places
  <2>2. /\ pc'[j].at = "done" /\ \A k \in Jobs : pc'[k].domain = pc[k].domain
        /\ \A k \in Jobs \ {j} : pc'[k].at = pc[k].at
    BY <1>15, <2>1, GotoMoves DEF ImportFinishes
  <2>3. \A k \in Jobs : scan'[k].domain = scan[k].domain
    BY <1>15, <2>1, StatusWritten DEF ImportFinishes, TableTypeOK
  <2> QED
    BY <1>15, <2>2, <2>3 DEF ImportFinishes, RowInv, AddInv
<1>16. ASSUME NEW j \in Jobs, AppendFindings(j) PROVE RowInv' /\ AddInv'
  BY <1>16 DEF AppendFindings, RowInv, AddInv
<1>17. ASSUME NEW j \in Jobs, FinishLost(j) PROVE RowInv' /\ AddInv'
  <2>1. TableTypeOK /\ JobTypeOK /\ pc[j].at # "idle" /\ "assess" \in Places
    BY <1>17 DEF FinishLost, TypeOK, At, Places
  <2>2. /\ pc'[j].at = "assess" /\ \A k \in Jobs : pc'[k].domain = pc[k].domain
        /\ \A k \in Jobs \ {j} : pc'[k].at = pc[k].at
    BY <1>17, <2>1, GotoMoves DEF FinishLost
  <2>3. \A k \in Jobs : scan'[k].domain = scan[k].domain
    BY <1>17, <2>1 DEF FinishLost, TableTypeOK
  <2> QED
    BY <1>17, <2>2, <2>3 DEF FinishLost, RowInv, AddInv
<1>18. ASSUME NEW j \in Jobs, JobFails(j) PROVE RowInv' /\ AddInv'
  <2>1. TableTypeOK /\ JobTypeOK /\ pc[j].at # "idle" /\ "done" \in Places
    BY <1>18 DEF JobFails, TypeOK, At, Places
  <2>2. /\ pc'[j].at = "done" /\ \A k \in Jobs : pc'[k].domain = pc[k].domain
        /\ \A k \in Jobs \ {j} : pc'[k].at = pc[k].at
    BY <1>18, <2>1, GotoMoves DEF JobFails
  <2>3. \A k \in Jobs : scan'[k].domain = scan[k].domain
    BY <1>18, <2>1 DEF JobFails, TableTypeOK
  <2> QED
    BY <1>18, <2>2, <2>3 DEF JobFails, RowInv, AddInv
<1>19. ASSUME NEW j \in Jobs, NEW fw \in DOMAIN Says, AssessScan(j, fw) PROVE
     RowInv' /\ AddInv'
  BY <1>19 DEF AssessScan, RowInv, AddInv
<1>20. CASE Dies
  <2>1. NoAdd.pc = "idle"
    BY DEF NoAdd
  <2>2. ASSUME NEW j \in Jobs
        PROVE  /\ [pc[j] EXCEPT !.at = "done"].at = "done"
               /\ [pc[j] EXCEPT !.at = "done"].domain = pc[j].domain
    <3>1. pc[j] \in Routines
      BY DEF TypeOK, JobTypeOK
    <3> QED
      BY <3>1 DEF Routines
  <2>3. /\ \A a \in Adds : add'[a].pc = "idle"
        /\ \A j \in Jobs : pc'[j].at = "create" => pc'[j] = pc[j]
        /\ UNCHANGED <<target, scan>>
    BY <1>20, <2>1, <2>2 DEF Dies
  <2> QED
    BY <2>3 DEF RowInv, AddInv
<1>21. CASE UNCHANGED vars
  BY <1>21 DEF vars, RowInv, AddInv
<1> QED
  BY <1>1, <1>2, <1>3, <1>4, <1>5, <1>6, <1>7, <1>8, <1>9, <1>10, <1>11,
       <1>12, <1>13, <1>14, <1>15, <1>16, <1>17, <1>18, <1>19, <1>20, <1>21,
       <1>5a DEF Next, JobStep

\* A finished row: a column is written and the goroutine moves on.
LEMMA RowWritten ==
    ASSUME JobInv, SheetInv, NEW j \in Jobs, scan[j] # NoScan,
           \A k \in Jobs \ {j} : scan'[k] = scan[k] /\ pc'[k].at = pc[k].at,
           scan'[j].domain = scan[j].domain, scan'[j].start = scan[j].start,
           \/ scan'[j].status = scan[j].status /\ pc'[j].at = "finish"
           \/ /\ scan'[j].status \in {"complete", "partial", "failed"}
              /\ pc'[j].at \in {"assess", "done"},
           UNCHANGED <<found, assessed, upset>>
    PROVE  JobInv' /\ SheetInv'
<1>1. scan[j].domain \in Domains /\ scan[j].status # "none"
  BY DEF JobInv
<1>2. scan'[j] # NoScan
  BY <1>1, FleetAssumption DEF NoScan
<1>3. JobInv'
  BY <1>1, <1>2 DEF JobInv
<1>4. SheetInv'
  BY <1>2 DEF SheetInv
<1> QED
  BY <1>3, <1>4

\* An assessment is stored: it is ended when the scan is.
LEMMA SheetAdded ==
    ASSUME TypeOK, SheetInv, NEW j \in Jobs, NEW fw \in DOMAIN Says,
           scan[j] # NoScan, Store(j, fw), UNCHANGED <<scan, found>>
    PROVE  SheetInv'
<1> DEFINE old == assessed[j]
           new == assessed'[j]
           q == Judgement(j, fw)
<1>1. /\ \A k \in Jobs \ {j} : assessed'[k] = assessed[k]
      /\ Len(new) = Len(old) + 1 /\ new[1] = q
      /\ \A k \in 1..Len(old) : new[k + 1] = old[k]
      /\ old \in Seq(Judgements) /\ new \in Seq(Judgements)
  BY Stored DEF TypeOK, TableTypeOK
<1>2. /\ q.ended <=> scan[j].status # "running"
      /\ q.rules = Says[q.framework][found[j]]
  BY DEF Judgement
<1>3. \A k \in 1..Len(old) : old[k].ended =>
         /\ scan[j].status # "running"
         /\ old[k].rules = Says[old[k].framework][found[j]]
         /\ \A i \in 1..k : old[i].ended
  BY <1>1 DEF SheetInv
<1>4. Len(old) \in Nat /\ DOMAIN new = 1..Len(old) + 1
  BY <1>1
<1> HIDE DEF old, new, q
<1>5. ASSUME NEW k \in 1..Len(old) + 1, new[k].ended
      PROVE  /\ scan[j].status # "running"
             /\ new[k].rules = Says[new[k].framework][found[j]]
             /\ \A i \in 1..k : new[i].ended
  <2>1. CASE k = 1
    BY <1>1, <1>2, <1>5, <2>1
  <2>2. CASE k # 1
    <3>1. k - 1 \in 1..Len(old) /\ new[k] = old[k - 1]
      BY <1>1, <1>4, <2>2
    <3>2. /\ scan[j].status # "running" /\ \A i \in 1..(k - 1) : old[i].ended
          /\ new[k].rules = Says[new[k].framework][found[j]]
      BY <1>3, <1>5, <3>1
    <3>3. ASSUME NEW i \in 1..k PROVE new[i].ended
      <4>1. CASE i = 1
        BY <1>1, <1>2, <3>2, <4>1
      <4>2. CASE i # 1
        <5>1. i - 1 \in 1..Len(old) /\ i - 1 \in 1..(k - 1) /\ new[i] = old[i
             - 1]
          BY <1>1, <1>4, <3>1, <4>2
        <5> QED
          BY <3>2, <5>1
      <4> QED
        BY <4>1, <4>2
    <3> QED
      BY <3>2, <3>3
  <2> QED
    BY <2>1, <2>2
<1>6. \A k \in Jobs \ {j} : assessed'[k] = assessed[k]
  BY <1>1
<1> QED
  BY <1>4, <1>5, <1>6 DEF SheetInv, new

\* Rows of scans and their assessments follow the goroutines.
LEMMA ScanStep ==
    ASSUME TypeOK, RowInv, JobInv, SheetInv, [Next]_vars
    PROVE  JobInv' /\ SheetInv'
<1>1. ASSUME NEW a \in Adds, NEW org \in Orgs, NEW d \in Domains,
     fleetAddHandler(a, org, d) PROVE JobInv' /\ SheetInv'
  BY <1>1 DEF fleetAddHandler, JobInv, SheetInv
<1>2. ASSUME NEW a \in Adds, AddFleetDomain(a) PROVE JobInv' /\ SheetInv'
  BY <1>2 DEF AddFleetDomain, JobInv, SheetInv
<1>3. ASSUME NEW a \in Adds, AddUpsert(a) PROVE JobInv' /\ SheetInv'
  BY <1>3 DEF AddUpsert, JobInv, SheetInv
<1>4. ASSUME NEW a \in Adds, AddInsert(a) PROVE JobInv' /\ SheetInv'
  BY <1>4 DEF AddInsert, JobInv, SheetInv
<1>5. ASSUME NEW a \in Adds, AddUnremove(a) PROVE JobInv' /\ SheetInv'
  BY <1>5 DEF AddUnremove, JobInv, SheetInv
<1>5a. ASSUME NEW a \in Adds, AddGet(a) PROVE JobInv' /\ SheetInv'
  BY <1>5a DEF AddGet, JobInv, SheetInv
<1>6. ASSUME NEW org \in Orgs, NEW d \in Domains, RemoveFleetDomain(org, d)
     PROVE JobInv' /\ SheetInv'
  BY <1>6 DEF RemoveFleetDomain, JobInv, SheetInv
<1>7. ASSUME NEW j \in Jobs, NEW d \in Domains, scanTriggerHandler(j, d) PROVE
     JobInv' /\ SheetInv'
  <2>1. /\ pc[j].at = "idle" /\ pc'[j].at = "upsert"
        /\ \A k \in Jobs \ {j} : pc'[k] = pc[k]
        /\ UNCHANGED <<scan, found, assessed, upset>>
    BY <1>7 DEF scanTriggerHandler, IsNext, At, TypeOK, JobTypeOK
  <2> QED
    BY <2>1 DEF JobInv, SheetInv
<1>8. ASSUME NEW j \in Jobs, NEW d \in Domains, ImportNetnlDomains(j, d) PROVE
     JobInv' /\ SheetInv'
  <2>1. /\ pc[j].at = "idle" /\ pc'[j].at = "append"
        /\ \A k \in Jobs \ {j} : pc'[k] = pc[k]
        /\ scan'[j] = NewScan(d) /\ \A k \in Jobs \ {j} : scan'[k] = scan[k]
        /\ UNCHANGED <<found, assessed, upset>>
    BY <1>8 DEF ImportNetnlDomains, IsNext, At, TypeOK, JobTypeOK, TableTypeOK
  <2>2. scan[j] = NoScan /\ assessed[j] = <<>>
    BY <2>1 DEF JobInv, SheetInv
  <2> QED
    BY <2>1, <2>2, NewScanRow DEF JobInv, SheetInv, TypeOK
<1>9. ASSUME NEW j \in Jobs, UpsertTarget(j) PROVE JobInv' /\ SheetInv'
  <2>1. \E l \in {"insert", "create"} : Goto(j, l)
    BY <1>9 DEF UpsertTarget
  <2>2. /\ pc[j].at = "upsert" /\ pc'[j].at \in {"insert", "create"}
        /\ \A k \in Jobs \ {j} : pc'[k].at = pc[k].at
        /\ UNCHANGED <<scan, found, assessed, upset>>
    BY <1>9, <2>1, GotoMoves DEF UpsertTarget, At, TypeOK, Places
  <2> QED
    BY <2>2 DEF JobInv, SheetInv
<1>10. ASSUME NEW j \in Jobs, InsertTarget(j) PROVE JobInv' /\ SheetInv'
  <2>1. \E l \in {"create", "done"} : Goto(j, l)
    BY <1>10 DEF InsertTarget
  <2>2. /\ pc[j].at = "insert" /\ pc'[j].at \in {"create", "done"}
        /\ \A k \in Jobs \ {j} : pc'[k].at = pc[k].at
        /\ upset \subseteq upset' /\ UNCHANGED <<scan, found, assessed>>
    BY <1>10, <2>1, GotoMoves DEF InsertTarget, At, TypeOK, Places
  <2>3. scan[j].status # "running"
    BY <2>2 DEF JobInv, NoScan
  <2> QED
    BY <2>2, <2>3 DEF JobInv, SheetInv
<1>11. ASSUME NEW j \in Jobs, CreateScan(j) PROVE JobInv' /\ SheetInv'
  <2>1. JobTypeOK /\ pc[j].at = "create" /\ "probe" \in Places
    BY <1>11 DEF CreateScan, TypeOK, At, Places
  <2>2. /\ pc'[j].at = "probe" /\ pc[j].domain \in Domains
        /\ \A k \in Jobs \ {j} : pc'[k].at = pc[k].at
    BY <1>11, <2>1, GotoMoves DEF CreateScan
  <2>3. /\ scan'[j] = NewScan(pc[j].domain)
        /\ \A k \in Jobs \ {j} : scan'[k] = scan[k]
        /\ UNCHANGED <<found, assessed, upset>>
    BY <1>11 DEF CreateScan, TypeOK, TableTypeOK
  <2>4. scan[j] = NoScan /\ assessed[j] = <<>>
    BY <2>1 DEF JobInv, SheetInv
  <2> QED
    BY <2>2, <2>3, <2>4, NewScanRow DEF JobInv, SheetInv, TypeOK
<1>12. ASSUME NEW j \in Jobs, FinishScan(j) PROVE JobInv' /\ SheetInv'
  <2>1. JobTypeOK /\ pc[j].at = "probe" /\ "assess" \in Places
    BY <1>12 DEF FinishScan, TypeOK, At, Places
  <2>2. /\ pc'[j].at = "assess" /\ \A k \in Jobs \ {j} : pc'[k].at = pc[k].at
        /\ UNCHANGED <<found, assessed, upset>>
    BY <1>12, <2>1, GotoMoves DEF FinishScan
  <2>3. PICK st \in {"complete", "partial", "failed"} :
           scan' = [scan EXCEPT ![j].status = st]
    BY <1>12, FleetAssumption DEF FinishScan
  <2>4. scan[j] # NoScan
    BY <2>1 DEF JobInv, NoScan
  <2> QED
    BY <2>1, <2>2, <2>3, StatusWritten, <2>4, RowWritten DEF TypeOK
<1>13. ASSUME NEW j \in Jobs, CreateAssessment(j) PROVE JobInv' /\ SheetInv'
  <2>1. JobTypeOK /\ pc[j].at = "assess" /\ "done" \in Places
    BY <1>13 DEF CreateAssessment, TypeOK, At, Places
  <2>2. /\ pc'[j].at = "done" /\ \A k \in Jobs \ {j} : pc'[k].at = pc[k].at
        /\ UNCHANGED <<scan, found, upset>>
    BY <1>13, <2>1, GotoMoves DEF CreateAssessment
  <2>3. JobInv'
    BY <2>1, <2>2 DEF JobInv
  <2> QED
    BY <1>13, <2>1, <2>2, <2>3, SheetAdded, FleetAssumption DEF
         CreateAssessment, JobInv
<1>14. ASSUME NEW j \in Jobs, ImportAppends(j) PROVE JobInv' /\ SheetInv'
  <2>1. JobTypeOK /\ pc[j].at = "append" /\ "finish" \in Places
    BY <1>14 DEF ImportAppends, TypeOK, At, Places
  <2>2. /\ pc'[j].at = "finish" /\ \A k \in Jobs \ {j} : pc'[k].at = pc[k].at
        /\ UNCHANGED <<found, assessed, upset>>
    BY <1>14, <2>1, GotoMoves DEF ImportAppends
  <2>4. scan[j] # NoScan
    BY <2>1 DEF JobInv, NoScan
  <2> QED
    BY <1>14, <2>1, <2>2, ImportMarked, <2>4, RowWritten DEF TypeOK,
         ImportAppends
<1>15. ASSUME NEW j \in Jobs, ImportFinishes(j) PROVE JobInv' /\ SheetInv'
  <2>1. JobTypeOK /\ pc[j].at = "finish" /\ "done" \in Places
    BY <1>15 DEF ImportFinishes, TypeOK, At, Places
  <2>2. /\ pc'[j].at = "done" /\ \A k \in Jobs \ {j} : pc'[k].at = pc[k].at
        /\ UNCHANGED <<found, assessed, upset>>
    BY <1>15, <2>1, GotoMoves DEF ImportFinishes
  <2>4. scan[j] # NoScan
    BY <2>1 DEF JobInv, NoScan
  <2> QED
    BY <1>15, <2>1, <2>2, StatusWritten, <2>4, RowWritten DEF TypeOK,
         ImportFinishes
<1>16. ASSUME NEW j \in Jobs, AppendFindings(j) PROVE JobInv' /\ SheetInv'
  <2>1. /\ pc[j].at = "probe" /\ \A k \in Jobs \ {j} : found'[k] = found[k]
        /\ UNCHANGED <<scan, assessed, pc, upset>>
    BY <1>16 DEF AppendFindings, At, TypeOK, TableTypeOK
  <2>2. scan[j].status = "running"
    BY <2>1 DEF JobInv
  <2> QED
    BY <2>1, <2>2 DEF JobInv, SheetInv
<1>17. ASSUME NEW j \in Jobs, FinishLost(j) PROVE JobInv' /\ SheetInv'
  <2>1. JobTypeOK /\ pc[j].at = "probe" /\ "assess" \in Places
    BY <1>17 DEF FinishLost, TypeOK, At, Places
  <2>2. /\ pc'[j].at = "assess" /\ \A k \in Jobs \ {j} : pc'[k].at = pc[k].at
        /\ UNCHANGED <<scan, found, assessed>> /\ upset' = upset \cup {j}
    BY <1>17, <2>1, GotoMoves DEF FinishLost, Upset
  <2>3. scan[j] # NoScan
    BY <2>1 DEF JobInv, NoScan
  <2> QED
    BY <2>1, <2>2, <2>3 DEF JobInv, SheetInv
<1>18. ASSUME NEW j \in Jobs, JobFails(j) PROVE JobInv' /\ SheetInv'
  <2>1. JobTypeOK /\ pc[j].at # "idle" /\ "done" \in Places
    BY <1>18 DEF JobFails, TypeOK, At, Places
  <2>2. /\ pc'[j].at = "done" /\ \A k \in Jobs \ {j} : pc'[k].at = pc[k].at
        /\ UNCHANGED <<scan, found, assessed>> /\ upset' = upset \cup {j}
    BY <1>18, <2>1, GotoMoves DEF JobFails, Upset
  <2> QED
    BY <2>1, <2>2 DEF JobInv, SheetInv
<1>19. ASSUME NEW j \in Jobs, NEW fw \in DOMAIN Says, AssessScan(j, fw) PROVE
     JobInv' /\ SheetInv'
  <2>1. /\ scan[j] # NoScan /\ Store(j, fw)
        /\ UNCHANGED <<scan, found, pc, upset>>
    BY <1>19 DEF AssessScan
  <2>2. JobInv'
    BY <2>1 DEF JobInv
  <2> QED
    BY <2>1, <2>2, SheetAdded
<1>20. CASE Dies
  <2> DEFINE cut == {j \in Jobs : pc[j].at \notin {"idle", "done"}}
  <2>1. ASSUME NEW j \in Jobs
        PROVE  [pc[j] EXCEPT !.at = "done"].at = "done"
    <3>1. pc[j] \in Routines
      BY DEF TypeOK, JobTypeOK
    <3> QED
      BY <3>1 DEF Routines
  <2>2. /\ \A j \in Jobs : \/ pc'[j] = pc[j]
                           \/ pc'[j].at = "done" /\ j \in upset'
        /\ upset \subseteq upset' /\ UNCHANGED <<scan, found, assessed>>
    BY <1>20, <2>1 DEF Dies
  <2> QED
    BY <2>2 DEF JobInv, SheetInv
<1>21. CASE UNCHANGED vars
  BY <1>21 DEF vars, JobInv, SheetInv
<1> QED
  BY <1>1, <1>2, <1>3, <1>4, <1>5, <1>6, <1>7, <1>8, <1>9, <1>10, <1>11,
       <1>12, <1>13, <1>14, <1>15, <1>16, <1>17, <1>18, <1>19, <1>20, <1>21,
       <1>5a DEF Next, JobStep

----------------------------------------------------------------------------
(* Theorems.                                                               *)

LEMMA InitInv == Init => FleetInv
<1> SUFFICES ASSUME Init PROVE FleetInv
  OBVIOUS
<1>1. /\ NoScan \in ScanRows /\ NoScan.domain = None /\ NoScan.start = 0
      /\ NoScan.status = "none"
  BY DEF NoScan, ScanRows
<1>2. [at |-> "idle", domain |-> None] \in Routines
  BY DEF Routines
<1>3. NoAdd \in Requests /\ NoAdd.pc = "idle" /\ "idle" \in Answered
  BY DEF NoAdd, Requests, Answered
<1>4. TypeOK
  <2>1. TableTypeOK
    BY <1>1, FleetAssumption DEF Init, TableTypeOK
  <2>2. JobTypeOK
    BY <1>2 DEF Init, JobTypeOK
  <2>3. AddTypeOK
    BY <1>3 DEF Init, AddTypeOK
  <2>4. BudgetTypeOK
    BY FleetAssumption DEF Init, BudgetTypeOK
  <2> QED
    BY <2>1, <2>2, <2>3, <2>4 DEF TypeOK
<1>5. RowInv /\ AddInv
  BY <1>1, <1>3 DEF Init, RowInv, AddInv
<1>6. JobInv
  BY <1>1, FleetAssumption DEF Init, JobInv
<1>7. SheetInv
  BY DEF Init, SheetInv
<1> QED
  BY <1>4, <1>5, <1>6, <1>7 DEF FleetInv

\* FleetInv is an invariant of the fleets and the scans behind them.
THEOREM Invariance == Spec => []FleetInv
<1>1. FleetInv /\ [Next]_vars => FleetInv'
  <2> SUFFICES ASSUME FleetInv, [Next]_vars PROVE FleetInv'
    OBVIOUS
  <2>1. TypeOK'
    BY TypeStep, BudgetStep DEF FleetInv, TypeOK
  <2>2. RowInv' /\ AddInv'
    BY <2>1, RequestStep DEF FleetInv
  <2>3. JobInv' /\ SheetInv'
    BY ScanStep DEF FleetInv
  <2> QED
    BY <2>1, <2>2, <2>3 DEF FleetInv
<1> QED
  BY <1>1, InitInv, PTL DEF Spec

\* Type correctness of the fleets' tables, goroutines and requests.
THEOREM TypeCorrect == Spec => []TypeOK
<1>1. FleetInv => TypeOK
  BY DEF FleetInv
<1> QED
  BY <1>1, Invariance, PTL

\* The step that AddAnswersAreTrue speaks of.
Truthful ==
    /\ \A a \in Adds : add[a].pc \notin Answered /\ add'[a].pc # add[a].pc =>
         LET row == target'[add[a].domain]
         IN  /\ add'[a].pc = "accepted" =>
                  /\ row # None
                  /\ row.org = add[a].org \/ "inserted" \in add[a].overtaken
                  /\ ~row.removed \/ "removed" \in add[a].overtaken
             /\ add'[a].pc = "rejected" => row # None /\ row.org # add[a].org
             /\ add'[a].pc = "failed" => \/ budget'.fault < budget.fault
                                         \/ "inserted" \in add[a].overtaken
    /\ \A d \in Domains : target[d] # None =>
         target'[d] # None /\ target'[d].org = target[d].org

\* Whose call failed is paid for by the bound on such calls.
LEMMA FaultPaid ==
    ASSUME BudgetTypeOK, StoreFails
    PROVE  budget'.fault < budget.fault
  BY DEF BudgetTypeOK, StoreFails

\* Every answer to an add request is true, goes back to a store call that
\* failed, or was overtaken; no row changes hands.
LEMMA AnswerStep ==
    ASSUME FleetInv, [Next]_vars
    PROVE  Truthful
<1> USE DEF FleetInv, TypeOK
<1>1. ASSUME NEW a \in Adds, NEW org \in Orgs, NEW d \in Domains,
     fleetAddHandler(a, org, d) PROVE Truthful
  <2>1. /\ add[a].pc \in Answered /\ add \in [Adds -> Requests]
        /\ \A b \in Adds \ {a} : add'[b] = add[b]
        /\ UNCHANGED target
    BY <1>1 DEF fleetAddHandler, AddTypeOK
  <2> QED
    BY <2>1 DEF Truthful
<1>2. ASSUME NEW a \in Adds, AddFleetDomain(a) PROVE Truthful
  <2> DEFINE d == add[a].domain
  <2>1. AddTypeOK /\ add[a].pc \notin Answered /\ UNCHANGED target
    BY <1>2 DEF AddFleetDomain, Answered
  <2>2. CASE \E l \in {"upsert", "unremove"} : Continue(a, l)
    <3>1. /\ add'[a].pc \in {"upsert", "unremove"}
          /\ \A b \in Adds \ {a} : add'[b] = add[b]
      BY <2>1, <2>2, ContinueMoves
    <3> QED
      BY <2>1, <3>1 DEF Truthful
  <2>3. CASE /\ target[d] # None /\ target[d].org # add[a].org
             /\ Answer(a, "rejected")
    <3>1. add'[a].pc = "rejected" /\ \A b \in Adds \ {a} : add'[b] = add[b]
      BY <2>1, <2>3, AnswerMoves DEF Answered
    <3> QED
      BY <2>1, <2>3, <3>1 DEF Truthful
  <2>4. CASE Answer(a, "failed") /\ StoreFails
    <3>1. add'[a].pc = "failed" /\ \A b \in Adds \ {a} : add'[b] = add[b]
      BY <2>1, <2>4, AnswerMoves DEF Answered
    <3> QED
      BY <2>1, <2>4, <3>1, FaultPaid DEF Truthful
  <2> QED
    BY <1>2, <2>2, <2>3, <2>4 DEF AddFleetDomain
<1>3. ASSUME NEW a \in Adds, AddUpsert(a) PROVE Truthful
  <2> DEFINE d == add[a].domain
  <2>1. /\ AddTypeOK /\ add[a].pc = "upsert" /\ add[a].pc \notin Answered
        /\ UNCHANGED target
    BY <1>3 DEF AddUpsert, Answered
  <2>2. CASE Continue(a, "insert")
    <3>1. add'[a].pc = "insert" /\ \A b \in Adds \ {a} : add'[b] = add[b]
      BY <2>1, <2>2, ContinueMoves
    <3> QED
      BY <2>1, <3>1 DEF Truthful
  <2>3. CASE target[d] # None /\ Answer(a, "accepted")
    <3>1. add'[a].pc = "accepted" /\ \A b \in Adds \ {a} : add'[b] = add[b]
      BY <2>1, <2>3, AnswerMoves DEF Answered
    <3>2. /\ "inserted" \in add[a].overtaken
          /\ ~target[d].removed \/ "removed" \in add[a].overtaken
      BY <2>1, <2>3 DEF AddInv
    <3> QED
      BY <2>1, <2>3, <3>1, <3>2 DEF Truthful
  <2>4. CASE Answer(a, "failed") /\ StoreFails
    <3>1. add'[a].pc = "failed" /\ \A b \in Adds \ {a} : add'[b] = add[b]
      BY <2>1, <2>4, AnswerMoves DEF Answered
    <3> QED
      BY <2>1, <2>4, <3>1, FaultPaid DEF Truthful
  <2> QED
    BY <1>3, <2>2, <2>3, <2>4 DEF AddUpsert
<1>4. ASSUME NEW a \in Adds, AddInsert(a) PROVE Truthful
  <2> DEFINE d == add[a].domain
  <2>1. /\ TableTypeOK /\ AddTypeOK /\ add[a].pc \notin Answered
        /\ d \in Domains /\ add[a].org \in Orgs /\ add[a].pc = "insert"
    BY <1>4 DEF AddInsert, Answered, AddTypeOK
  <2>2. ASSUME NEW l \in {"accepted", "failed"}, Inserts(a, l),
               l = "failed" => StoreFails
        PROVE  Truthful
    <3>1. /\ target' = [target EXCEPT ![d] = Row(add[a].org)]
          /\ add' = [Overtake(d, "inserted") EXCEPT ![a] = Reply(l)]
          /\ target[d] = None
      BY <2>2 DEF Inserts
    <3>2. /\ target'[d] # None /\ target'[d].org = add[a].org
          /\ ~target'[d].removed
          /\ \A e \in Domains \ {d} : target'[e] = target[e]
      <4> HIDE DEF d
      <4> QED
        BY <2>1, <3>1, RowInserted
    <3>3. add'[a].pc = l /\ \A b \in Adds \ {a} : add'[b].pc = add[b].pc
      <4>1. l \in Answered \ {"idle"}
        BY DEF Answered
      <4> HIDE DEF d
      <4>2. /\ add'[a].pc = l
            /\ \A b \in Adds \ {a} : add'[b] = Overtake(d, "inserted")[b]
        BY <2>1, <3>1, <4>1, OvertakeMarks, ReplyMoves
      <4> QED
        BY <2>1, <4>2, OvertakeMarks
    <3>4. l = "failed" => budget'.fault < budget.fault
      BY <2>2, FaultPaid
    <3> QED
      BY <3>1, <3>2, <3>3, <3>4 DEF Truthful
  <2>3. CASE /\ Answer(a, "failed") /\ UNCHANGED target
             /\ target[d] # None \/ StoreFails
    <3>1. add'[a].pc = "failed" /\ \A b \in Adds \ {a} : add'[b] = add[b]
      BY <2>1, <2>3, AnswerMoves DEF Answered
    <3>2. "inserted" \in add[a].overtaken \/ StoreFails
      BY <2>1, <2>3 DEF AddInv
    <3> QED
      BY <2>3, <3>1, <3>2, FaultPaid DEF Truthful
  <2> QED
    BY <1>4, <2>2, <2>3 DEF AddInsert
<1>5. ASSUME NEW a \in Adds, AddUnremove(a) PROVE Truthful
  <2> DEFINE d == add[a].domain
  <2>1. /\ TableTypeOK /\ AddTypeOK /\ add[a].pc \notin Answered
        /\ d \in Domains /\ target[d] # None
    BY <1>5 DEF AddUnremove, Answered, AddTypeOK, RowInv
  <2>2. \/ target' = target
        \/ target' = [target EXCEPT ![d].removed = FALSE]
    BY <1>5 DEF AddUnremove
  <2>3. \A e \in Domains : target[e] # None =>
           target'[e] # None /\ target'[e].org = target[e].org
    <3> HIDE DEF d
    <3> QED
      BY <2>1, <2>2, RemovedWritten
  <2>4. CASE Continue(a, "get")
    <3>1. add'[a].pc = "get" /\ \A b \in Adds \ {a} : add'[b] = add[b]
      BY <2>1, <2>4, ContinueMoves
    <3> QED
      BY <2>3, <3>1 DEF Truthful
  <2>5. CASE Answer(a, "failed") /\ StoreFails
    <3>1. add'[a].pc = "failed" /\ \A b \in Adds \ {a} : add'[b] = add[b]
      BY <2>1, <2>5, AnswerMoves DEF Answered
    <3> QED
      BY <2>3, <2>5, <3>1, FaultPaid DEF Truthful
  <2> QED
    BY <1>5, <2>4, <2>5 DEF AddUnremove
<1>5a. ASSUME NEW a \in Adds, AddGet(a) PROVE Truthful
  <2> DEFINE d == add[a].domain
  <2>1. /\ AddTypeOK /\ add[a].pc \notin Answered /\ UNCHANGED target
        /\ target[d] # None /\ target[d].org = add[a].org
        /\ ~target[d].removed \/ "removed" \in add[a].overtaken
    BY <1>5a DEF AddGet, Answered, RowInv, AddInv
  <2>2. CASE Answer(a, "accepted")
    <3>1. add'[a].pc = "accepted" /\ \A b \in Adds \ {a} : add'[b] = add[b]
      BY <2>1, <2>2, AnswerMoves DEF Answered
    <3> QED
      BY <2>1, <3>1 DEF Truthful
  <2>3. CASE Answer(a, "failed") /\ StoreFails
    <3>1. add'[a].pc = "failed" /\ \A b \in Adds \ {a} : add'[b] = add[b]
      BY <2>1, <2>3, AnswerMoves DEF Answered
    <3> QED
      BY <2>1, <2>3, <3>1, FaultPaid DEF Truthful
  <2> QED
    BY <1>5a, <2>2, <2>3 DEF AddGet
<1>6. ASSUME NEW org \in Orgs, NEW d \in Domains, RemoveFleetDomain(org, d)
     PROVE Truthful
  <2>1. \A b \in Adds : add'[b].pc = add[b].pc
    BY <1>6, OvertakeMarks DEF RemoveFleetDomain
  <2>2. target[d] # None
    <3>1. target[d] \in TargetRows /\ None \notin TargetRows
      BY <1>6, FleetAssumption DEF RemoveFleetDomain, Row, TargetRows
    <3> QED
      BY <3>1
  <2>3. \A e \in Domains : target[e] # None =>
           target'[e] # None /\ target'[e].org = target[e].org
    BY <1>6, <2>2, RemovedWritten DEF RemoveFleetDomain
  <2> QED
    BY <2>1, <2>3 DEF Truthful
<1>7. ASSUME NEW j \in Jobs, NEW d \in Domains, scanTriggerHandler(j, d) PROVE Truthful
  BY <1>7 DEF scanTriggerHandler, Truthful
<1>8. ASSUME NEW j \in Jobs, NEW d \in Domains, ImportNetnlDomains(j, d) PROVE Truthful
  BY <1>8 DEF ImportNetnlDomains, Truthful
<1>9. ASSUME NEW j \in Jobs, UpsertTarget(j) PROVE Truthful
  BY <1>9 DEF UpsertTarget, Truthful
<1>10. ASSUME NEW j \in Jobs, InsertTarget(j) PROVE Truthful
  <2> DEFINE d == pc[j].domain
  <2>1. d \in Domains /\ TableTypeOK /\ AddTypeOK
    BY <1>10 DEF InsertTarget, At, FleetInv, TypeOK, JobTypeOK
  <2>2. \A b \in Adds : add'[b].pc = add[b].pc
    BY <1>10, <2>1, OvertakeMarks DEF InsertTarget
  <2>3. \/ UNCHANGED target
        \/ target[d] = None /\ target' = [target EXCEPT ![d] = Row(DefaultOrg)]
    BY <1>10 DEF InsertTarget
  <2> HIDE DEF d
  <2>4. \A e \in Domains : target[e] # None => target'[e] = target[e]
    BY <2>1, <2>3, FleetAssumption, RowInserted
  <2> QED
    BY <2>2, <2>4 DEF Truthful
<1>11. ASSUME NEW j \in Jobs, CreateScan(j) PROVE Truthful
  BY <1>11 DEF CreateScan, Truthful
<1>12. ASSUME NEW j \in Jobs, FinishScan(j) PROVE Truthful
  BY <1>12 DEF FinishScan, Truthful
<1>13. ASSUME NEW j \in Jobs, CreateAssessment(j) PROVE Truthful
  BY <1>13 DEF CreateAssessment, Truthful
<1>14. ASSUME NEW j \in Jobs, ImportAppends(j) PROVE Truthful
  BY <1>14 DEF ImportAppends, Truthful
<1>15. ASSUME NEW j \in Jobs, ImportFinishes(j) PROVE Truthful
  BY <1>15 DEF ImportFinishes, Truthful
<1>16. ASSUME NEW j \in Jobs, AppendFindings(j) PROVE Truthful
  BY <1>16 DEF AppendFindings, Truthful
<1>17. ASSUME NEW j \in Jobs, FinishLost(j) PROVE Truthful
  BY <1>17 DEF FinishLost, Truthful
<1>18. ASSUME NEW j \in Jobs, JobFails(j) PROVE Truthful
  BY <1>18 DEF JobFails, Truthful
<1>19. ASSUME NEW j \in Jobs, NEW fw \in DOMAIN Says, AssessScan(j, fw) PROVE Truthful
  BY <1>19 DEF AssessScan, Truthful
<1>20. CASE Dies
  <2>1. UNCHANGED target /\ \A b \in Adds : add'[b].pc = "idle"
    BY <1>20 DEF Dies, NoAdd
  <2> QED
    BY <2>1 DEF Truthful
<1>21. CASE UNCHANGED vars
  BY <1>21 DEF vars, Truthful
<1> QED
  BY <1>1, <1>2, <1>3, <1>4, <1>5, <1>6, <1>7, <1>8, <1>9, <1>10, <1>11,
       <1>12, <1>13, <1>14, <1>15, <1>16, <1>17, <1>18, <1>19, <1>20, <1>21,
       <1>5a DEF Next, JobStep

\* What an add request is told is true: AddFleetDomain (fleet.go) answers
\* "added" when the domain is in the fleet of the organisation, unless someone
\* else inserted or removed it in between, names another organisation only
\* when that one has it, and fails only with a store call or such an insert;
\* and no domain ever changes hands.
THEOREM AddIsAnsweredTruly == Spec => AddAnswersAreTrue
<1> DEFINE A ==
    /\ \A a \in Adds : add[a].pc \notin Answered =>
         LET row == target'[add[a].domain]
         IN  /\ add'[a].pc = "accepted" =>
                  /\ row # None
                  /\ row.org = add[a].org \/ "inserted" \in add[a].overtaken
                  /\ ~row.removed \/ "removed" \in add[a].overtaken
             /\ add'[a].pc = "rejected" => row # None /\ row.org # add[a].org
             /\ add'[a].pc = "failed" => \/ budget'.fault < budget.fault
                                         \/ "inserted" \in add[a].overtaken
    /\ \A d \in Domains : target[d] # None =>
         target'[d] # None /\ target'[d].org = target[d].org
<1>1. FleetInv /\ [Next]_vars => [A]_vars
  <2> SUFFICES ASSUME FleetInv, [Next]_vars PROVE A
    OBVIOUS
  <2>1. Truthful
    BY AnswerStep
  <2> QED
    BY <2>1 DEF Truthful, Answered
<1> QED
  BY <1>1, Invariance, PTL DEF Spec, AddAnswersAreTrue

----------------------------------------------------------------------------
(* What the pages choose: the newest scan, the newest assessment, the last  *)
(* entry of a list.                                                        *)

\* Among natural numbers there is a least one, and it is what Min picks.
LEMMA LeastPicked ==
    ASSUME NEW S \in SUBSET Nat, S # {}
    PROVE  Min(S) \in S /\ \A y \in S : Min(S) <= y
<1> DEFINE R == OpToRel(<, Nat)
<1>1. IsWellFoundedOn(R, Nat)
  BY NatLessThanWellFounded, Zenon
<1>2. \A x, y \in Nat : <<y, x>> \notin R => x <= y
  BY DEF OpToRel
<1> HIDE DEF R
<1>3. \E x \in S : \A y \in S : <<y, x>> \notin R
  BY <1>1, WFMin
<1>4. \E x \in S : \A y \in S : x <= y
  BY <1>2, <1>3
<1> QED
  BY <1>4 DEF Min

\* A bounded key that members of a set have is largest for one of them.
LEMMA LargestKey ==
    ASSUME NEW S, S # {}, NEW n \in Nat, NEW key,
           \A s \in S : key[s] \in Nat /\ key[s] <= n
    PROVE  \E s \in S : \A u \in S : key[u] <= key[s]
<1> DEFINE D == {n - key[s] : s \in S}
<1>1. D \in SUBSET Nat /\ D # {}
  OBVIOUS
<1>2. \A s \in S : n - key[s] \in D
  OBVIOUS
<1>3. PICK s \in S : n - key[s] = Min(D)
  <2>1. Min(D) \in D
    <3> HIDE DEF D
    <3> QED
      BY <1>1, LeastPicked
  <2> QED
    BY <2>1
<1>4. \A y \in D : Min(D) <= y
  <2> HIDE DEF D
  <2> QED
    BY <1>1, LeastPicked
<1> HIDE DEF D
<1> QED
  BY <1>2, <1>3, <1>4

\* Positions in a list have a last one.
LEMMA LastPicked ==
    ASSUME NEW n \in Nat, NEW S \in SUBSET (1..n), S # {}
    PROVE  Max(S) \in S
<1> DEFINE key == [s \in S |-> s]
<1>1. \A s \in S : key[s] \in Nat /\ key[s] <= n /\ key[s] = s
  OBVIOUS
<1> HIDE DEF key
<1>2. \E s \in S : \A u \in S : key[u] <= key[s]
  BY <1>1, LargestKey
<1>3. \E s \in S : \A u \in S : s >= u
  BY <1>1, <1>2
<1> QED
  BY <1>3 DEF Max

\* The newest of some scans is one of them.
LEMMA NewestPicked ==
    ASSUME FleetInv, NEW S \in SUBSET Jobs, S # {}
    PROVE  Newest(S) \in S
<1> DEFINE key == [s \in S |-> scan[s].start]
<1>1. \A s \in S : key[s] \in Nat /\ key[s] <= MaxJobs + 1 /\ key[s] = scan[s].start
  BY DEF FleetInv, TypeOK, TableTypeOK, ScanRows, JobInv
<1>2. MaxJobs + 1 \in Nat
  BY FleetAssumption
<1> HIDE DEF key
<1>3. \E s \in S : \A u \in S : key[u] <= key[s]
  BY <1>1, <1>2, LargestKey
<1>4. \E s \in S : \A u \in S : scan[u].start <= scan[s].start
  BY <1>1, <1>3
<1> QED
  BY <1>4 DEF Newest

\* A finite set as a list: every member is an entry.
LEMMA AllListed ==
    ASSUME NEW S, IsFiniteSet(S)
    PROVE  /\ Cardinality(S) \in Nat /\ DOMAIN SetToSeq(S) = 1..Cardinality(S)
           /\ \A k \in DOMAIN SetToSeq(S) : SetToSeq(S)[k] \in S
           /\ \A x \in S : \E k \in DOMAIN SetToSeq(S) : SetToSeq(S)[k] = x
<1> DEFINE n == Cardinality(S)
           q == SetToSeq(S)
<1>1. n \in Nat /\ ExistsBijection(1..n, S)
  BY FS_CardinalityType
<1>2. \E f \in [1..n -> S] : IsInjective(f)
  BY <1>1 DEF ExistsBijection, Bijection, Injection
<1>3. q \in [1..n -> S] /\ IsInjective(q)
  BY <1>2 DEF SetToSeq
<1>4. q \in Injection(1..n, S)
  BY <1>3 DEF Injection
<1>5. IsFiniteSet(1..n) /\ Cardinality(1..n) = n
  <2>1. 1 \in Int /\ n \in Int
    BY <1>1
  <2>2. IsFiniteSet(1..n) /\ Cardinality(1..n) = IF 1 > n THEN 0 ELSE n - 1 + 1
    BY <2>1, FS_Interval
  <2> QED
    BY <1>1, <2>2
<1> HIDE DEF n, q
<1>6. Cardinality(1..n) = Cardinality(S) => q \in Surjection(1..n, S)
  BY <1>4, FS_Injection
<1>7. q \in Surjection(1..n, S)
  BY <1>5, <1>6 DEF n
<1>8. \A x \in S : \E k \in 1..n : q[k] = x
  BY <1>7 DEF Surjection
<1> QED
  BY <1>1, <1>3, <1>8 DEF n, q

----------------------------------------------------------------------------
(* Sums and counts.  SumFunction is a fold over a set; these lemmas take it *)
(* apart.  A smallest counterexample, which exists because < is            *)
(* well-founded on cardinalities, stands in for induction over the set.    *)

First(s) == CHOOSE x \in s : TRUE

\* One round of the fold of f over the subsets of D.
Round(f, g, D) ==
    [s \in SUBSET D |-> IF s = {} THEN 0 ELSE f[First(s)] + g[s \ {First(s)}]]

Sums(f, D) == CHOOSE g : g = Round(f, g, D)

\* The fold behind SumFunctionOnSet, written out.
LEMMA SumUnfolds == \A f, S : SumFunctionOnSet(f, S) = Sums(f, S)[S]
  BY Zenon DEF SumFunctionOnSet, FoldFunctionOnSet, MapThenFoldSet, Sums, Round,
     First

\* First picks a member.
LEMMA FirstIsMember == ASSUME NEW S, S # {} PROVE First(S) \in S
  BY DEF First

\* A family of subsets of a finite set has a member that contains no other.
LEMMA SmallestSet ==
    ASSUME NEW X, IsFiniteSet(X), NEW U \in SUBSET (SUBSET X), U # {}
    PROVE  \E s \in U : \A t \in U : t \subseteq s => t = s
<1> DEFINE K == {Cardinality(s) : s \in U}
<1>1. \A s \in U : IsFiniteSet(s) /\ Cardinality(s) \in Nat
  BY FS_Subset, FS_CardinalityType
<1>2. K \in SUBSET Nat /\ K # {}
  BY <1>1
<1>3. Min(K) \in K /\ \A y \in K : Min(K) <= y
  <2> HIDE DEF K
  <2> QED
    BY <1>2, LeastPicked
<1>4. PICK s \in U : Cardinality(s) = Min(K)
  BY <1>3
<1>5. ASSUME NEW t \in U, t \subseteq s PROVE t = s
  <2>1. /\ Cardinality(t) <= Cardinality(s)
        /\ Cardinality(s) = Cardinality(t) => s = t
    BY <1>1, <1>5, FS_Subset
  <2>2. Cardinality(s) <= Cardinality(t)
    BY <1>3, <1>4
  <2> QED
    BY <1>1, <2>1, <2>2
<1> QED
  BY <1>5

\* Two folds agree on the sets both of them reach.
LEMMA SumsAgree ==
    ASSUME NEW X, IsFiniteSet(X), NEW f, NEW g, NEW h,
           NEW D \in SUBSET X, NEW E \in SUBSET X,
           g = Round(f, g, D), h = Round(f, h, E),
           NEW s \in SUBSET (D \cap E)
    PROVE  g[s] = h[s]
<1> DEFINE U == {t \in SUBSET (D \cap E) : g[t] # h[t]}
<1> SUFFICES ASSUME U # {} PROVE FALSE
  OBVIOUS
<1>1. PICK t \in U : \A u \in U : u \subseteq t => u = t
  <2>1. U \in SUBSET (SUBSET X)
    OBVIOUS
  <2> HIDE DEF U
  <2> QED
    BY <2>1, SmallestSet
<1>2. g[t] = IF t = {} THEN 0 ELSE f[First(t)] + g[t \ {First(t)}]
  BY <1>1 DEF Round
<1>3. h[t] = IF t = {} THEN 0 ELSE f[First(t)] + h[t \ {First(t)}]
  BY <1>1 DEF Round
<1>4. t # {} => g[t \ {First(t)}] = h[t \ {First(t)}]
  BY <1>1, FirstIsMember
<1> QED
  BY <1>1, <1>2, <1>3, <1>4

\* The fold is defined on every finite set.
LEMMA SumsExist ==
    ASSUME NEW X, IsFiniteSet(X), NEW f, NEW D \in SUBSET X
    PROVE  Sums(f, D) = Round(f, Sums(f, D), D)
<1> DEFINE U == {t \in SUBSET X : Sums(f, t) # Round(f, Sums(f, t), t)}
           Total(t) == Sums(f, t)[t]
<1> SUFFICES ASSUME U # {} PROVE FALSE
  OBVIOUS
<1>1. PICK t \in U : \A u \in U : u \subseteq t => u = t
  <2>1. U \in SUBSET (SUBSET X)
    OBVIOUS
  <2> HIDE DEF U
  <2> QED
    BY <2>1, SmallestSet
<1>2. \A u \in SUBSET t : u # t => Sums(f, u) = Round(f, Sums(f, u), u)
  BY <1>1
<1> DEFINE g == [s \in SUBSET t |->
                   IF s = {} THEN 0 ELSE f[First(s)] + Total(s \ {First(s)})]
<1>3. ASSUME NEW u \in SUBSET t, u # t PROVE g[u] = Total(u)
  <2>1. Sums(f, u) = Round(f, Sums(f, u), u)
    BY <1>2, <1>3
  <2>2. Sums(f, u)[u] =
          IF u = {} THEN 0 ELSE f[First(u)] + Sums(f, u)[u \ {First(u)}]
    BY <2>1 DEF Round
  <2>3. ASSUME u # {} PROVE Sums(f, u)[u \ {First(u)}] = Total(u \ {First(u)})
    <3> DEFINE v == u \ {First(u)}
    <3>1. Sums(f, v) = Round(f, Sums(f, v), v)
      BY <1>2, <1>3, <2>3, FirstIsMember
    <3>2. Sums(f, u)[v] = Sums(f, v)[v]
      BY <2>1, <3>1, <1>1, SumsAgree
    <3> QED
      BY <3>2
  <2> QED
    BY <2>2, <2>3
<1>4. \A s \in SUBSET t : s # {} => g[s \ {First(s)}] = Total(s \ {First(s)})
  BY <1>3, FirstIsMember
<1>5. g = Round(f, g, t)
  BY <1>4 DEF Round
<1>6. Sums(f, t) = Round(f, Sums(f, t), t)
  <2> HIDE DEF g
  <2>1. \E h : h = Round(f, h, t)
    BY <1>5
  <2> QED
    BY <2>1, Zenon DEF Sums
<1> QED
  BY <1>1, <1>6

\* A sum, by the member that is counted first.
LEMMA SumByFirst ==
    ASSUME NEW f, NEW S, IsFiniteSet(S)
    PROVE  SumFunctionOnSet(f, S) =
             IF S = {} THEN 0
             ELSE f[First(S)] + SumFunctionOnSet(f, S \ {First(S)})
<1>1. Sums(f, S) = Round(f, Sums(f, S), S)
  BY SumsExist
<1>2. Sums(f, S)[S] =
        IF S = {} THEN 0 ELSE f[First(S)] + Sums(f, S)[S \ {First(S)}]
  BY <1>1 DEF Round
<1>3. Sums(f, S)[S \ {First(S)}] = Sums(f, S \ {First(S)})[S \ {First(S)}]
  <2> DEFINE v == S \ {First(S)}
  <2>1. Sums(f, v) = Round(f, Sums(f, v), v)
    BY SumsExist
  <2> QED
    BY <1>1, <2>1, SumsAgree
<1> QED
  BY <1>2, <1>3, SumUnfolds

\* A sum of natural numbers is one.
LEMMA SumType ==
    ASSUME NEW f, NEW S, IsFiniteSet(S), \A x \in S : f[x] \in Nat
    PROVE  SumFunctionOnSet(f, S) \in Nat
<1> DEFINE U == {t \in SUBSET S : SumFunctionOnSet(f, t) \notin Nat}
<1> SUFFICES ASSUME U # {} PROVE FALSE
  OBVIOUS
<1>1. PICK t \in U : \A u \in U : u \subseteq t => u = t
  <2>1. U \in SUBSET (SUBSET S)
    OBVIOUS
  <2> HIDE DEF U
  <2> QED
    BY <2>1, SmallestSet
<1>2. t # {} => /\ SumFunctionOnSet(f, t \ {First(t)}) \in Nat
                /\ f[First(t)] \in Nat
  BY <1>1, FirstIsMember
<1>3. SumFunctionOnSet(f, t) =
        IF t = {} THEN 0
        ELSE f[First(t)] + SumFunctionOnSet(f, t \ {First(t)})
  BY <1>1, SumByFirst, FS_Subset
<1>4. SumFunctionOnSet(f, t) \in Nat
  BY <1>2, <1>3
<1> QED
  BY <1>1, <1>4

\* One more member adds its value, whichever is counted first.
LEMMA SumOfOneMore ==
    ASSUME NEW f, NEW S, IsFiniteSet(S), \A z \in S : f[z] \in Nat, NEW x \in S
    PROVE  SumFunctionOnSet(f, S) = SumFunctionOnSet(f, S \ {x}) + f[x]
<1> DEFINE U == {t \in SUBSET S : \E y \in t :
                   SumFunctionOnSet(f, t) # SumFunctionOnSet(f, t \ {y}) + f[y]}
<1> SUFFICES ASSUME U # {} PROVE FALSE
  OBVIOUS
<1>1. PICK t \in U : \A u \in U : u \subseteq t => u = t
  <2>1. U \in SUBSET (SUBSET S)
    OBVIOUS
  <2> HIDE DEF U
  <2> QED
    BY <2>1, SmallestSet
<1>2. PICK y \in t :
        SumFunctionOnSet(f, t) # SumFunctionOnSet(f, t \ {y}) + f[y]
  BY <1>1
<1> DEFINE p == First(t)
           v == (t \ {p}) \ {y}
<1>3. p \in t /\ y \in t /\ t \in SUBSET S
  BY <1>1, <1>2, FirstIsMember
<1>4. SumFunctionOnSet(f, t) = f[p] + SumFunctionOnSet(f, t \ {p})
  BY <1>2, <1>3, SumByFirst, FS_Subset
<1>5. /\ SumFunctionOnSet(f, t \ {p}) \in Nat /\ SumFunctionOnSet(f, v) \in Nat
      /\ SumFunctionOnSet(f, t \ {y}) \in Nat
      /\ f[p] \in Nat /\ f[y] \in Nat
  <2>1. \A u \in SUBSET S : SumFunctionOnSet(f, u) \in Nat
    BY SumType, FS_Subset
  <2>2. t \ {p} \in SUBSET S /\ v \in SUBSET S /\ t \ {y} \in SUBSET S
    BY <1>3
  <2> QED
    BY <1>3, <2>1, <2>2
<1>6. CASE p = y
  BY <1>2, <1>4, <1>5, <1>6
<1>7. CASE p # y
  <2>1. t \ {p} \notin U /\ t \ {y} \notin U
    BY <1>1, <1>3
  <2>2. /\ t \ {p} \in SUBSET S /\ t \ {y} \in SUBSET S
        /\ y \in t \ {p} /\ p \in t \ {y} /\ (t \ {y}) \ {p} = v
    BY <1>3, <1>7
  <2>3. /\ SumFunctionOnSet(f, t \ {p}) = SumFunctionOnSet(f, v) + f[y]
        /\ SumFunctionOnSet(f, t \ {y}) = SumFunctionOnSet(f, v) + f[p]
    BY <2>1, <2>2
  <2> HIDE DEF p, v
  <2> QED
    BY <1>2, <1>4, <1>5, <2>3
<1> QED
  BY <1>6, <1>7

\* Values that add up member by member add up in total.
LEMMA SumOfSums ==
    ASSUME NEW S, IsFiniteSet(S), NEW f, NEW g, NEW h,
           \A x \in S : f[x] \in Nat /\ g[x] \in Nat /\ h[x] = f[x] + g[x]
    PROVE  SumFunctionOnSet(h, S) = SumFunctionOnSet(f, S) + SumFunctionOnSet(g, S)
<1> DEFINE Good(t) == SumFunctionOnSet(h, t) =
                        SumFunctionOnSet(f, t) + SumFunctionOnSet(g, t)
           U == {t \in SUBSET S : ~Good(t)}
<1> SUFFICES ASSUME U # {} PROVE FALSE
  OBVIOUS
<1>1. PICK t \in U : \A u \in U : u \subseteq t => u = t
  <2>1. U \in SUBSET (SUBSET S)
    OBVIOUS
  <2> HIDE DEF U
  <2> QED
    BY <2>1, SmallestSet
<1>2. t \in SUBSET S /\ IsFiniteSet(t) /\ ~Good(t)
  BY <1>1, FS_Subset
<1>3. CASE t = {}
  <2>1. /\ SumFunctionOnSet(f, t) = 0 /\ SumFunctionOnSet(g, t) = 0
        /\ SumFunctionOnSet(h, t) = 0
    BY <1>2, <1>3, SumByFirst
  <2> QED
    BY <1>2, <2>1
<1>4. CASE t # {}
  <2> DEFINE p == First(t)
             v == t \ {p}
  <2>1. p \in t /\ v \in SUBSET S /\ v # t /\ v \subseteq t /\ IsFiniteSet(v)
    BY <1>2, <1>4, FirstIsMember, FS_Subset
  <2>2. Good(v)
    BY <1>1, <2>1
  <2>3. /\ SumFunctionOnSet(f, t) = f[p] + SumFunctionOnSet(f, v)
        /\ SumFunctionOnSet(g, t) = g[p] + SumFunctionOnSet(g, v)
        /\ SumFunctionOnSet(h, t) = h[p] + SumFunctionOnSet(h, v)
    BY <1>2, <1>4, SumByFirst
  <2>4. f[p] \in Nat /\ g[p] \in Nat /\ h[p] = f[p] + g[p]
    BY <1>2, <2>1
  <2>5. SumFunctionOnSet(f, v) \in Nat /\ SumFunctionOnSet(g, v) \in Nat
    BY <2>1, SumType
  <2> HIDE DEF p, v
  <2> QED
    BY <1>2, <2>2, <2>3, <2>4, <2>5
<1> QED
  BY <1>3, <1>4

\* A count is a sum of ones.
LEMMA SumOfOnes ==
    ASSUME NEW S, IsFiniteSet(S), NEW R \in SUBSET S, NEW f,
           \A x \in S : f[x] = IF x \in R THEN 1 ELSE 0
    PROVE  SumFunctionOnSet(f, S) = Cardinality(R)
<1> DEFINE Good(t) == SumFunctionOnSet(f, t) = Cardinality(t \cap R)
           U == {t \in SUBSET S : ~Good(t)}
<1>0. S \cap R = R
  OBVIOUS
<1> SUFFICES ASSUME U # {} PROVE FALSE
  BY <1>0
<1>1. PICK t \in U : \A u \in U : u \subseteq t => u = t
  <2>1. U \in SUBSET (SUBSET S)
    OBVIOUS
  <2> HIDE DEF U
  <2> QED
    BY <2>1, SmallestSet
<1>2. t \in SUBSET S /\ IsFiniteSet(t) /\ ~Good(t)
  BY <1>1, FS_Subset
<1>3. CASE t = {}
  <2>1. SumFunctionOnSet(f, t) = 0 /\ t \cap R = {}
    BY <1>2, <1>3, SumByFirst
  <2> QED
    BY <1>2, <2>1, FS_EmptySet
<1>4. CASE t # {}
  <2> DEFINE p == First(t)
             v == t \ {p}
  <2>1. p \in t /\ v \in SUBSET S /\ v # t /\ v \subseteq t /\ IsFiniteSet(v)
    BY <1>2, <1>4, FirstIsMember, FS_Subset
  <2>2. Good(v)
    BY <1>1, <2>1
  <2>3. SumFunctionOnSet(f, t) = f[p] + SumFunctionOnSet(f, v)
    BY <1>2, <1>4, SumByFirst
  <2>4. f[p] = IF p \in R THEN 1 ELSE 0
    BY <1>2, <2>1
  <2>5. v \cap R = (t \cap R) \ {p} /\ (p \in R <=> p \in t \cap R)
    BY <2>1
  <2>6. IsFiniteSet(t \cap R) /\ Cardinality(t \cap R) \in Nat
    BY <1>2, FS_Subset, FS_CardinalityType
  <2>7. Cardinality(v \cap R) =
          IF p \in R THEN Cardinality(t \cap R) - 1 ELSE Cardinality(t \cap R)
    <3> DEFINE q == t \cap R
    <3>1. IsFiniteSet(q)
      BY <2>6
    <3> HIDE DEF q
    <3>2. Cardinality(q \ {p}) =
            IF p \in q THEN Cardinality(q) - 1 ELSE Cardinality(q)
      BY <3>1, FS_RemoveElement
    <3> QED
      BY <2>5, <3>2 DEF q
  <2> HIDE DEF p, v
  <2> QED
    BY <1>2, <2>2, <2>3, <2>4, <2>6, <2>7
<1> QED
  BY <1>3, <1>4

\* Functions that agree on a set have the same sum over it.
LEMMA SumOfSame ==
    ASSUME NEW S, IsFiniteSet(S), NEW f, NEW h,
           \A x \in S : f[x] \in Nat /\ h[x] = f[x]
    PROVE  SumFunctionOnSet(h, S) = SumFunctionOnSet(f, S)
<1> DEFINE z == [x \in S |-> 0]
<1>1. SumFunctionOnSet(z, S) = 0
  <2>1. \A x \in S : z[x] = IF x \in {} THEN 0 + 1 ELSE 0
    OBVIOUS
  <2>2. SumFunctionOnSet(z, S) = Cardinality({})
    BY <2>1, SumOfOnes
  <2> QED
    BY <2>2, FS_EmptySet
<1>2. \A x \in S : f[x] \in Nat /\ z[x] \in Nat /\ h[x] = f[x] + z[x]
  OBVIOUS
<1>3. SumFunctionOnSet(f, S) \in Nat
  BY SumType
<1> HIDE DEF z
<1>4. SumFunctionOnSet(h, S) = SumFunctionOnSet(f, S) + SumFunctionOnSet(z, S)
  BY <1>2, SumOfSums
<1> QED
  BY <1>1, <1>3, <1>4

\* The marks of a table in one row, and in one column.
InRow(K, M, s) == {k \in K : <<s, k>> \in M}
InCol(S, M, k) == {s \in S : <<s, k>> \in M}

\* The marks of a table, counted by row and by column.
LEMMA DoubleCount ==
    ASSUME NEW S, IsFiniteSet(S), NEW K, IsFiniteSet(K), NEW M, NEW f, NEW g,
           \A s \in S : f[s] = Cardinality(InRow(K, M, s)),
           \A k \in K : g[k] = Cardinality(InCol(S, M, k))
    PROVE  SumFunctionOnSet(f, S) = SumFunctionOnSet(g, K)
<1> /\ \A s \in S : f[s] = Cardinality({k \in K : <<s, k>> \in M})
    /\ \A k \in K : g[k] = Cardinality({s \in S : <<s, k>> \in M})
  BY DEF InRow, InCol
<1> DEFINE In(t, k) == {s \in t : <<s, k>> \in M}
           Col(t) == [k \in K |-> Cardinality(In(t, k))]
           Good(t) == SumFunctionOnSet(f, t) = SumFunctionOnSet(Col(t), K)
           U == {t \in SUBSET S : ~Good(t)}
<1>1. \A t \in SUBSET S : \A k \in K : /\ IsFiniteSet(In(t, k))
                                       /\ Cardinality(In(t, k)) \in Nat
  BY FS_Subset, FS_CardinalityType
<1>2. \A s \in S : f[s] \in Nat
  <2> SUFFICES ASSUME NEW s \in S PROVE f[s] \in Nat
    OBVIOUS
  <2>1. IsFiniteSet({k \in K : <<s, k>> \in M})
    BY FS_Subset
  <2> QED
    BY <2>1, FS_CardinalityType
<1>3. U = {}
  <2> SUFFICES ASSUME U # {} PROVE FALSE
    OBVIOUS
  <2>1. PICK t \in U : \A u \in U : u \subseteq t => u = t
    <3>1. U \in SUBSET (SUBSET S)
      OBVIOUS
    <3> HIDE DEF U
    <3> QED
      BY <3>1, SmallestSet
  <2>2. t \in SUBSET S /\ IsFiniteSet(t) /\ ~Good(t)
    BY <2>1, FS_Subset
  <2>3. CASE t = {}
    <3>1. SumFunctionOnSet(f, t) = 0
      BY <2>2, <2>3, SumByFirst
    <3>2. \A k \in K : Col(t)[k] = IF k \in {} THEN 1 ELSE 0
      <4>1. \A k \in K : In(t, k) = {}
        BY <2>3
      <4> QED
        BY <4>1, FS_EmptySet
    <3>3. SumFunctionOnSet(Col(t), K) = Cardinality({})
      <4> HIDE DEF Col
      <4> QED
        BY <3>2, SumOfOnes
    <3> QED
      BY <2>2, <3>1, <3>3, FS_EmptySet
  <2>4. CASE t # {}
    <3> DEFINE p == First(t)
               v == t \ {p}
               R == {k \in K : <<p, k>> \in M}
               e == [k \in K |-> IF k \in R THEN 1 ELSE 0]
    <3>1. p \in t /\ v \in SUBSET S /\ v # t /\ v \subseteq t
      BY <2>2, <2>4, FirstIsMember
    <3>2. SumFunctionOnSet(f, v) = SumFunctionOnSet(Col(v), K)
      BY <2>1, <3>1
    <3>3. SumFunctionOnSet(f, t) = f[p] + SumFunctionOnSet(f, v)
      BY <2>2, <2>4, SumByFirst
    <3>4. SumFunctionOnSet(e, K) = f[p]
      <4>1. R \in SUBSET K /\ \A k \in K : e[k] = IF k \in R THEN 1 ELSE 0
        OBVIOUS
      <4>2. f[p] = Cardinality(R)
        BY <2>2, <3>1
      <4> HIDE DEF R, e
      <4> QED
        BY <4>1, <4>2, SumOfOnes
    <3>5. ASSUME NEW k \in K
          PROVE  /\ Col(v)[k] \in Nat /\ e[k] \in Nat
                 /\ Col(t)[k] = Col(v)[k] + e[k]
      <4>1. In(v, k) = In(t, k) \ {p} /\ (p \in In(t, k) <=> k \in R)
        BY <3>1
      <4>2. /\ IsFiniteSet(In(t, k)) /\ Cardinality(In(t, k)) \in Nat
            /\ Cardinality(In(v, k)) \in Nat
        BY <1>1, <2>2, <3>1
      <4>3. Cardinality(In(t, k) \ {p}) =
              IF p \in In(t, k) THEN Cardinality(In(t, k)) - 1
              ELSE Cardinality(In(t, k))
        <5> HIDE DEF In
        <5> QED
          BY <4>2, FS_RemoveElement
      <4>4. /\ Col(v)[k] = Cardinality(In(v, k))
            /\ Col(t)[k] = Cardinality(In(t, k))
            /\ e[k] = IF k \in R THEN 1 ELSE 0
        OBVIOUS
      <4> HIDE DEF In, Col, e, R, v, p
      <4> QED
        BY <4>1, <4>2, <4>3, <4>4
    <3>6. SumFunctionOnSet(f, v) \in Nat
      BY <1>2, <3>1, SumType, FS_Subset
    <3> HIDE DEF Col, e, p, v
    <3>7. SumFunctionOnSet(Col(t), K) =
            SumFunctionOnSet(Col(v), K) + SumFunctionOnSet(e, K)
      BY <3>5, SumOfSums
    <3>8. f[p] \in Nat
      BY <1>2, <2>2, <3>1
    <3> QED
      BY <2>2, <3>2, <3>3, <3>4, <3>6, <3>7, <3>8
  <2> QED
    BY <2>3, <2>4
<1>4. Good(S)
  BY <1>3
<1>5. \A k \in K : Col(S)[k] \in Nat /\ g[k] = Col(S)[k]
  BY <1>1
<1> HIDE DEF Col
<1> QED
  BY <1>4, <1>5, SumOfSame

\* As many images as there are members, when no two share one.
LEMMA CountImages ==
    ASSUME NEW S, IsFiniteSet(S), NEW v, NEW T, T = {v[s] : s \in S},
           \A s, t \in S : v[s] = v[t] => s = t
    PROVE  IsFiniteSet(T) /\ Cardinality(T) = Cardinality(S)
<1> DEFINE h == [s \in S |-> v[s]]
<1>1. h \in Bijection(S, T)
  <2>1. h \in [S -> T] /\ \A s \in S : h[s] = v[s]
    OBVIOUS
  <2> HIDE DEF h
  <2>2. h \in Injection(S, T)
    BY <2>1 DEF Injection, IsInjective
  <2>3. h \in Surjection(S, T)
    BY <2>1 DEF Surjection
  <2> QED
    BY <2>2, <2>3 DEF Bijection
<1>2. ExistsBijection(S, T)
  BY <1>1 DEF ExistsBijection
<1> QED
  BY <1>2, FS_Bijection

\* Two counts of parts that do not overlap.
LEMMA CountParts ==
    ASSUME NEW A, NEW B, IsFiniteSet(A), IsFiniteSet(B), A \cap B = {}
    PROVE  /\ Cardinality(A) \in Nat /\ Cardinality(B) \in Nat
           /\ Cardinality(A \cup B) = Cardinality(A) + Cardinality(B)
<1>1. Cardinality(A) \in Nat /\ Cardinality(B) \in Nat
  BY FS_CardinalityType
<1>2. Cardinality(A \cup B) = Cardinality(A) + Cardinality(B) - Cardinality(A \cap B)
  BY FS_Union
<1>3. Cardinality(A \cap B) = 0
  BY FS_EmptySet
<1> QED
  BY <1>1, <1>2, <1>3

----------------------------------------------------------------------------
(* What a page shows depends on the wand verdicts in its list alone.       *)

\* The sets of rationales that the wand assessments in a list have.
Wands(list) == {list[k].rules : k \in {i \in DOMAIN list : list[i].framework = "wand"}}

Rationale(rules, id) == CHOOSE r \in rules : r.id = id

\* A list of some length that a page is given.
IsList(list) == \E n \in Nat : DOMAIN list = 1..n

\* One wand verdict in the list: it decides every flow.
LEMMA FlowsOfOne ==
    ASSUME NEW list, IsList(list), NEW rules, Wands(list) = {rules}, NEW id
    PROVE  /\ Judged(list, id) # {} <=> \E r \in rules : r.id = id
           /\ Judged(list, id) # {} => byRule(list, id) = Rationale(rules, id)
<1>1. PICK n \in Nat : DOMAIN list = 1..n
  BY DEF IsList
<1>2. \A k \in DOMAIN list : list[k].framework = "wand" => list[k].rules = rules
  BY DEF Wands
<1>3. \E k \in DOMAIN list : list[k].framework = "wand"
  BY DEF Wands
<1>4. Judged(list, id) # {} <=> \E r \in rules : r.id = id
  BY <1>2, <1>3 DEF Judged
<1>5. ASSUME Judged(list, id) # {} PROVE byRule(list, id) = Rationale(rules, id)
  <2> DEFINE m == Max(Judged(list, id))
  <2>1. Judged(list, id) \in SUBSET (1..n)
    BY <1>1 DEF Judged
  <2>2. m \in Judged(list, id)
    BY <1>1, <1>5, <2>1, LastPicked
  <2>3. list[m].rules = rules
    BY <1>2, <2>2 DEF Judged
  <2>4. byRule(list, id) = Rationale(list[m].rules, id)
    BY DEF byRule, Rationale
  <2> QED
    BY <2>3, <2>4
<1> QED
  BY <1>4, <1>5

\* No wand verdict in the list: no flow is judged.
LEMMA FlowsOfNone ==
    ASSUME NEW list, Wands(list) = {}, NEW id
    PROVE  Judged(list, id) = {}
<1> QED
  BY DEF Wands, Judged

\* Two lists with the same wand verdict, or none, have the same flows.
LEMMA SameFlows ==
    ASSUME NEW l1, NEW l2, IsList(l1), IsList(l2), NEW rules,
           Wands(l1) = Wands(l2), Wands(l1) \in {{}, {rules}}
    PROVE  SovereigntyFlows(l1) = SovereigntyFlows(l2)
<1>1. \A id : Judged(l1, id) # {} <=> Judged(l2, id) # {}
  BY FlowsOfOne, FlowsOfNone
<1>2. \A id : Judged(l1, id) # {} => byRule(l1, id) = byRule(l2, id)
  BY FlowsOfOne, FlowsOfNone
<1>3. JudgedFlows(l1) = JudgedFlows(l2)
  BY <1>1 DEF JudgedFlows
<1>4. \A id \in JudgedFlows(l1) : RationaleScore(byRule(l1, id).res) =
                                  RationaleScore(byRule(l2, id).res)
  BY <1>2 DEF JudgedFlows
<1> QED
  BY <1>3, <1>4 DEF SovereigntyFlows

LEMMA SameScore ==
    ASSUME NEW l1, NEW l2, IsList(l1), IsList(l2), NEW rules,
           Wands(l1) = Wands(l2), Wands(l1) \in {{}, {rules}}
    PROVE  BuildFleetScore(l1) = BuildFleetScore(l2)
<1>1. SovereigntyFlows(l1) = SovereigntyFlows(l2)
  BY SameFlows
<1> QED
  BY <1>1 DEF BuildFleetScore

\* The fleet score counts a dependent flow exactly when it names one, and the
\* sentence of the answer page says no exactly then.
LEMMA VerdictOfScore ==
    ASSUME NEW list
    PROVE  LET s == BuildFleetScore(list)
               v == BuildAnswerVerdict(list)
           IN  /\ v.Verdict = (IF s.X < s.N THEN "nee"
                               ELSE IF s.X > 0 THEN "ja" ELSE "onbekend")
               /\ v.DecidingFlow = s.WorstFlow
<1> DEFINE flows == SovereigntyFlows(list)
           c == classifyFlows(flows)
<1>1. DOMAIN flows \in SUBSET ToSet(flowRules)
  BY DEF SovereigntyFlows, JudgedFlows
<1>2. IsFiniteSet(ToSet(flowRules))
  <2>1. flowRules \in [1..7 -> ToSet(flowRules)] /\ DOMAIN flowRules = 1..7
    BY DEF ToSet, flowRules
  <2>2. flowRules \in Surjection(1..7, ToSet(flowRules))
    BY <2>1 DEF Surjection, ToSet
  <2>3. 1 \in Int /\ 7 \in Int
    OBVIOUS
  <2>4. IsFiniteSet(1..7)
    BY <2>3, FS_Interval
  <2> QED
    BY <2>2, <2>4, FS_Surjection
<1>3. IsFiniteSet(DOMAIN flows)
  BY <1>1, <1>2, FS_Subset
<1> HIDE DEF flows
<1>4. \A S \in SUBSET DOMAIN flows : Cardinality(S) \in Nat
  BY <1>3, FS_Subset, FS_CardinalityType
<1>5. c.answered \in Nat /\ c.afhankelijk \in Nat
  <2>1. Scoring(flows, Afhankelijk) \in SUBSET DOMAIN flows
    BY DEF Scoring
  <2>2. (DOMAIN flows \ (Scoring(flows, Afhankelijk) \cup Scoring(flows, Onbekend)))
           \in SUBSET DOMAIN flows
    OBVIOUS
  <2> QED
    BY <1>4, <2>1, <2>2 DEF classifyFlows
<1> HIDE DEF c
<1>6. /\ BuildFleetScore(list).X = c.answered
      /\ BuildFleetScore(list).N = c.answered + c.afhankelijk
      /\ BuildFleetScore(list).WorstFlow = c.heaviest
  BY DEF BuildFleetScore, c, flows
<1>7. /\ BuildAnswerVerdict(list).DecidingFlow = c.heaviest
      /\ BuildAnswerVerdict(list).Verdict =
            IF c.afhankelijk > 0 THEN "nee"
            ELSE IF c.answered > 0 THEN "ja" ELSE "onbekend"
  BY DEF BuildAnswerVerdict, c, flows
<1> QED
  BY <1>5, <1>6, <1>7

\* The snapshot of a target: its newest scan, and of its wand verdicts the
\* newest one.
LEMMA SnapshotShows ==
    ASSUME FleetInv, NEW d \in Domains, Perimeter(d) # {}
    PROVE  LET j == Newest(Perimeter(d))
               s == TargetSnapshot(d)
               w == Of(assessed[j], "wand")
           IN  /\ j \in Perimeter(d) /\ j \in Jobs
               /\ s.target = d /\ s.status = scan[j].status
               /\ IsList(ListOf(s))
               /\ w = {} => Wands(ListOf(s)) = {}
               /\ w # {} => /\ Min(w) \in w /\ \A k \in w : Min(w) <= k
                            /\ Wands(ListOf(s)) = {assessed[j][Min(w)].rules}
<1> DEFINE j == Newest(Perimeter(d))
           s == TargetSnapshot(d)
           list == assessed[j]
           w == Of(list, "wand")
           fws == {list[k].framework : k \in DOMAIN list}
           f == [fw \in fws |-> list[Min(Of(list, fw))]]
           E == {f[fw] : fw \in fws}
<1>1. j \in Perimeter(d) /\ j \in Jobs
  <2>1. Perimeter(d) \in SUBSET Jobs
    BY DEF Perimeter
  <2> QED
    BY <2>1, NewestPicked
<1>2. /\ s.target = d /\ s.status = scan[j].status /\ s.assessments = f
  BY DEF TargetSnapshot, ListAssessmentsForScan
<1> HIDE DEF j, s
<1>3. list \in Seq(Judgements)
  BY <1>1 DEF FleetInv, TypeOK, TableTypeOK
<1>4. /\ DOMAIN list \in SUBSET Nat
      /\ \A k \in DOMAIN list : list[k].framework \in {"wand", "eucsf"}
  <2>1. \A a \in Judgements : a.framework \in {"wand", "eucsf"}
    BY FleetAssumption DEF Judgements
  <2> HIDE DEF list
  <2>2. DOMAIN list = 1..Len(list) /\ \A k \in 1..Len(list) : list[k] \in Judgements
    BY <1>3
  <2> QED
    BY <2>1, <2>2
<1>5. ASSUME NEW fw \in fws
      PROVE  /\ Min(Of(list, fw)) \in Of(list, fw)
             /\ \A k \in Of(list, fw) : Min(Of(list, fw)) <= k
  <2>1. Of(list, fw) \in SUBSET Nat /\ Of(list, fw) # {}
    BY <1>4 DEF Of
  <2> QED
    BY <2>1, LeastPicked
<1>6. \A fw \in fws : f[fw] = list[Min(Of(list, fw))] /\ f[fw].framework = fw
  BY <1>5 DEF Of
<1> HIDE DEF list
<1>7. IsFiniteSet(E)
  <2>1. E \in SUBSET ({f["wand"]} \cup {f["eucsf"]})
    BY <1>4
  <2> HIDE DEF E, f
  <2>2. IsFiniteSet({f["wand"]} \cup {f["eucsf"]})
    BY FS_Singleton, FS_AddElement
  <2> QED
    BY <2>1, <2>2, FS_Subset
<1>8. ListOf(s) = SetToSeq(E)
  BY <1>2 DEF ListOf
<1> DEFINE q == SetToSeq(E)
<1>9. /\ Cardinality(E) \in Nat /\ DOMAIN q = 1..Cardinality(E)
      /\ \A k \in DOMAIN q : q[k] \in E
      /\ \A x \in E : \E k \in DOMAIN q : q[k] = x
  <2> HIDE DEF E
  <2> QED
    BY <1>7, AllListed
<1> HIDE DEF q
<1>10. IsList(q)
  BY <1>9 DEF IsList
<1>11. "wand" \in fws <=> w # {}
  BY DEF Of
<1>12. \A x \in E : x.framework = "wand" => "wand" \in fws /\ x = f["wand"]
  <2> HIDE DEF f, fws
  <2> QED
    BY <1>6
<1> HIDE DEF f
<1>13. CASE w = {}
  <2>1. Wands(q) = {}
    BY <1>9, <1>11, <1>12, <1>13 DEF Wands
  <2> QED
    BY <1>1, <1>2, <1>8, <1>10, <1>13, <2>1 DEF j, s, list, q
<1>14. CASE w # {}
  <2>1. /\ "wand" \in fws /\ f["wand"] \in E /\ f["wand"].framework = "wand"
        /\ f["wand"] = list[Min(w)] /\ Min(w) \in w /\ \A k \in w : Min(w) <= k
    BY <1>5, <1>6, <1>11, <1>14
  <2> HIDE DEF E, fws, w
  <2>2. Wands(q) = {f["wand"].rules}
    BY <1>9, <1>12, <2>1 DEF Wands
  <2> QED
    BY <1>1, <1>2, <1>8, <1>10, <1>14, <2>1, <2>2 DEF j, s, list, q, w
<1> QED
  BY <1>13, <1>14

\* The row of a scanned domain on the door.
LEMMA DoorRow ==
    ASSUME FleetInv, NEW S \in SUBSET Domains, \A e \in S : Perimeter(e) # {},
           NEW d \in S, NEW rows,
           rows = {doorDomainView(TargetSnapshot(e)) : e \in S}
    PROVE  RowOf(d, rows) = doorDomainView(TargetSnapshot(d))
<1>1. \A e \in S : doorDomainView(TargetSnapshot(e)).target = e
  <2> TAKE e \in S
  <2>1. TargetSnapshot(e).target = e
    BY SnapshotShows
  <2> QED
    BY <2>1 DEF doorDomainView
<1>2. /\ doorDomainView(TargetSnapshot(d)) \in rows
      /\ \A r \in rows : r.target = d => r = doorDomainView(TargetSnapshot(d))
  BY <1>1
<1> QED
  BY <1>1, <1>2 DEF RowOf

\* A scan row that belongs to a domain has a target row and a status.
LEMMA PerimeterRows ==
    ASSUME FleetInv, NEW d \in Domains, NEW j \in Perimeter(d)
    PROVE  /\ j \in Jobs /\ scan[j].domain = d /\ target[d] # None
           /\ target[d] \in TargetRows
           /\ scan[j].status \in {"running", "complete", "partial", "failed"}
<1>1. j \in Jobs /\ scan[j].domain = d /\ d # None
  BY FleetAssumption DEF Perimeter
<1>2. target[d] # None
  BY <1>1 DEF FleetInv, RowInv
<1>3. target[d] \in TargetRows
  BY <1>2 DEF FleetInv, TypeOK, TableTypeOK
<1>4. scan[j] # NoScan
  BY <1>1 DEF NoScan
<1>5. scan[j].status # "none"
  BY <1>1, <1>4 DEF FleetInv, JobInv
<1>6. scan[j] \in ScanRows
  BY <1>1 DEF FleetInv, TypeOK, TableTypeOK
<1>7. scan[j].status \in {"none", "running", "complete", "partial", "failed"}
  BY <1>6 DEF ScanRows
<1> QED
  BY <1>1, <1>2, <1>3, <1>5, <1>7

\* A score is missing on the door only for a cause: the newest scan runs or
\* failed, or an error or a dead process left its row unfinished.
THEOREM HiddenScoreIsExplained == Spec => []HiddenScoreHasCause
<1>1. FleetInv => HiddenScoreHasCause
  <2> SUFFICES ASSUME FleetInv, NEW d \in Domains,
                      target[d] # None, ~target[d].removed,
                      NEW k \in Perimeter(d)
               PROVE  LET j == Newest(Perimeter(d))
                          row == RowOf(d, buildDoorDomains(buildSnapshots(None, TRUE)))
                      IN  \/ row.HasScore \/ scan[j].status = "failed"
                          \/ pc[j].at # "done" \/ j \in upset
    BY DEF HiddenScoreHasCause
  <2> DEFINE j == Newest(Perimeter(d))
             row == RowOf(d, buildDoorDomains(buildSnapshots(None, TRUE)))
  <2>1. d \in Selected(None, TRUE)
    BY DEF Selected
  <2>2. row = doorDomainView(TargetSnapshot(d))
    <3> DEFINE S == Selected(None, TRUE)
               rows == buildDoorDomains(buildSnapshots(None, TRUE))
    <3>1. S \in SUBSET Domains /\ \A e \in S : Perimeter(e) # {}
      BY DEF Selected
    <3>2. rows = {doorDomainView(TargetSnapshot(e)) : e \in S}
      BY DEF buildDoorDomains, buildSnapshots
    <3>3. d \in S
      BY <2>1
    <3> HIDE DEF S, rows
    <3>4. RowOf(d, rows) = doorDomainView(TargetSnapshot(d))
      BY <3>1, <3>2, <3>3, DoorRow
    <3> QED
      BY <3>4 DEF rows
  <2>3. j \in Perimeter(d) /\ TargetSnapshot(d).status = scan[j].status
    BY SnapshotShows
  <2> HIDE DEF j, row
  <2>4. row.HasScore <=> scan[j].status \in {"complete", "partial"}
    BY <2>2, <2>3 DEF doorDomainView, Voltooid
  <2>5. j \in Jobs /\ scan[j].status \in {"running", "complete", "partial", "failed"}
    BY <2>3, PerimeterRows
  <2>6. scan[j].status = "running" /\ j \notin upset => pc[j].at # "done"
    BY <2>5 DEF FleetInv, JobInv
  <2>7. \/ row.HasScore \/ scan[j].status = "failed"
        \/ pc[j].at # "done" \/ j \in upset
    BY <2>4, <2>5, <2>6
  <2> QED
    BY <2>7 DEF j, row
<1> QED
  BY <1>1, Invariance, PTL

\* A scan that was not judged twice has one wand verdict at most, the one
\* that the door shows.
LEMMA OneVerdict ==
    ASSUME FleetInv, NEW d \in Domains, Perimeter(d) # {},
           ~JudgedTwice(Newest(Perimeter(d)))
    PROVE  LET j == Newest(Perimeter(d))
           IN  /\ IsList(assessed[j])
               /\ Wands(assessed[j]) = Wands(ListOf(TargetSnapshot(d)))
               /\ \E rules : Wands(assessed[j]) \in {{}, {rules}}
<1> DEFINE j == Newest(Perimeter(d))
           list == assessed[j]
           w == Of(list, "wand")
           shown == Wands(ListOf(TargetSnapshot(d)))
<1>1. /\ j \in Jobs
      /\ w = {} => shown = {}
      /\ w # {} => Min(w) \in w /\ shown = {list[Min(w)].rules}
  BY SnapshotShows
<1>2. list \in Seq(Judgements)
  BY <1>1, SnapshotShows DEF FleetInv, TypeOK, TableTypeOK
<1>3. \A a, b \in ToSet(list) : a.framework = "wand" /\ b.framework = "wand"
         => a.rules = b.rules
  BY DEF JudgedTwice
<1> HIDE DEF j, list, shown
<1>4. IsList(list)
  BY <1>2 DEF IsList
<1>5. \A x, y \in w : list[x].rules = list[y].rules
  BY <1>3 DEF Of, ToSet
<1>6. Wands(list) = {list[k].rules : k \in w}
  BY DEF Wands, Of
<1> HIDE DEF w
<1>7. CASE w = {}
  <2>1. Wands(list) = {} /\ shown = {}
    BY <1>1, <1>6, <1>7
  <2> QED
    BY <1>4, <2>1 DEF j, list, shown
<1>8. CASE w # {}
  <2>1. Wands(list) = {list[Min(w)].rules} /\ shown = {list[Min(w)].rules}
    BY <1>1, <1>5, <1>6, <1>8
  <2> QED
    BY <1>4, <2>1 DEF j, list, shown
<1> QED
  BY <1>7, <1>8

\* Door and fleet page of an organisation list the same scanned domains, and
\* with the same score once the newest scan has finished, unless that scan has
\* two different verdicts.
THEOREM DoorAgreesWithFleet == Spec => []DoorAndFleetAgree
<1>1. ASSUME FleetInv, NEW org \in Orgs
      PROVE  {d \in Domains : target[d] = Row(org) /\ lastScanByTarget(d) # {}}
                = Selected(org, TRUE)
  <2>1. \A d \in Domains : lastScanByTarget(d) = Perimeter(d)
    BY DEF lastScanByTarget, Perimeter
  <2>2. org # None
    BY FleetAssumption
  <2>3. \A d \in Domains : Perimeter(d) # {} => target[d] \in TargetRows
    BY <1>1, PerimeterRows
  <2>4. \A row \in TargetRows : row = Row(org) <=> row.org = org /\ ~row.removed
    BY DEF TargetRows, Row
  <2> QED
    BY <2>1, <2>2, <2>3, <2>4 DEF Selected
<1>2. ASSUME FleetInv, NEW d \in Domains, Perimeter(d) # {}
      PROVE  /\ doorDomainView(TargetSnapshot(d)).target = d
             /\ fleetRow(d).target = d /\ fleetRow(d).hasScan
             /\ fleetRow(d).score = BuildFleetScore(assessed[Newest(Perimeter(d))])
  <2>1. TargetSnapshot(d).target = d
    BY <1>2, SnapshotShows
  <2>2. lastScanByTarget(d) = Perimeter(d)
    BY DEF lastScanByTarget, Perimeter
  <2> QED
    BY <1>2, <2>1, <2>2 DEF doorDomainView, fleetRow, ListAssessmentsForScan
<1>3. \A d : lastScanByTarget(d) = {} => ~fleetRow(d).hasScan /\ fleetRow(d).target = d
  BY DEF fleetRow
<1>4. ASSUME FleetInv, NEW d \in Domains, Perimeter(d) # {},
             doorDomainView(TargetSnapshot(d)).HasScore,
             ~JudgedTwice(Newest(Perimeter(d)))
      PROVE  doorDomainView(TargetSnapshot(d)).score = fleetRow(d).score
  <2>1. doorDomainView(TargetSnapshot(d)).score =
           BuildFleetScore(ListOf(TargetSnapshot(d)))
    BY <1>4 DEF doorDomainView
  <2>2. IsList(ListOf(TargetSnapshot(d)))
    BY <1>4, SnapshotShows
  <2>3. BuildFleetScore(assessed[Newest(Perimeter(d))]) =
           BuildFleetScore(ListOf(TargetSnapshot(d)))
    BY <1>4, <2>2, OneVerdict, SameScore
  <2> QED
    BY <1>2, <1>4, <2>1, <2>3
<1>5. FleetInv => DoorAndFleetAgree
  <2> SUFFICES ASSUME FleetInv, NEW org \in Orgs
               PROVE  LET door == renderDoor(org).Domains
                          fleet == {r \in fleetHandler(org) : r.hasScan}
                      IN  /\ {r.target : r \in door} = {r.target : r \in fleet}
                          /\ \A r \in door, q \in fleet :
                                r.target = q.target /\ r.HasScore =>
                                   \/ r.score = q.score
                                   \/ JudgedTwice(Newest(Perimeter(r.target)))
    BY DEF DoorAndFleetAgree
  <2> DEFINE door == renderDoor(org).Domains
             fleet == {r \in fleetHandler(org) : r.hasScan}
  <2>1. door = {doorDomainView(TargetSnapshot(d)) : d \in Selected(org, TRUE)}
    BY DEF renderDoor, buildDoorDomains, buildSnapshots
  <2>2. \A d \in Selected(org, TRUE) : d \in Domains /\ Perimeter(d) # {}
    BY DEF Selected
  <2>3. fleet = {fleetRow(d) : d \in Selected(org, TRUE)}
    <3>1. \A d \in Selected(org, TRUE) : d \in Domains /\ target[d] = Row(org)
      BY <1>1
    <3>2. \A d \in Domains : target[d] = Row(org) /\ fleetRow(d).hasScan
             => d \in Selected(org, TRUE)
      BY <1>1, <1>3
    <3>3. \A d \in Selected(org, TRUE) : fleetRow(d).hasScan
      BY <1>2, <2>2
    <3> QED
      BY <3>1, <3>2, <3>3 DEF fleetHandler
  <2> HIDE DEF door, fleet
  <2>4. \A d \in Selected(org, TRUE) :
           fleetRow(d).target = d /\ doorDomainView(TargetSnapshot(d)).target = d
    BY <1>2, <2>2
  <2>5. {r.target : r \in door} = {r.target : r \in fleet}
    <3> DEFINE S == Selected(org, TRUE)
    <3>1. /\ \A r \in door : r.target \in S
          /\ \A d \in S : \E r \in door : r.target = d
      BY <2>1, <2>4
    <3>2. /\ \A r \in fleet : r.target \in S
          /\ \A d \in S : \E r \in fleet : r.target = d
      BY <2>3, <2>4
    <3> HIDE DEF S
    <3> QED
      BY <3>1, <3>2
  <2>6. ASSUME NEW r \in door, NEW q \in fleet, r.target = q.target, r.HasScore
        PROVE  r.score = q.score \/ JudgedTwice(Newest(Perimeter(r.target)))
    <3>1. PICK d \in Selected(org, TRUE) : r = doorDomainView(TargetSnapshot(d))
      BY <2>1
    <3>2. r.target = d /\ q = fleetRow(d)
      BY <2>3, <2>4, <2>6, <3>1
    <3> QED
      BY <1>4, <2>2, <2>6, <3>1, <3>2
  <2> QED
    BY <2>5, <2>6 DEF door, fleet
<1> QED
  BY <1>5, Invariance, PTL

\* What the answer page assesses on the spot.
OnTheSpot(rules) == <<[framework |-> "wand", rules |-> rules]>>

LEMMA SpotList ==
    ASSUME NEW rules
    PROVE  IsList(OnTheSpot(rules)) /\ Wands(OnTheSpot(rules)) = {rules}
<1>1. DOMAIN OnTheSpot(rules) = 1..1
  BY DEF OnTheSpot
<1>2. /\ OnTheSpot(rules)[1].framework = "wand"
      /\ OnTheSpot(rules)[1].rules = rules
  BY DEF OnTheSpot
<1> QED
  BY <1>1, <1>2 DEF IsList, Wands

\* A scan that was assessed after its end: the newest wand verdict, which the
\* door shows, is the verdict on the stored findings.
LEMMA ShownIsStored ==
    ASSUME FleetInv, NEW d \in Domains, Perimeter(d) # {},
           NEW a \in ToSet(assessed[Newest(Perimeter(d))]),
           a.ended, a.framework = "wand"
    PROVE  Wands(ListOf(TargetSnapshot(d))) =
              {Says["wand"][found[Newest(Perimeter(d))]]}
<1> DEFINE j == Newest(Perimeter(d))
           list == assessed[j]
           w == Of(list, "wand")
           m == Min(w)
<1>1. PICK k \in DOMAIN list : list[k] = a
  BY DEF ToSet
<1>2. k \in w
  BY <1>1 DEF Of
<1>3. /\ j \in Jobs /\ m \in w /\ m <= k
      /\ Wands(ListOf(TargetSnapshot(d))) = {list[m].rules}
  BY <1>2, SnapshotShows
<1> HIDE DEF j, m
<1>4. list \in Seq(Judgements)
  BY <1>3 DEF FleetInv, TypeOK, TableTypeOK
<1>5. \A x \in DOMAIN list : list[x].ended =>
         /\ list[x].rules = Says[list[x].framework][found[j]]
         /\ \A i \in 1..x : list[i].ended
  BY <1>3 DEF FleetInv, SheetInv
<1> HIDE DEF list
<1>6. m \in DOMAIN list /\ list[m].framework = "wand" /\ m \in 1..k
  <2>1. m \in DOMAIN list /\ list[m].framework = "wand"
    BY <1>3 DEF Of
  <2>2. DOMAIN list = 1..Len(list) /\ Len(list) \in Nat
    BY <1>4
  <2> QED
    BY <1>1, <1>3, <2>1, <2>2
<1>7. list[m].ended
  BY <1>1, <1>5, <1>6
<1> QED
  BY <1>3, <1>5, <1>6, <1>7 DEF j

\* Door, answer page and assessment page speak with one voice about a finished
\* scan that was assessed after its end: the same score, a sentence that
\* agrees with it, and the same answer for every flow with evidence.
THEOREM AnswerAgreesWithDoor == Spec => []AnswerMatchesDoor
<1>1. FleetInv => AnswerMatchesDoor
  <2> SUFFICES ASSUME FleetInv, NEW d \in Domains, Perimeter(d) # {},
                      Finished(Newest(Perimeter(d))),
                      NEW a \in ToSet(assessed[Newest(Perimeter(d))]),
                      a.ended, a.framework = "wand"
               PROVE  LET j == Newest(Perimeter(d))
                          row == RowOf(d, buildDoorDomains(
                                            buildSnapshots(None, FALSE)))
                          page == answerHandler(j)
                      IN  /\ page.score = row.score
                          /\ page.verdict.Verdict =
                                (IF row.score.X < row.score.N THEN "nee"
                                 ELSE IF row.score.X > 0 THEN "ja" ELSE "onbekend")
                          /\ page.verdict.DecidingFlow = row.score.WorstFlow
                          /\ \A id \in DOMAIN assessmentHandler(j).FlowAnswers :
                               LET sheet == assessmentHandler(j).FlowAnswers[id]
                               IN  sheet.evidence # {} /\ ~JudgedTwice(j)
                                   => \A i \in DOMAIN flowRules : flowRules[i] = id =>
                                         /\ page.Flows[i].state = "beantwoord"
                                         /\ page.Flows[i].score = sheet.score
    BY DEF AnswerMatchesDoor
  <2> DEFINE j == Newest(Perimeter(d))
             row == RowOf(d, buildDoorDomains(buildSnapshots(None, FALSE)))
             page == answerHandler(j)
             rules == Says["wand"][found[j]]
             spot == OnTheSpot(rules)
             done == scan[j].status # "running"
             shown == ListOf(TargetSnapshot(d))
  <2>1. row = doorDomainView(TargetSnapshot(d))
    <3> DEFINE S == Selected(None, FALSE)
               rows == buildDoorDomains(buildSnapshots(None, FALSE))
    <3>1. S \in SUBSET Domains /\ (\A e \in S : Perimeter(e) # {}) /\ d \in S
      BY DEF Selected
    <3>2. rows = {doorDomainView(TargetSnapshot(e)) : e \in S}
      BY DEF buildDoorDomains, buildSnapshots
    <3> HIDE DEF S, rows
    <3>3. RowOf(d, rows) = doorDomainView(TargetSnapshot(d))
      BY <3>1, <3>2, DoorRow
    <3> QED
      BY <3>3 DEF rows
  <2>2. Wands(shown) = {rules}
    BY ShownIsStored
  <2>3. IsList(shown) /\ TargetSnapshot(d).status = scan[j].status
    BY SnapshotShows
  <2>4. row.score = BuildFleetScore(shown)
    <3>1. Voltooid(TargetSnapshot(d))
      BY <2>3 DEF Voltooid, Finished
    <3>2. doorDomainView(TargetSnapshot(d)).score = BuildFleetScore(shown)
      BY <3>1 DEF doorDomainView
    <3> HIDE DEF row
    <3> QED
      BY <2>1, <3>2
  <2>5. /\ page.score = BuildFleetScore(spot)
        /\ page.verdict = BuildAnswerVerdict(spot)
        /\ page.Flows = BuildFlowStates(spot, done)
    BY DEF answerHandler, OnTheSpot
  <2>6. ~JudgedTwice(j) => IsList(assessed[j]) /\ Wands(assessed[j]) = {rules}
    BY <2>2, OneVerdict
  <2>7. assessmentHandler(j).FlowAnswers = BuildFlowAnswers(assessed[j])
    BY DEF assessmentHandler, ListAssessmentsForScan
  <2> HIDE DEF row, page, shown
  <2>8. IsList(spot) /\ Wands(spot) = {rules}
    BY SpotList
  <2> HIDE DEF rules, spot, done
  <2>9. page.score = row.score
    BY <2>2, <2>3, <2>4, <2>5, <2>8, SameScore
  <2>10. /\ page.verdict.Verdict =
              (IF row.score.X < row.score.N THEN "nee"
               ELSE IF row.score.X > 0 THEN "ja" ELSE "onbekend")
         /\ page.verdict.DecidingFlow = row.score.WorstFlow
    <3>1. LET s == BuildFleetScore(spot)
              v == BuildAnswerVerdict(spot)
          IN  /\ v.Verdict = (IF s.X < s.N THEN "nee"
                              ELSE IF s.X > 0 THEN "ja" ELSE "onbekend")
              /\ v.DecidingFlow = s.WorstFlow
      BY VerdictOfScore
    <3> QED
      BY <2>5, <2>9, <3>1
  <2>11. ASSUME NEW id \in DOMAIN BuildFlowAnswers(assessed[j]),
                BuildFlowAnswers(assessed[j])[id].evidence # {}, ~JudgedTwice(j),
                NEW i \in DOMAIN flowRules, flowRules[i] = id
         PROVE  /\ page.Flows[i].state = "beantwoord"
                /\ page.Flows[i].score = BuildFlowAnswers(assessed[j])[id].score
    <3>1. id \in JudgedFlows(assessed[j])
      BY DEF BuildFlowAnswers
    <3> DEFINE res == byRule(assessed[j], id).res
    <3>2. /\ BuildFlowAnswers(assessed[j])[id].evidence = res.ev
          /\ BuildFlowAnswers(assessed[j])[id].score = RationaleScore(res)
      BY <3>1 DEF BuildFlowAnswers
    <3>3. Judged(assessed[j], id) # {}
      BY <3>1 DEF JudgedFlows
    <3>4. byRule(spot, id) = byRule(assessed[j], id) /\ Judged(spot, id) # {}
      BY <2>6, <2>8, <2>11, <3>3, FlowsOfOne
    <3> HIDE DEF res
    <3>5. byRule(spot, id).res = res /\ res.ev # {}
      BY <2>11, <3>2, <3>4 DEF res
    <3>6. /\ BuildFlowStates(spot, done)[i].state = "beantwoord"
          /\ BuildFlowStates(spot, done)[i].score = RationaleScore(res)
      BY <2>11, <3>4, <3>5 DEF BuildFlowStates
    <3> QED
      BY <2>5, <3>2, <3>6
  <2> QED
    BY <2>7, <2>9, <2>10, <2>11 DEF j, row, page
<1> QED
  BY <1>1, Invariance, PTL

----------------------------------------------------------------------------
(* The pages about many targets.                                           *)

\* A snapshot that buildSnapshots can return: a verdict per framework, the
\* wand verdict being what its flows are read from.
IsSnapshot(s) ==
    /\ DOMAIN s.assessments \subseteq DOMAIN Says
    /\ \A fw \in DOMAIN s.assessments :
          \E o \in Outcomes : s.assessments[fw].rules = Says[fw][o]
    /\ IsList(ListOf(s))
    /\ "wand" \notin DOMAIN s.assessments => Wands(ListOf(s)) = {}
    /\ "wand" \in DOMAIN s.assessments =>
          Wands(ListOf(s)) = {s.assessments["wand"].rules}

AreSnapshots(S) ==
    /\ IsFiniteSet(S)
    /\ \A s \in S : IsSnapshot(s)
    /\ \A s, t \in S : s.target = t.target => s = t

\* buildSnapshots returns such snapshots, one per target.
LEMMA SnapshotsBuilt ==
    ASSUME FleetInv, NEW S \in SUBSET Domains, \A d \in S : Perimeter(d) # {},
           NEW snaps, snaps = {TargetSnapshot(d) : d \in S}
    PROVE  AreSnapshots(snaps)
<1>1. ASSUME NEW d \in S PROVE TargetSnapshot(d).target = d
  BY <1>1, SnapshotShows
<1>2. ASSUME NEW d \in S PROVE IsSnapshot(TargetSnapshot(d))
  <2> DEFINE j == Newest(Perimeter(d))
             s == TargetSnapshot(d)
             list == assessed[j]
             w == Of(list, "wand")
             fws == {list[k].framework : k \in DOMAIN list}
             f == [fw \in fws |-> list[Min(Of(list, fw))]]
  <2>1. /\ j \in Jobs /\ IsList(ListOf(s))
        /\ w = {} => Wands(ListOf(s)) = {}
        /\ w # {} => Wands(ListOf(s)) = {list[Min(w)].rules}
    BY <1>2, SnapshotShows
  <2>2. s.assessments = f
    BY DEF TargetSnapshot, ListAssessmentsForScan
  <2>3. list \in Seq(Judgements)
    BY <2>1 DEF FleetInv, TypeOK, TableTypeOK
  <2> HIDE DEF j, s, list
  <2>4. /\ DOMAIN list \in SUBSET Nat
        /\ \A k \in DOMAIN list : list[k] \in Judgements
    <3>1. DOMAIN list = 1..Len(list) /\ \A k \in 1..Len(list) : list[k] \in Judgements
      BY <2>3
    <3> QED
      BY <3>1
  <2>5. \A a \in Judgements : /\ a.framework \in DOMAIN Says
                              /\ \E o \in Outcomes : a.rules = Says[a.framework][o]
    BY DEF Judgements
  <2>6. ASSUME NEW fw \in fws
        PROVE  /\ fw \in DOMAIN Says
               /\ \E o \in Outcomes : f[fw].rules = Says[fw][o]
    <3>1. Of(list, fw) \in SUBSET Nat /\ Of(list, fw) # {}
      BY <2>4 DEF Of
    <3>2. Min(Of(list, fw)) \in Of(list, fw)
      BY <3>1, LeastPicked
    <3>3. /\ f[fw] = list[Min(Of(list, fw))] /\ f[fw] \in Judgements
          /\ f[fw].framework = fw
      BY <2>4, <3>2 DEF Of
    <3> HIDE DEF f
    <3> QED
      BY <2>5, <3>3
  <2>7. "wand" \in fws <=> w # {}
    BY DEF Of
  <2>8. "wand" \in fws => f["wand"] = list[Min(w)]
    OBVIOUS
  <2>9. DOMAIN f = fws
    OBVIOUS
  <2> HIDE DEF f, fws, w
  <2>10. IsSnapshot(s)
    BY <2>1, <2>2, <2>6, <2>7, <2>8, <2>9 DEF IsSnapshot
  <2> QED
    BY <2>10 DEF s
<1>3. IsFiniteSet(snaps)
  <2> DEFINE v == [d \in S |-> TargetSnapshot(d)]
  <2>1. snaps = {v[d] : d \in S} /\ \A d, e \in S : v[d] = v[e] => d = e
    BY <1>1
  <2>2. IsFiniteSet(S)
    BY FleetAssumption, FS_Subset
  <2> HIDE DEF v
  <2> QED
    BY <2>1, <2>2, CountImages
<1> QED
  BY <1>1, <1>2, <1>3 DEF AreSnapshots

\* What the rules of a pack say of one outcome.
LEMMA RulesOfSnapshot ==
    ASSUME NEW s, IsSnapshot(s), NEW fw \in DOMAIN s.assessments
    PROVE  /\ JudgesOnce(s.assessments[fw].rules)
           /\ \A r \in s.assessments[fw].rules : <<fw, r.id>> \in ToSet(Order)
           /\ fw = "wand" => s.assessments[fw].rules # {}
<1>1. fw \in DOMAIN Says
  BY DEF IsSnapshot
<1>2. PICK o \in Outcomes : s.assessments[fw].rules = Says[fw][o]
  BY DEF IsSnapshot
<1> QED
  BY <1>1, <1>2, PackAssumption

\* The score a rationale shows is one of the four.
LEMMA RationaleScored ==
    ASSUME NEW rules, JudgesOnce(rules), NEW r \in rules
    PROVE  /\ RationaleScore(r.res) \in Scores
           /\ Rationale(rules, r.id) = r
<1>1. Rationale(rules, r.id) \in rules /\ Rationale(rules, r.id).id = r.id
  BY DEF Rationale
<1> QED
  BY <1>1 DEF JudgesOnce, RationaleScore, Scores

\* A flow of a snapshot is what its wand verdict has of it.
LEMMA FlowOfSnapshot ==
    ASSUME NEW s, IsSnapshot(s), NEW id
    PROVE  /\ Judged(ListOf(s), id) # {} <=>
                 /\ "wand" \in DOMAIN s.assessments
                 /\ \E r \in s.assessments["wand"].rules : r.id = id
           /\ Judged(ListOf(s), id) # {} =>
                 /\ byRule(ListOf(s), id) \in s.assessments["wand"].rules
                 /\ byRule(ListOf(s), id).id = id
                 /\ RationaleScore(byRule(ListOf(s), id).res) \in Scores
<1>1. CASE "wand" \notin DOMAIN s.assessments
  BY <1>1, FlowsOfNone DEF IsSnapshot
<1>2. CASE "wand" \in DOMAIN s.assessments
  <2> DEFINE rules == s.assessments["wand"].rules
             list == ListOf(s)
  <2>1. IsList(list) /\ Wands(list) = {rules}
    BY <1>2 DEF IsSnapshot
  <2>2. JudgesOnce(rules)
    BY <1>2, RulesOfSnapshot
  <2> HIDE DEF rules, list
  <2>3. /\ Judged(list, id) # {} <=> \E r \in rules : r.id = id
        /\ Judged(list, id) # {} => byRule(list, id) = Rationale(rules, id)
    BY <2>1, FlowsOfOne
  <2>4. ASSUME Judged(list, id) # {}
        PROVE  /\ byRule(list, id) \in rules /\ byRule(list, id).id = id
               /\ RationaleScore(byRule(list, id).res) \in Scores
    <3>1. PICK r \in rules : r.id = id
      BY <2>3, <2>4
    <3>2. RationaleScore(r.res) \in Scores /\ Rationale(rules, r.id) = r
      BY <2>2, RationaleScored
    <3> QED
      BY <2>3, <2>4, <3>1, <3>2
  <2> QED
    BY <1>2, <2>3, <2>4 DEF rules, list
<1> QED
  BY <1>1, <1>2

\* The seven flows are seven rules.
LEMMA FlowPlaces == DOMAIN flowRules = 1..7 /\ IsFiniteSet(DOMAIN flowRules)
<1>1. DOMAIN flowRules = 1..7
  BY DEF flowRules
<1>2. 1 \in Int /\ 7 \in Int
  OBVIOUS
<1> QED
  BY <1>1, <1>2, FS_Interval

LEMMA FlowNames ==
    /\ \A id \in ToSet(flowRules) : \E k \in DOMAIN flowRules : flowRules[k] = id
    /\ \A k \in DOMAIN flowRules : flowRules[k] \in ToSet(flowRules)
  BY DEF ToSet

LEMMA FlowsDistinct ==
    /\ \A i, k \in DOMAIN flowRules : flowRules[i] = flowRules[k] => i = k
    /\ \A k \in DOMAIN flowRules : flowRules[k] # ""
<1>1. \A i, k \in DOMAIN flowRules : flowRules[i] = flowRules[k] => i = k
  BY DEF flowRules
<1>2. /\ flowRules[1] # "" /\ flowRules[2] # "" /\ flowRules[3] # ""
      /\ flowRules[4] # "" /\ flowRules[5] # "" /\ flowRules[6] # ""
      /\ flowRules[7] # ""
  BY DEF flowRules
<1>3. \A k \in DOMAIN flowRules : \/ k = 1 \/ k = 2 \/ k = 3 \/ k = 4
                                  \/ k = 5 \/ k = 6 \/ k = 7
  BY FlowPlaces
<1>4. \A k \in DOMAIN flowRules : flowRules[k] # ""
  BY <1>2, <1>3, Zenon
<1> QED
  BY <1>1, <1>4

\* Every flow of the list that was judged has one of the four scores.
IsScored(list) == \A id \in JudgedFlows(list) : SovereigntyFlows(list)[id] \in Scores

\* The flows whose cell in the grid has one of these letters.
CellsOf(list, letters) ==
    {k \in DOMAIN flowRules : gridCellsForDomain(list)[k] \in letters}

\* What a cell of the grid says of its flow.
LEMMA CellOfFlow ==
    ASSUME NEW list, IsScored(list), NEW k \in DOMAIN flowRules
    PROVE  LET flows == SovereigntyFlows(list)
               cell == gridCellsForDomain(list)[k]
               id == flowRules[k]
           IN  /\ cell \in {"S", "V", "N", "?", "-"}
               /\ cell = "-" <=> id \notin DOMAIN flows
               /\ cell = "N" <=> id \in Scoring(flows, Afhankelijk)
               /\ cell = "?" <=> id \in Scoring(flows, Onbekend)
<1> DEFINE flows == SovereigntyFlows(list)
           cell == gridCellsForDomain(list)[k]
           id == flowRules[k]
           score == RationaleScore(byRule(list, id).res)
<1>1. id \in DOMAIN flows <=> Judged(list, id) # {}
  BY FlowNames DEF SovereigntyFlows, JudgedFlows
<1>2. id \in DOMAIN flows => flows[id] = score /\ score \in Scores
  BY DEF SovereigntyFlows, IsScored
<1>3. cell = IF Judged(list, id) = {} THEN "-"
             ELSE CASE score = Soeverein -> "S" [] score = Voldoende -> "V"
                    [] score = Afhankelijk -> "N" [] OTHER -> "?"
  BY DEF gridCellsForDomain
<1> HIDE DEF flows, cell, id, score
<1>4. CASE id \notin DOMAIN flows
  BY <1>1, <1>3, <1>4 DEF Scoring, flows, cell, id
<1>5. CASE id \in DOMAIN flows
  <2>1. cell = CASE score = Soeverein -> "S" [] score = Voldoende -> "V"
                 [] score = Afhankelijk -> "N" [] OTHER -> "?"
    BY <1>1, <1>3, <1>5
  <2>2. /\ cell \in {"S", "V", "N", "?"}
        /\ cell = "N" <=> score = Afhankelijk
        /\ cell = "?" <=> score = Onbekend
    BY <1>2, <1>5, <2>1 DEF Scores, Soeverein, Voldoende, Afhankelijk, Onbekend
  <2>3. \A x : id \in Scoring(flows, x) <=> score = x
    BY <1>2, <1>5 DEF Scoring
  <2> QED
    BY <1>5, <2>2, <2>3 DEF flows, cell, id
<1> QED
  BY <1>4, <1>5

\* The score of a domain counts the cells of its grid.
LEMMA GridCounts ==
    ASSUME NEW list, IsScored(list)
    PROVE  LET sc == BuildFleetScore(list)
           IN  /\ sc.X = Cardinality(CellsOf(list, {"S", "V"})) /\ sc.X \in Nat
               /\ sc.N = sc.X + Cardinality(CellsOf(list, {"N"})) /\ sc.N \in Nat
               /\ sc.Unanswered = Cardinality(CellsOf(list, {"?"}))
               /\ sc.Unanswered \in Nat
               /\ sc.WorstFlow # "" <=> CellsOf(list, {"N"}) # {}
<1> DEFINE flows == SovereigntyFlows(list)
           dependent == Scoring(flows, Afhankelijk)
           unknown == Scoring(flows, Onbekend)
           good == DOMAIN flows \ (dependent \cup unknown)
           places == {k \in DOMAIN flowRules : flowRules[k] \in dependent}
           sc == BuildFleetScore(list)
<1>1. DOMAIN flows \subseteq ToSet(flowRules)
  BY DEF SovereigntyFlows, JudgedFlows
<1>2. /\ sc.X = Cardinality(good)
      /\ sc.N = Cardinality(good) + Cardinality(dependent)
      /\ sc.Unanswered = Cardinality(unknown)
      /\ sc.WorstFlow = IF places = {} THEN "" ELSE flowRules[Min(places)]
  BY DEF BuildFleetScore, classifyFlows
<1>3. \A k \in DOMAIN flowRules :
         /\ gridCellsForDomain(list)[k] \in {"S", "V", "N", "?", "-"}
         /\ gridCellsForDomain(list)[k] = "-" <=> flowRules[k] \notin DOMAIN flows
         /\ gridCellsForDomain(list)[k] = "N" <=> flowRules[k] \in dependent
         /\ gridCellsForDomain(list)[k] = "?" <=> flowRules[k] \in unknown
  BY CellOfFlow
<1>4. dependent \subseteq DOMAIN flows /\ unknown \subseteq DOMAIN flows
  BY DEF Scoring
<1> HIDE DEF flows, dependent, unknown, sc
<1>5. /\ CellsOf(list, {"N"}) = places
      /\ CellsOf(list, {"?"}) = {k \in DOMAIN flowRules : flowRules[k] \in unknown}
      /\ CellsOf(list, {"S", "V"}) = {k \in DOMAIN flowRules : flowRules[k] \in good}
  BY <1>3, <1>4 DEF CellsOf
<1>6. ASSUME NEW D, D \subseteq DOMAIN flows
      PROVE  /\ Cardinality(D) \in Nat
             /\ Cardinality({k \in DOMAIN flowRules : flowRules[k] \in D}) = Cardinality(D)
  <2> DEFINE K == {k \in DOMAIN flowRules : flowRules[k] \in D}
  <2>1. D = {flowRules[k] : k \in K} /\ \A i, k \in K : flowRules[i] = flowRules[k] => i = k
    <3>1. D = {flowRules[k] : k \in K}
      BY <1>1, <1>6, FlowNames
    <3> QED
      BY <3>1, FlowsDistinct
  <2>2. IsFiniteSet(K)
    BY FlowPlaces, FS_Subset
  <2> HIDE DEF K
  <2>3. IsFiniteSet(D) /\ Cardinality(D) = Cardinality(K)
    BY <2>1, <2>2, CountImages
  <2> QED
    BY <2>3, FS_CardinalityType DEF K
<1>7. sc.WorstFlow # "" <=> places # {}
  <2>1. ASSUME places # {} PROVE flowRules[Min(places)] # ""
    <3>1. places \in SUBSET Nat /\ places \subseteq DOMAIN flowRules
      BY FlowPlaces
    <3> HIDE DEF places
    <3>2. Min(places) \in places
      BY <2>1, <3>1, LeastPicked
    <3> QED
      BY <3>1, <3>2, FlowsDistinct
  <2> HIDE DEF places
  <2> QED
    BY <1>2, <2>1
<1>8. /\ Cardinality(good) = Cardinality(CellsOf(list, {"S", "V"}))
      /\ Cardinality(dependent) = Cardinality(CellsOf(list, {"N"}))
      /\ Cardinality(unknown) = Cardinality(CellsOf(list, {"?"}))
      /\ Cardinality(good) \in Nat /\ Cardinality(dependent) \in Nat
      /\ Cardinality(unknown) \in Nat
  <2>1. good \subseteq DOMAIN flows
    OBVIOUS
  <2> HIDE DEF good
  <2> QED
    BY <1>4, <1>5, <1>6, <2>1 DEF places
<1> HIDE DEF good, places
<1>9. /\ sc.X = Cardinality(CellsOf(list, {"S", "V"})) /\ sc.X \in Nat
      /\ sc.N = sc.X + Cardinality(CellsOf(list, {"N"})) /\ sc.N \in Nat
      /\ sc.Unanswered = Cardinality(CellsOf(list, {"?"})) /\ sc.Unanswered \in Nat
  <2>1. /\ sc.X = Cardinality(good) /\ sc.Unanswered = Cardinality(unknown)
        /\ sc.N = Cardinality(good) + Cardinality(dependent)
    BY <1>2
  <2>2. sc.X \in Nat /\ sc.N \in Nat /\ sc.Unanswered \in Nat
    BY <1>8, <2>1
  <2>3. sc.X = Cardinality(CellsOf(list, {"S", "V"}))
    BY <1>8, <2>1, Zenon
  <2>4. sc.Unanswered = Cardinality(CellsOf(list, {"?"}))
    BY <1>8, <2>1, Zenon
  <2>5. sc.N = sc.X + Cardinality(CellsOf(list, {"N"}))
    BY <1>8, <2>1, Zenon
  <2> QED
    BY <2>2, <2>3, <2>4, <2>5
<1>10. sc.WorstFlow # "" <=> CellsOf(list, {"N"}) # {}
  BY <1>5, <1>7
<1> QED
  BY <1>9, <1>10 DEF sc

LEMMA SnapshotScored ==
    ASSUME NEW s, IsSnapshot(s)
    PROVE  IsScored(ListOf(s))
<1>1. \A id : Judged(ListOf(s), id) # {} =>
                RationaleScore(byRule(ListOf(s), id).res) \in Scores
  BY FlowOfSnapshot
<1> QED
  BY <1>1 DEF IsScored, SovereigntyFlows, JudgedFlows

\* The snapshots the door counts, and their rows.
ScoredOf(S) == {s \in S : Voltooid(s)}
ScoredRows(S) == {r \in buildDoorDomains(S) : r.HasScore}

\* A row stands for one snapshot.
LEMMA RowsCounted ==
    ASSUME NEW S, AreSnapshots(S), NEW T \in SUBSET S,
           NEW R, R = {doorDomainView(s) : s \in T}
    PROVE  IsFiniteSet(T) /\ Cardinality(T) \in Nat /\ Cardinality(R) = Cardinality(T)
<1> DEFINE v == [s \in T |-> doorDomainView(s)]
<1>1. \A s \in T : v[s].target = s.target
  BY DEF doorDomainView
<1>2. R = {v[s] : s \in T}
  OBVIOUS
<1>3. IsFiniteSet(T)
  BY FS_Subset DEF AreSnapshots
<1> HIDE DEF v
<1>4. \A s, t \in T : v[s] = v[t] => s = t
  BY <1>1 DEF AreSnapshots
<1> QED
  BY <1>2, <1>3, <1>4, CountImages, FS_CardinalityType

\* The rows with a score are those of the finished scans.
LEMMA RowsOfScored ==
    ASSUME NEW S
    PROVE  /\ ScoredRows(S) = {doorDomainView(s) : s \in ScoredOf(S)}
           /\ buildDoorDomains(S) \ ScoredRows(S) =
                 {doorDomainView(s) : s \in S \ ScoredOf(S)}
           /\ \A s \in ScoredOf(S) :
                 doorDomainView(s).Grid = gridCellsForDomain(ListOf(s))
<1>1. \A s : doorDomainView(s).HasScore = Voltooid(s)
  BY DEF doorDomainView
<1>2. \A s : Voltooid(s) \in BOOLEAN
  BY DEF Voltooid
<1>3. \A s \in ScoredOf(S) : doorDomainView(s).Grid = gridCellsForDomain(ListOf(s))
  BY DEF doorDomainView, ScoredOf
<1>4. ScoredRows(S) = {doorDomainView(s) : s \in ScoredOf(S)}
  BY <1>1, <1>2 DEF ScoredRows, ScoredOf, buildDoorDomains
<1>5. buildDoorDomains(S) \ ScoredRows(S) = {doorDomainView(s) : s \in S \ ScoredOf(S)}
  BY <1>1, <1>2 DEF ScoredRows, ScoredOf, buildDoorDomains
<1> QED
  BY <1>3, <1>4, <1>5

\* The snapshots with one of these letters for flow k.
Lettered(S, k, letters) ==
    {s \in ScoredOf(S) : gridCellsForDomain(ListOf(s))[k] \in letters}

\* Counting cells of rows is counting snapshots.
LEMMA CellsCounted ==
    ASSUME NEW S, AreSnapshots(S), NEW k, NEW letters
    PROVE  /\ Cells(ScoredRows(S), k, letters) = Cardinality(Lettered(S, k, letters))
           /\ IsFiniteSet(Lettered(S, k, letters))
           /\ Cardinality(Lettered(S, k, letters)) \in Nat
<1> DEFINE T == Lettered(S, k, letters)
           R == {r \in ScoredRows(S) : r.Grid[k] \in letters}
<1>1. T \in SUBSET S
  BY DEF Lettered, ScoredOf
<1>2. R = {doorDomainView(s) : s \in T}
  <2>1. /\ ScoredRows(S) = {doorDomainView(s) : s \in ScoredOf(S)}
        /\ \A s \in ScoredOf(S) :
              doorDomainView(s).Grid = gridCellsForDomain(ListOf(s))
    BY RowsOfScored
  <2> QED
    BY <2>1 DEF Lettered
<1>3. Cells(ScoredRows(S), k, letters) = Cardinality(R)
  BY DEF Cells
<1> HIDE DEF T, R
<1>4. IsFiniteSet(T) /\ Cardinality(T) \in Nat /\ Cardinality(R) = Cardinality(T)
  BY <1>1, <1>2, RowsCounted
<1> QED
  BY <1>3, <1>4 DEF T

\* The cells with these letters, counted by row and by column.
LEMMA SumOfCells ==
    ASSUME NEW S, AreSnapshots(S), NEW letters, NEW f, NEW g,
           f = [s \in ScoredOf(S) |-> Cardinality(CellsOf(ListOf(s), letters))],
           g = [k \in DOMAIN flowRules |-> Cells(ScoredRows(S), k, letters)]
    PROVE  SumFunction(f) = SumFunction(g) /\ SumFunction(f) \in Nat
<1> DEFINE K == DOMAIN flowRules
           M == {p \in ScoredOf(S) \X K :
                   gridCellsForDomain(ListOf(p[1]))[p[2]] \in letters}
<1>1. IsFiniteSet(ScoredOf(S)) /\ IsFiniteSet(K)
  BY FlowPlaces, FS_Subset DEF AreSnapshots, ScoredOf
<1>2. \A s \in ScoredOf(S), k \in K :
         <<s, k>> \in M <=> gridCellsForDomain(ListOf(s))[k] \in letters
  OBVIOUS
<1> HIDE DEF M
<1>3. ASSUME NEW s \in ScoredOf(S)
      PROVE  f[s] = Cardinality(InRow(K, M, s)) /\ f[s] \in Nat
  <2>1. InRow(K, M, s) = CellsOf(ListOf(s), letters)
    BY <1>2 DEF CellsOf, InRow
  <2>2. CellsOf(ListOf(s), letters) \subseteq K
    BY DEF CellsOf
  <2>3. Cardinality(CellsOf(ListOf(s), letters)) \in Nat
    BY <1>1, <2>2, FS_Subset, FS_CardinalityType
  <2> QED
    BY <2>1, <2>3
<1>4. ASSUME NEW k \in K PROVE g[k] = Cardinality(InCol(ScoredOf(S), M, k))
  <2>1. InCol(ScoredOf(S), M, k) = Lettered(S, k, letters)
    BY <1>2 DEF Lettered, InCol
  <2> QED
    BY <2>1, CellsCounted
<1> HIDE DEF K
<1>5. SumFunctionOnSet(f, ScoredOf(S)) = SumFunctionOnSet(g, K)
  <2>1. \A s \in ScoredOf(S) : f[s] = Cardinality(InRow(K, M, s))
    BY <1>3
  <2>2. \A k \in K : g[k] = Cardinality(InCol(ScoredOf(S), M, k))
    BY <1>4
  <2> QED
    BY <1>1, <2>1, <2>2, DoubleCount
<1>6. SumFunctionOnSet(f, ScoredOf(S)) \in Nat
  BY <1>1, <1>3, SumType
<1>7. DOMAIN f = ScoredOf(S) /\ DOMAIN g = K
  BY DEF K
<1> QED
  BY <1>5, <1>6, <1>7 DEF SumFunction

\* The cells of the whole grid with one of these letters.
GridSum(S, letters) ==
    SumFunction([k \in DOMAIN flowRules |-> Cells(ScoredRows(S), k, letters)])

\* The rows with a failing flow.
FailingRows(S) == {r \in ScoredRows(S) : \E k \in DOMAIN r.Grid : r.Grid[k] = "N"}

\* The fleet score is recounted from the grid.
LEMMA SummaryCounts ==
    ASSUME NEW S, AreSnapshots(S)
    PROVE  LET sum == BuildFleetSummary(S)
           IN  /\ sum.X = GridSum(S, {"S", "V"}) /\ sum.X \in Nat
               /\ sum.N = sum.X + GridSum(S, {"N"}) /\ GridSum(S, {"N"}) \in Nat
               /\ sum.Unanswered = GridSum(S, {"?"})
<1> DEFINE T == ScoredOf(S)
           Row0(L) == [s \in T |-> Cardinality(CellsOf(ListOf(s), L))]
           fx == [s \in T |-> BuildFleetScore(ListOf(s)).X]
           fn == [s \in T |-> BuildFleetScore(ListOf(s)).N]
           fu == [s \in T |-> BuildFleetScore(ListOf(s)).Unanswered]
           good == Row0({"S", "V"})
           bad == Row0({"N"})
           open == Row0({"?"})
           sum == BuildFleetSummary(S)
<1>1. /\ sum.X = SumFunction(fx) /\ sum.N = SumFunction(fn)
      /\ sum.Unanswered = SumFunction(fu)
  BY DEF BuildFleetSummary, ScoredOf
<1>2. ASSUME NEW s \in T
      PROVE  /\ fx[s] = good[s] /\ fx[s] \in Nat
             /\ fn[s] = good[s] + bad[s] /\ fu[s] = open[s] /\ bad[s] \in Nat
  <2>1. IsScored(ListOf(s))
    BY SnapshotScored DEF AreSnapshots, ScoredOf
  <2> DEFINE sc == BuildFleetScore(ListOf(s))
             n == Cardinality(CellsOf(ListOf(s), {"N"}))
  <2>2. /\ sc.X = Cardinality(CellsOf(ListOf(s), {"S", "V"})) /\ sc.X \in Nat
        /\ sc.N = sc.X + n
        /\ sc.Unanswered = Cardinality(CellsOf(ListOf(s), {"?"}))
    BY <2>1, GridCounts
  <2>3. n \in Nat
    <3>1. CellsOf(ListOf(s), {"N"}) \subseteq DOMAIN flowRules
      BY DEF CellsOf
    <3> QED
      BY <3>1, FlowPlaces, FS_Subset, FS_CardinalityType
  <2>4. /\ fx[s] = sc.X /\ fn[s] = sc.N /\ fu[s] = sc.Unanswered /\ bad[s] = n
        /\ good[s] = Cardinality(CellsOf(ListOf(s), {"S", "V"}))
        /\ open[s] = Cardinality(CellsOf(ListOf(s), {"?"}))
    OBVIOUS
  <2> HIDE DEF sc, n, fx, fn, fu, good, bad, open
  <2> QED
    BY <2>2, <2>3, <2>4
<1>3. fx = good /\ fu = open
  BY <1>2
<1>4. /\ SumFunction(good) = GridSum(S, {"S", "V"}) /\ SumFunction(good) \in Nat
      /\ SumFunction(bad) = GridSum(S, {"N"}) /\ SumFunction(bad) \in Nat
      /\ SumFunction(open) = GridSum(S, {"?"})
  BY SumOfCells DEF GridSum
<1>5. IsFiniteSet(T)
  BY FS_Subset DEF AreSnapshots, ScoredOf
<1>6. DOMAIN fx = T /\ DOMAIN fn = T /\ DOMAIN bad = T /\ DOMAIN good = T
  OBVIOUS
<1> HIDE DEF T, fx, fn, fu, good, bad, open, sum
<1>7. SumFunctionOnSet(fn, T) = SumFunctionOnSet(fx, T) + SumFunctionOnSet(bad, T)
  <2>1. \A s \in T : fx[s] \in Nat /\ bad[s] \in Nat /\ fn[s] = fx[s] + bad[s]
    BY <1>2
  <2> QED
    BY <1>5, <2>1, SumOfSums
<1>8. SumFunction(fn) = SumFunction(fx) + SumFunction(bad)
  BY <1>6, <1>7 DEF SumFunction
<1>9. /\ sum.X = GridSum(S, {"S", "V"}) /\ sum.X \in Nat
      /\ sum.Unanswered = GridSum(S, {"?"})
  BY <1>1, <1>3, <1>4, Zenon
<1>10. sum.N = sum.X + GridSum(S, {"N"}) /\ GridSum(S, {"N"}) \in Nat
  BY <1>1, <1>4, <1>8, Zenon
<1> QED
  BY <1>9, <1>10 DEF sum

\* The domains counted as failing, and as without a score, are the rows shown
\* as such.
LEMMA FailingCounted ==
    ASSUME NEW S, AreSnapshots(S)
    PROVE  /\ BuildFleetSummary(S).NotSovereign = Cardinality(FailingRows(S))
           /\ BuildFleetSummary(S).DomainsWithoutScan =
                 Cardinality(buildDoorDomains(S) \ ScoredRows(S))
<1> DEFINE T == ScoredOf(S)
           bad == {s \in T : BuildFleetScore(ListOf(s)).WorstFlow # ""}
<1>1. /\ BuildFleetSummary(S).NotSovereign = Cardinality(bad)
      /\ BuildFleetSummary(S).DomainsWithoutScan = Cardinality(S \ T)
  BY DEF BuildFleetSummary, ScoredOf
<1>2. /\ ScoredRows(S) = {doorDomainView(s) : s \in T}
      /\ buildDoorDomains(S) \ ScoredRows(S) = {doorDomainView(s) : s \in S \ T}
      /\ \A s \in T : doorDomainView(s).Grid = gridCellsForDomain(ListOf(s))
  BY RowsOfScored
<1>3. ASSUME NEW s \in T
      PROVE  BuildFleetScore(ListOf(s)).WorstFlow # "" <=>
               \E k \in DOMAIN doorDomainView(s).Grid : doorDomainView(s).Grid[k] = "N"
  <2>1. IsScored(ListOf(s))
    BY SnapshotScored DEF AreSnapshots, ScoredOf
  <2>2. BuildFleetScore(ListOf(s)).WorstFlow # "" <=> CellsOf(ListOf(s), {"N"}) # {}
    BY <2>1, GridCounts
  <2>3. DOMAIN gridCellsForDomain(ListOf(s)) = DOMAIN flowRules
    BY DEF gridCellsForDomain
  <2> QED
    BY <1>2, <2>2, <2>3 DEF CellsOf
<1>4. T \subseteq S
  BY DEF ScoredOf
<1> HIDE DEF T
<1>5. FailingRows(S) = {doorDomainView(s) : s \in bad}
  BY <1>2, <1>3 DEF FailingRows
<1>6. bad \in SUBSET S /\ S \ T \in SUBSET S
  BY <1>4
<1> HIDE DEF bad
<1>7. Cardinality(FailingRows(S)) = Cardinality(bad)
  BY <1>5, <1>6, RowsCounted
<1>8. Cardinality(buildDoorDomains(S) \ ScoredRows(S)) = Cardinality(S \ T)
  BY <1>2, <1>6, RowsCounted
<1> QED
  BY <1>1, <1>7, <1>8

\* The bar of a flow has the cells of its column.
LEMMA BarsCount ==
    ASSUME NEW S, AreSnapshots(S), NEW k \in DOMAIN flowRules, NEW bars,
           bars = BuildFlowBars(BuildFleetSummary(S).Flows),
           flowRules[k] \in DOMAIN bars
    PROVE  /\ bars[flowRules[k]].outside = Cells(ScoredRows(S), k, {"N"})
           /\ bars[flowRules[k]].inEEA = Cells(ScoredRows(S), k, {"S", "V"})
           /\ bars[flowRules[k]].unknown = Cells(ScoredRows(S), k, {"?"})
<1> DEFINE T == ScoredOf(S)
           id == flowRules[k]
           On == {s \in T : Judged(ListOf(s), id) # {}}
           At0(score) == {s \in On : FlowScore(s, id) = score}
           good == Lettered(S, k, {"S", "V"})
           bad == Lettered(S, k, {"N"})
           open == Lettered(S, k, {"?"})
           roll == SovereigntyFlowRollup(T)
<1>1. bars = BuildFlowBars(roll)
  BY DEF BuildFleetSummary, ScoredOf
<1>2. DOMAIN bars = DOMAIN roll
  BY <1>1 DEF BuildFlowBars
<1>3. /\ roll[id].Total = Cardinality(On)
      /\ roll[id].Afhankelijk = Cardinality(At0(Afhankelijk))
      /\ roll[id].Onbekend = Cardinality(At0(Onbekend))
  <2>1. id \in DOMAIN roll
    BY <1>2
  <2> QED
    BY <2>1 DEF SovereigntyFlowRollup
<1> HIDE DEF roll
<1>4. /\ bars[id].outside = roll[id].Afhankelijk
      /\ bars[id].unknown = roll[id].Onbekend
      /\ bars[id].inEEA = roll[id].Total - roll[id].Afhankelijk - roll[id].Onbekend
  BY <1>1, <1>2 DEF BuildFlowBars
<1>5. ASSUME NEW s \in T
      PROVE  LET cell == gridCellsForDomain(ListOf(s))[k]
             IN  /\ cell \in {"S", "V", "N", "?", "-"}
                 /\ cell = "-" <=> s \notin On
                 /\ cell = "N" <=> s \in At0(Afhankelijk)
                 /\ cell = "?" <=> s \in At0(Onbekend)
  <2> DEFINE list == ListOf(s)
             flows == SovereigntyFlows(list)
             cell == gridCellsForDomain(list)[k]
  <2>1. IsScored(list)
    BY SnapshotScored DEF AreSnapshots, ScoredOf
  <2>2. /\ cell \in {"S", "V", "N", "?", "-"}
        /\ cell = "-" <=> id \notin DOMAIN flows
        /\ cell = "N" <=> id \in Scoring(flows, Afhankelijk)
        /\ cell = "?" <=> id \in Scoring(flows, Onbekend)
    BY <2>1, CellOfFlow
  <2>3. id \in DOMAIN flows <=> s \in On
    BY FlowNames DEF SovereigntyFlows, JudgedFlows
  <2>4. id \in DOMAIN flows => flows[id] = FlowScore(s, id)
    BY DEF SovereigntyFlows, FlowScore
  <2> HIDE DEF cell, flows, On, id
  <2>5. \A x : id \in Scoring(flows, x) <=> s \in At0(x)
    BY <2>3, <2>4 DEF Scoring
  <2> QED
    BY <2>2, <2>3, <2>5 DEF cell
<1> HIDE DEF T, id
<1>6. At0(Afhankelijk) = bad /\ At0(Onbekend) = open
  BY <1>5 DEF Lettered, T
<1>7. On = good \cup (bad \cup open)
  BY <1>5 DEF Lettered, T
<1>8. good \cap (bad \cup open) = {} /\ bad \cap open = {}
  BY DEF Lettered
<1>9. IsFiniteSet(good) /\ IsFiniteSet(bad) /\ IsFiniteSet(open)
  BY CellsCounted
<1>10. /\ Cells(ScoredRows(S), k, {"S", "V"}) = Cardinality(good)
       /\ Cells(ScoredRows(S), k, {"N"}) = Cardinality(bad)
       /\ Cells(ScoredRows(S), k, {"?"}) = Cardinality(open)
  BY CellsCounted
<1> HIDE DEF On, At0, good, bad, open
<1>11. /\ Cardinality(bad \cup open) = Cardinality(bad) + Cardinality(open)
       /\ Cardinality(bad) \in Nat /\ Cardinality(open) \in Nat
       /\ IsFiniteSet(bad \cup open)
  BY <1>8, <1>9, CountParts, FS_Union
<1>12. /\ Cardinality(On) = Cardinality(good) + Cardinality(bad \cup open)
       /\ Cardinality(good) \in Nat
  BY <1>7, <1>8, <1>9, <1>11, CountParts
<1>13. bars[id].inEEA = Cardinality(good)
  BY <1>3, <1>4, <1>6, <1>11, <1>12
<1> QED
  BY <1>3, <1>4, <1>6, <1>10, <1>13 DEF id

\* The parts of TopConcerns, by name.
RefsOf(s) == UNION {{<<fw, r>> : r \in s.assessments[fw].rules} :
                      fw \in DOMAIN s.assessments}
TopicOf(ref) == concernTopic(ref[1], ref[2].id)
HitBy(S, t) == {s \in S : \E ref \in RefsOf(s) :
                  TopicOf(ref) = t /\ RationaleScore(ref[2].res) = Afhankelijk}
NamesOf(S, t) == {n \in {<<ref[1], ref[2].id>> : ref \in UNION {RefsOf(s) : s \in S}} :
                    concernTopic(n[1], n[2]) = t}
PrimaryOf(S, t) == CHOOSE n \in NamesOf(S, t) : \A m \in NamesOf(S, t) :
                     reportingFrameworkRank(n[1]) <= reportingFrameworkRank(m[1])
ConcernRow(S, t) ==
    [Rule |-> PrimaryOf(S, t), TargetCount |-> Cardinality(HitBy(S, t)),
     Total |-> Cardinality({s \in S : \E ref \in RefsOf(s) : TopicOf(ref) = t}),
     Frameworks |-> {n[1] : n \in NamesOf(S, t)}]
PlaceOf(row) == CHOOSE k \in DOMAIN Order : Order[k] = row.Rule
Beaten(a, b) == \/ a.TargetCount > b.TargetCount
                \/ a.TargetCount = b.TargetCount /\ PlaceOf(a) < PlaceOf(b)
Concerns(S) == {ConcernRow(S, t) : t \in
                  {u \in {TopicOf(ref) : ref \in UNION {RefsOf(s) : s \in S}} :
                     HitBy(S, u) # {}}}

LEMMA ConcernsUnfold ==
    ASSUME NEW S
    PROVE  TopConcerns(S, Order, 3) =
             {row \in Concerns(S) : Cardinality({o \in Concerns(S) : Beaten(o, row)}) < 3}
  BY Zenon DEF TopConcerns, RefsOf, TopicOf, HitBy, NamesOf, PrimaryOf, ConcernRow,
     PlaceOf, Beaten, Concerns

\* A rule that has a row names one that the alphabetical order has.
LEMMA ConcernPlaced ==
    ASSUME NEW S, AreSnapshots(S), NEW row \in Concerns(S)
    PROVE  /\ PlaceOf(row) \in 1..Len(Order)
           /\ row.TargetCount \in Nat /\ row.TargetCount <= Cardinality(S)
           /\ Cardinality(S) \in Nat
<1>1. PICK t \in {TopicOf(ref) : ref \in UNION {RefsOf(s) : s \in S}} :
         row = ConcernRow(S, t)
  BY DEF Concerns
<1>2. ASSUME NEW n \in NamesOf(S, t)
      PROVE  n \in ToSet(Order)
  <2>1. PICK s \in S : \E ref \in RefsOf(s) : n = <<ref[1], ref[2].id>>
    BY DEF NamesOf
  <2>2. PICK fw \in DOMAIN s.assessments : \E r \in s.assessments[fw].rules :
           n = <<fw, r.id>>
    BY <2>1 DEF RefsOf
  <2>3. IsSnapshot(s)
    BY DEF AreSnapshots
  <2> QED
    BY <2>2, <2>3, RulesOfSnapshot
<1>3. NamesOf(S, t) # {}
  <2>1. PICK ref \in UNION {RefsOf(s) : s \in S} : t = TopicOf(ref)
    OBVIOUS
  <2>2. <<ref[1], ref[2].id>> \in NamesOf(S, t)
    BY <2>1 DEF NamesOf, TopicOf
  <2> QED
    BY <2>2
<1>4. PrimaryOf(S, t) \in NamesOf(S, t)
  <2> DEFINE N == NamesOf(S, t)
             D == {reportingFrameworkRank(n[1]) : n \in N}
  <2>1. \A fw : reportingFrameworkRank(fw) \in Nat
    BY DEF reportingFrameworkRank
  <2>2. D \in SUBSET Nat /\ D # {}
    BY <1>3, <2>1
  <2>3. \A n \in N : reportingFrameworkRank(n[1]) \in D
    OBVIOUS
  <2>4. Min(D) \in D /\ \A y \in D : Min(D) <= y
    <3> HIDE DEF D
    <3> QED
      BY <2>2, LeastPicked
  <2>5. PICK n \in N : reportingFrameworkRank(n[1]) = Min(D)
    BY <2>4
  <2>6. \A m \in N : reportingFrameworkRank(n[1]) <= reportingFrameworkRank(m[1])
    <3> HIDE DEF D
    <3> QED
      BY <2>3, <2>4, <2>5
  <2> HIDE DEF N, D
  <2>7. \E x \in N : \A m \in N : reportingFrameworkRank(x[1]) <=
                                    reportingFrameworkRank(m[1])
    BY <2>6
  <2> QED
    BY <2>7, Zenon DEF PrimaryOf, N
<1>5. row.Rule \in ToSet(Order) /\ row.TargetCount = Cardinality(HitBy(S, t))
  BY <1>1, <1>2, <1>4 DEF ConcernRow
<1>6. PlaceOf(row) \in DOMAIN Order
  <2>1. \E k \in DOMAIN Order : Order[k] = row.Rule
    BY <1>5 DEF ToSet
  <2> QED
    BY <2>1, Zenon DEF PlaceOf
<1>7. DOMAIN Order = 1..Len(Order)
  BY PackAssumption
<1>8. HitBy(S, t) \subseteq S /\ IsFiniteSet(S)
  BY DEF HitBy, AreSnapshots
<1>9. /\ Cardinality(HitBy(S, t)) \in Nat /\ Cardinality(S) \in Nat
      /\ Cardinality(HitBy(S, t)) <= Cardinality(S)
  BY <1>8, FS_Subset, FS_CardinalityType
<1> QED
  BY <1>5, <1>6, <1>7, <1>9

\* A failing rule leaves a concern on the door: the row that costs the most
\* targets, and is the first of those, is beaten by none.
LEMMA ConcernShown ==
    ASSUME NEW S, AreSnapshots(S), NEW s \in S, NEW fw \in DOMAIN s.assessments,
           NEW r \in s.assessments[fw].rules, RationaleScore(r.res) = Afhankelijk
    PROVE  TopConcerns(S, Order, 3) # {}
<1> DEFINE All == Concerns(S)
           count == [row \in All |-> row.TargetCount]
           late == [row \in All |-> Len(Order) - PlaceOf(row)]
<1>1. All # {}
  <2> DEFINE ref == <<fw, r>>
  <2>1. ref \in RefsOf(s) /\ ref[2] = r
    BY DEF RefsOf
  <2> HIDE DEF ref
  <2>2. s \in HitBy(S, TopicOf(ref)) /\ ref \in UNION {RefsOf(x) : x \in S}
    BY <2>1 DEF HitBy
  <2>3. ConcernRow(S, TopicOf(ref)) \in All
    BY <2>2 DEF Concerns
  <2> QED
    BY <2>3
<1>2. /\ Cardinality(S) \in Nat /\ Len(Order) \in Nat
      /\ \A row \in All : /\ PlaceOf(row) \in 1..Len(Order) /\ row.TargetCount \in Nat
                          /\ row.TargetCount <= Cardinality(S)
  BY <1>1, ConcernPlaced, PackAssumption
<1>3. \A row \in All : /\ count[row] = row.TargetCount
                       /\ late[row] = Len(Order) - PlaceOf(row)
                       /\ late[row] \in Nat /\ late[row] <= Len(Order)
  BY <1>2
<1> HIDE DEF All, count, late
<1>4. PICK top \in All : \A row \in All : count[row] <= count[top]
  <2>1. \A row \in All : count[row] \in Nat /\ count[row] <= Cardinality(S)
    BY <1>2, <1>3
  <2> QED
    BY <1>1, <1>2, <2>1, LargestKey
<1> DEFINE Tied == {row \in All : count[row] = count[top]}
<1>5. PICK first \in Tied : \A row \in Tied : late[row] <= late[first]
  <2>1. Tied # {} /\ \A row \in Tied : late[row] \in Nat /\ late[row] <= Len(Order)
    BY <1>3
  <2> HIDE DEF Tied
  <2> QED
    BY <1>2, <2>1, LargestKey
<1>6. \A row \in All : ~Beaten(row, first)
  <2> SUFFICES ASSUME NEW row \in All PROVE ~Beaten(row, first)
    OBVIOUS
  <2>1. /\ first \in All /\ count[first] = count[top] /\ count[row] <= count[first]
        /\ row.TargetCount <= first.TargetCount
    BY <1>3, <1>4, <1>5
  <2>2. row.TargetCount = first.TargetCount => PlaceOf(first) <= PlaceOf(row)
    <3> SUFFICES ASSUME row.TargetCount = first.TargetCount
                 PROVE  PlaceOf(first) <= PlaceOf(row)
      OBVIOUS
    <3>1. row \in Tied
      BY <1>3, <2>1
    <3>2. late[row] <= late[first]
      BY <1>5, <3>1
    <3>3. /\ late[row] = Len(Order) - PlaceOf(row)
          /\ late[first] = Len(Order) - PlaceOf(first)
          /\ PlaceOf(row) \in Nat /\ PlaceOf(first) \in Nat /\ Len(Order) \in Nat
      BY <1>2, <1>3, <2>1
    <3> QED
      BY <3>2, <3>3
  <2>3. /\ row.TargetCount \in Nat /\ first.TargetCount \in Nat
        /\ PlaceOf(row) \in Nat /\ PlaceOf(first) \in Nat
    BY <1>2, <2>1
  <2> QED
    BY <2>1, <2>2, <2>3 DEF Beaten
<1>7. {o \in All : Beaten(o, first)} = {} /\ first \in All
  BY <1>5, <1>6
<1>8. Cardinality({o \in All : Beaten(o, first)}) < 3
  BY <1>7, FS_EmptySet
<1> QED
  BY <1>7, <1>8, ConcernsUnfold DEF All

\* A failing row stands for a snapshot with a failing rule.
LEMMA FailingHasConcern ==
    ASSUME NEW S, AreSnapshots(S), FailingRows(S) # {}
    PROVE  TopConcerns(ScoredOf(S), Order, 3) # {}
<1>1. /\ ScoredRows(S) = {doorDomainView(s) : s \in ScoredOf(S)}
      /\ \A s \in ScoredOf(S) : doorDomainView(s).Grid = gridCellsForDomain(ListOf(s))
  BY RowsOfScored
<1>2. PICK s \in ScoredOf(S) : \E k \in DOMAIN doorDomainView(s).Grid :
         doorDomainView(s).Grid[k] = "N"
  BY <1>1 DEF FailingRows
<1>3. DOMAIN gridCellsForDomain(ListOf(s)) = DOMAIN flowRules
  BY DEF gridCellsForDomain
<1>4. PICK k \in DOMAIN flowRules : gridCellsForDomain(ListOf(s))[k] = "N"
  BY <1>1, <1>2, <1>3
<1>5. IsSnapshot(s)
  BY DEF AreSnapshots, ScoredOf
<1> DEFINE id == flowRules[k]
           flows == SovereigntyFlows(ListOf(s))
           r == byRule(ListOf(s), id)
<1>6. id \in DOMAIN flows /\ flows[id] = Afhankelijk
  <2>1. IsScored(ListOf(s))
    BY <1>5, SnapshotScored
  <2>2. id \in Scoring(flows, Afhankelijk)
    BY <1>4, <2>1, CellOfFlow
  <2> QED
    BY <2>2 DEF Scoring
<1>7. Judged(ListOf(s), id) # {} /\ RationaleScore(r.res) = Afhankelijk
  BY <1>6 DEF SovereigntyFlows, JudgedFlows
<1>8. "wand" \in DOMAIN s.assessments /\ r \in s.assessments["wand"].rules
  BY <1>5, <1>7, FlowOfSnapshot
<1>9. AreSnapshots(ScoredOf(S))
  BY FS_Subset DEF AreSnapshots, ScoredOf
<1> HIDE DEF id, flows, r
<1> QED
  BY <1>7, <1>8, <1>9, ConcernShown

\* The door of every organisation can be recounted.
LEMMA DoorRecounted == FleetInv => DoorAddsUp
<1> SUFFICES ASSUME FleetInv, NEW org \in Orgs
             PROVE  LET door == renderDoor(org)
                        scored == {r \in door.Domains : r.HasScore}
                        failing == {r \in scored : \E k \in DOMAIN r.Grid : r.Grid[k] = "N"}
                    IN  /\ door.summary.X =
                             SumFunction([k \in DOMAIN flowRules |->
                                            Cells(scored, k, {"S", "V"})])
                        /\ door.Ring.afhankelijk =
                             SumFunction([k \in DOMAIN flowRules |->
                                            Cells(scored, k, {"N"})])
                        /\ door.Ring.onbekend =
                             SumFunction([k \in DOMAIN flowRules |->
                                            Cells(scored, k, {"?"})])
                        /\ door.summary.NotSovereign = Cardinality(failing)
                        /\ door.summary.DomainsWithoutScan =
                             Cardinality(door.Domains \ scored)
                        /\ failing # {} => door.TopRules # {}
                        /\ \A k \in DOMAIN flowRules :
                             flowRules[k] \in DOMAIN door.FlowBars =>
                               LET bar == door.FlowBars[flowRules[k]]
                               IN  /\ bar.outside = Cells(scored, k, {"N"})
                                   /\ bar.inEEA = Cells(scored, k, {"S", "V"})
                                   /\ bar.unknown = Cells(scored, k, {"?"})
  BY DEF DoorAddsUp
<1> DEFINE S == buildSnapshots(org, TRUE)
           door == renderDoor(org)
           sum == BuildFleetSummary(S)
           scored == {r \in door.Domains : r.HasScore}
           failing == {r \in scored : \E k \in DOMAIN r.Grid : r.Grid[k] = "N"}
<1>1. AreSnapshots(S)
  <2>1. /\ Selected(org, TRUE) \in SUBSET Domains
        /\ \A d \in Selected(org, TRUE) : Perimeter(d) # {}
    BY DEF Selected
  <2>2. S = {TargetSnapshot(d) : d \in Selected(org, TRUE)}
    BY DEF buildSnapshots
  <2> HIDE DEF S
  <2> QED
    BY <2>1, <2>2, SnapshotsBuilt
<1>2. /\ door.summary = sum
      /\ door.Ring = BuildFleetRing(sum.X, sum.N, sum.Unanswered)
      /\ door.FlowBars = BuildFlowBars(sum.Flows)
      /\ door.TopRules = TopConcerns(ScoredOf(S), Order, 3)
      /\ door.Domains = buildDoorDomains(S)
  BY DEF renderDoor, ScoredOf
<1> HIDE DEF S, door, sum
<1>3. scored = ScoredRows(S) /\ failing = FailingRows(S)
  BY <1>2 DEF ScoredRows, FailingRows
<1> HIDE DEF scored, failing
<1>4. /\ sum.X = GridSum(S, {"S", "V"}) /\ sum.X \in Nat
      /\ sum.N = sum.X + GridSum(S, {"N"}) /\ GridSum(S, {"N"}) \in Nat
      /\ sum.Unanswered = GridSum(S, {"?"})
  BY <1>1, SummaryCounts DEF sum
<1>5. /\ door.Ring.afhankelijk = GridSum(S, {"N"})
      /\ door.Ring.onbekend = GridSum(S, {"?"})
  <2>1. /\ door.Ring.afhankelijk = sum.N - sum.X
        /\ door.Ring.onbekend = sum.Unanswered
    BY <1>2 DEF BuildFleetRing
  <2>2. sum.N - sum.X = GridSum(S, {"N"})
    BY <1>4
  <2> QED
    BY <1>4, <2>1, <2>2, Zenon
<1>6. /\ door.summary.NotSovereign = Cardinality(failing)
      /\ door.summary.DomainsWithoutScan = Cardinality(door.Domains \ scored)
  BY <1>1, <1>2, <1>3, FailingCounted DEF sum
<1>7. failing # {} => door.TopRules # {}
  BY <1>1, <1>2, <1>3, FailingHasConcern
<1>8. ASSUME NEW k \in DOMAIN flowRules, flowRules[k] \in DOMAIN door.FlowBars
      PROVE  /\ door.FlowBars[flowRules[k]].outside = Cells(scored, k, {"N"})
             /\ door.FlowBars[flowRules[k]].inEEA = Cells(scored, k, {"S", "V"})
             /\ door.FlowBars[flowRules[k]].unknown = Cells(scored, k, {"?"})
  BY <1>1, <1>2, <1>3, <1>8, BarsCount DEF sum
<1>9. \A L : GridSum(S, L) = SumFunction([k \in DOMAIN flowRules |-> Cells(scored, k, L)])
  BY <1>3 DEF GridSum
<1>10. /\ door.summary.X =
            SumFunction([k \in DOMAIN flowRules |-> Cells(scored, k, {"S", "V"})])
       /\ door.Ring.afhankelijk =
            SumFunction([k \in DOMAIN flowRules |-> Cells(scored, k, {"N"})])
       /\ door.Ring.onbekend =
            SumFunction([k \in DOMAIN flowRules |-> Cells(scored, k, {"?"})])
  <2>1. door.summary.X = GridSum(S, {"S", "V"})
    BY <1>2, <1>4
  <2> QED
    BY <1>5, <1>9, <2>1, Zenon
<1> QED
  BY <1>6, <1>7, <1>8, <1>10, Zenon DEF door, scored, failing

----------------------------------------------------------------------------
(* Trends.                                                                 *)

\* The scale of four, with unknown lowest.
LEMMA RankScale ==
    /\ \A x : Rank(x) \in Nat /\ Rank(x) <= 3
    /\ \A x \in Scores : Rank(x) = 0 <=> x = Onbekend
    /\ \A x, y \in Scores : Rank(x) = Rank(y) => x = y
    /\ Rank(Onbekend) = 0 /\ Rank(Afhankelijk) = 1
    /\ Onbekend \in Scores /\ Afhankelijk \in Scores
<1>1. \A x : Rank(x) \in Nat /\ Rank(x) <= 3
  BY DEF Rank
<1>2. /\ Rank(Soeverein) = 3 /\ Rank(Voldoende) = 2 /\ Rank(Afhankelijk) = 1
      /\ Rank(Onbekend) = 0
  BY DEF Rank, Soeverein, Voldoende, Afhankelijk, Onbekend
<1> QED
  BY <1>1, <1>2 DEF Scores

\* Something is scored worst.
LEMMA WorstExists ==
    ASSUME NEW S, S # {}, NEW f
    PROVE  \E s \in S : \A u \in S : Rank(f[s]) <= Rank(f[u])
<1> DEFINE D == {Rank(f[s]) : s \in S}
<1>1. D \in SUBSET Nat /\ D # {}
  BY RankScale
<1>2. \A s \in S : Rank(f[s]) \in D
  OBVIOUS
<1>3. Min(D) \in D /\ \A y \in D : Min(D) <= y
  <2> HIDE DEF D
  <2> QED
    BY <1>1, LeastPicked
<1>4. PICK s \in S : Rank(f[s]) = Min(D)
  BY <1>3
<1> HIDE DEF D
<1> QED
  BY <1>2, <1>3, <1>4

\* The score of a dimension is the worst its evidence has.
LEMMA WorstPicked ==
    ASSUME NEW E, E # {}
    PROVE  /\ \E r \in E : Worst(E) = r.res.score
           /\ \A q \in E : Rank(Worst(E)) <= Rank(q.res.score)
<1> DEFINE f == [r \in E |-> r.res.score]
           w == CHOOSE r \in E : \A q \in E : Rank(r.res.score) <= Rank(q.res.score)
<1>1. \A r \in E : f[r] = r.res.score
  OBVIOUS
<1> HIDE DEF f
<1>2. \E r \in E : \A q \in E : Rank(f[r]) <= Rank(f[q])
  BY WorstExists
<1>3. \E r \in E : \A q \in E : Rank(r.res.score) <= Rank(q.res.score)
  BY <1>1, <1>2
<1>4. w \in E /\ \A q \in E : Rank(w.res.score) <= Rank(q.res.score)
  BY <1>3, Zenon
<1>5. Worst(E) = w.res.score
  BY DEF Worst
<1> HIDE DEF w
<1> QED
  BY <1>4, <1>5

LEMMA DimensionScored ==
    ASSUME NEW rules, JudgesOnce(rules), NEW dim
    PROVE  scoreDimension(rules, dim).score \in Scores
<1> DEFINE E == Evidenced(OfDim(rules, dim))
<1>1. scoreDimension(rules, dim).score = IF E = {} THEN Onbekend ELSE Worst(E)
  BY DEF scoreDimension
<1>2. E \subseteq rules
  BY DEF Evidenced, Counted, OfDim
<1>3. E # {} => Worst(E) \in Scores
  <2> HIDE DEF E
  <2> SUFFICES ASSUME E # {} PROVE Worst(E) \in Scores
    OBVIOUS
  <2>1. PICK r \in E : Worst(E) = r.res.score
    BY WorstPicked
  <2> QED
    BY <1>2, <2>1 DEF JudgesOnce
<1> HIDE DEF E
<1> QED
  BY <1>1, <1>3, RankScale

\* The worst score that some dimension has.
IsWorstOf(v, dims) ==
    /\ v \in Scores
    /\ \A d \in DOMAIN dims : Rank(dims[d].score) > 0 =>
          Rank(v) > 0 /\ Rank(v) <= Rank(dims[d].score)
    /\ v # Onbekend => \E d \in DOMAIN dims : v = dims[d].score

LEMMA OneWorst ==
    ASSUME NEW dims, NEW v, NEW w, IsWorstOf(v, dims), IsWorstOf(w, dims)
    PROVE  v = w
<1>1. ASSUME NEW a, NEW b, IsWorstOf(a, dims), IsWorstOf(b, dims), a # Onbekend
      PROVE  b # Onbekend /\ Rank(b) <= Rank(a)
  <2>1. PICK d \in DOMAIN dims : a = dims[d].score
    BY <1>1 DEF IsWorstOf
  <2>2. Rank(a) \in Nat /\ Rank(a) > 0
    BY <1>1, RankScale DEF IsWorstOf
  <2>3. Rank(b) > 0 /\ Rank(b) <= Rank(a)
    BY <1>1, <2>1, <2>2 DEF IsWorstOf
  <2> QED
    BY <2>3, RankScale
<1>2. v \in Scores /\ w \in Scores /\ Rank(v) \in Nat /\ Rank(w) \in Nat
  BY RankScale DEF IsWorstOf
<1>3. CASE v = Onbekend
  BY <1>1, <1>3
<1>4. CASE v # Onbekend
  <2>1. w # Onbekend /\ Rank(w) <= Rank(v)
    BY <1>1, <1>4
  <2>2. Rank(v) <= Rank(w)
    BY <1>1, <2>1
  <2>3. Rank(v) = Rank(w)
    BY <1>2, <2>1, <2>2
  <2> QED
    BY <1>2, <2>3, RankScale
<1> QED
  BY <1>3, <1>4

\* Both pages take the worst.
LEMMA VerdictIsWorst ==
    ASSUME NEW dims, \A d \in DOMAIN dims : dims[d].score \in Scores
    PROVE  IsWorstOf(WorstScoreCovering(dims).score, dims)
<1> DEFINE covered == {d \in DOMAIN dims : Rank(dims[d].score) > 0}
           w == CHOOSE d \in covered : \A e \in covered :
                  Rank(dims[d].score) <= Rank(dims[e].score)
           f == [d \in covered |-> dims[d].score]
           v == WorstScoreCovering(dims).score
<1>1. v = IF covered = {} THEN Onbekend ELSE dims[w].score
  BY DEF WorstScoreCovering
<1>2. CASE covered = {}
  <2> HIDE DEF w, v
  <2>1. v = Onbekend
    BY <1>1, <1>2
  <2> QED
    BY <1>2, <2>1, RankScale DEF IsWorstOf, v
<1>3. CASE covered # {}
  <2>1. \A d \in covered : f[d] = dims[d].score
    OBVIOUS
  <2>2. \E d \in covered : \A e \in covered : Rank(f[d]) <= Rank(f[e])
    <3> HIDE DEF f, covered
    <3> QED
      BY <1>3, WorstExists
  <2>3. \E d \in covered : \A e \in covered : Rank(dims[d].score) <= Rank(dims[e].score)
    <3> HIDE DEF f, covered
    <3> QED
      BY <2>1, <2>2
  <2>4. w \in covered /\ \A e \in covered : Rank(dims[w].score) <= Rank(dims[e].score)
    BY <2>3, Zenon
  <2> HIDE DEF w, v
  <2>5. v = dims[w].score
    BY <1>1, <1>3
  <2> QED
    BY <2>4, <2>5 DEF IsWorstOf, v
<1> QED
  BY <1>2, <1>3

LEMMA ListedIsWorst ==
    ASSUME NEW assessments, NEW fw \in DOMAIN assessments, NEW dims,
           dims = Dims(assessments[fw]),
           \A d \in DOMAIN dims : dims[d].score \in Scores
    PROVE  IsWorstOf(lastAssessmentsForScan(assessments)[fw], dims)
<1> DEFINE ranked == {dims[d].score : d \in DOMAIN dims} \ {Onbekend}
           w == CHOOSE x \in ranked : \A k \in ranked : Rank(x) <= Rank(k)
           f == [x \in ranked |-> x]
           v == lastAssessmentsForScan(assessments)[fw]
<1>1. v = IF ranked = {} THEN Onbekend ELSE w
  BY DEF lastAssessmentsForScan
<1>2. \A d \in DOMAIN dims : Rank(dims[d].score) > 0 => dims[d].score \in ranked
  BY RankScale
<1>3. \A x \in ranked : x \in Scores /\ Rank(x) \in Nat /\ Rank(x) > 0
  BY RankScale
<1>4. \A x \in ranked : \E d \in DOMAIN dims : x = dims[d].score
  OBVIOUS
<1>5. \A x \in ranked : f[x] = x
  OBVIOUS
<1> HIDE DEF ranked, f
<1>6. CASE ranked = {}
  <2> HIDE DEF w, v
  <2>1. v = Onbekend
    BY <1>1, <1>6
  <2> QED
    BY <1>2, <1>6, <2>1, RankScale DEF IsWorstOf, v
<1>7. CASE ranked # {}
  <2>1. \E x \in ranked : \A k \in ranked : Rank(f[x]) <= Rank(f[k])
    BY <1>7, WorstExists
  <2>2. \E x \in ranked : \A k \in ranked : Rank(x) <= Rank(k)
    BY <1>5, <2>1
  <2>3. w \in ranked /\ \A k \in ranked : Rank(w) <= Rank(k)
    BY <2>2, Zenon
  <2> HIDE DEF w, v
  <2>4. v = w
    BY <1>1, <1>7
  <2> QED
    BY <1>2, <1>3, <1>4, <2>3, <2>4 DEF IsWorstOf, v
<1> QED
  BY <1>6, <1>7

\* The dimensions of a verdict have scores, and wand has some.
LEMMA DimsScored ==
    ASSUME NEW s, IsSnapshot(s), NEW fw \in DOMAIN s.assessments
    PROVE  LET dims == Dims(s.assessments[fw])
           IN  /\ \A d \in DOMAIN dims : dims[d].score \in Scores
               /\ fw = "wand" => dims # <<>>
<1> DEFINE rules == s.assessments[fw].rules
           dims == Dims(s.assessments[fw])
<1>1. JudgesOnce(rules) /\ (fw = "wand" => rules # {})
  BY RulesOfSnapshot
<1>2. /\ DOMAIN dims = {r.dim : r \in rules}
      /\ \A d \in DOMAIN dims : dims[d] = scoreDimension(rules, d)
  BY DEF Dims
<1> HIDE DEF dims, rules
<1>3. \A d \in DOMAIN dims : dims[d].score \in Scores
  BY <1>1, <1>2, DimensionScored
<1>4. ASSUME fw = "wand" PROVE dims # <<>>
  <2>1. DOMAIN dims # {}
    BY <1>1, <1>2, <1>4
  <2>2. DOMAIN <<>> = {}
    OBVIOUS
  <2> QED
    BY <2>1, <2>2
<1> QED
  BY <1>3, <1>4 DEF dims

\* Trends and the target list show the same verdict.
LEMMA SameVerdict ==
    ASSUME NEW s, IsSnapshot(s), NEW fw \in DOMAIN s.assessments
    PROVE  /\ lastAssessmentsForScan(s.assessments)[fw] =
                WorstScoreCovering(Dims(s.assessments[fw])).score
           /\ WorstScoreCovering(Dims(s.assessments[fw])).score \in Scores
<1> DEFINE dims == Dims(s.assessments[fw])
<1>1. \A d \in DOMAIN dims : dims[d].score \in Scores
  BY DimsScored
<1>2. IsWorstOf(WorstScoreCovering(dims).score, dims)
  BY <1>1, VerdictIsWorst
<1>3. IsWorstOf(lastAssessmentsForScan(s.assessments)[fw], dims)
  BY <1>1, ListedIsWorst
<1> HIDE DEF dims
<1>4. lastAssessmentsForScan(s.assessments)[fw] = WorstScoreCovering(dims).score
  BY <1>2, <1>3, OneWorst
<1>5. WorstScoreCovering(dims).score \in Scores
  BY <1>2 DEF IsWorstOf
<1> QED
  BY <1>4, <1>5 DEF dims

\* A target with a wand verdict is shown by it.
LEMMA FleetRowShows ==
    ASSUME NEW S, AreSnapshots(S), NEW r \in buildFleetRows(S), NEW s \in S,
           s.target = r.target, "wand" \in DOMAIN s.assessments
    PROVE  /\ r.verdict = WorstScoreCovering(Dims(s.assessments["wand"])).score
           /\ r.pill = AccountabilityPill(Dims(s.assessments["wand"]))
<1> DEFINE Pref(x) == IF "wand" \in DOMAIN x.assessments THEN {"wand"}
                      ELSE DOMAIN x.assessments
           Pick(x) == CHOOSE fw \in Pref(x) : TRUE
           DimsOf(x) == IF Pref(x) = {} THEN <<>> ELSE Dims(x.assessments[Pick(x)])
           Show(x) == [target |-> x.target,
                       verdict |-> IF DimsOf(x) = <<>> THEN ""
                                   ELSE WorstScoreCovering(DimsOf(x)).score,
                       pill |-> AccountabilityPill(DimsOf(x))]
           dims == Dims(s.assessments["wand"])
<1>1. buildFleetRows(S) = {Show(x) : x \in S}
  BY Zenon DEF buildFleetRows
<1>2. \A x : Show(x).target = x.target
  OBVIOUS
<1>3. Pref(s) = {"wand"} /\ Pick(s) = "wand"
  <2>1. Pref(s) = {"wand"}
    OBVIOUS
  <2>2. \E fw : fw \in Pref(s)
    BY <2>1
  <2>3. Pick(s) \in Pref(s)
    <3> HIDE DEF Pref
    <3> QED
      BY <2>2, Zenon
  <2> QED
    BY <2>1, <2>3
<1>4. DimsOf(s) = dims
  <2>1. Pref(s) # {}
    BY <1>3
  <2> HIDE DEF Pref, Pick
  <2> QED
    BY <1>3, <2>1
<1>5. /\ Show(s).verdict = IF DimsOf(s) = <<>> THEN ""
                           ELSE WorstScoreCovering(DimsOf(s)).score
      /\ Show(s).pill = AccountabilityPill(DimsOf(s))
  <2> HIDE DEF DimsOf
  <2> QED
    OBVIOUS
<1>6. dims # <<>>
  BY DimsScored DEF AreSnapshots
<1> HIDE DEF DimsOf, Show, dims
<1>7. PICK x \in S : r = Show(x)
  BY <1>1
<1>8. x = s
  BY <1>2, <1>7 DEF AreSnapshots
<1> QED
  BY <1>4, <1>5, <1>6, <1>7, <1>8 DEF dims

\* The verdict of the framework is no better than any target's.
LEMMA FrameworkIsWorst ==
    ASSUME NEW S, AreSnapshots(S), NEW s \in S, "wand" \in DOMAIN s.assessments,
           NEW v, v = WorstScoreCovering(Dims(s.assessments["wand"])).score,
           Rank(v) > 0
    PROVE  Rank(WorstByFramework(S)["wand"].Score) \in 1..Rank(v)
<1> DEFINE With == {x \in S : "wand" \in DOMAIN x.assessments}
           Sc(x) == WorstScoreCovering(Dims(x.assessments["wand"])).score
           Ranked == {x \in With : Rank(Sc(x)) > 0}
           w == CHOOSE x \in Ranked : \A t \in Ranked : Rank(Sc(x)) <= Rank(Sc(t))
           f == [x \in Ranked |-> Sc(x)]
           worst == IF Ranked = {} THEN Onbekend ELSE Sc(w)
           page == WorstByFramework(S)
<1>1. "wand" \in UNION {DOMAIN x.assessments : x \in S}
  OBVIOUS
<1>2. page["wand"].Score = worst
  BY <1>1, Zenon DEF WorstByFramework
<1>3. s \in Ranked
  OBVIOUS
<1>4. \A x \in Ranked : f[x] = Sc(x)
  OBVIOUS
<1>5. \A x \in Ranked : Rank(Sc(x)) > 0 /\ Rank(Sc(x)) \in Nat
  BY RankScale
<1>6. Sc(s) = v
  OBVIOUS
<1> HIDE DEF Sc, Ranked, f, page
<1>7. \E x \in Ranked : \A t \in Ranked : Rank(f[x]) <= Rank(f[t])
  BY <1>3, WorstExists
<1>8. \E x \in Ranked : \A t \in Ranked : Rank(Sc(x)) <= Rank(Sc(t))
  BY <1>4, <1>7
<1>9. w \in Ranked /\ \A t \in Ranked : Rank(Sc(w)) <= Rank(Sc(t))
  BY <1>8, Zenon
<1> HIDE DEF w
<1>10. page["wand"].Score = Sc(w)
  BY <1>2, <1>3
<1>11. Rank(Sc(w)) \in Nat /\ Rank(Sc(w)) > 0 /\ Rank(Sc(w)) <= Rank(v) /\ Rank(v) \in Nat
  BY <1>3, <1>5, <1>6, <1>9
<1>12. Rank(Sc(w)) \in 1..Rank(v)
  BY <1>11
<1> QED
  BY <1>10, <1>12 DEF page

\* The pill of accountability, against its answer sheet.
LEMMA PillAgrees ==
    ASSUME NEW s, IsSnapshot(s), "wand" \in DOMAIN s.assessments, NEW rules,
           rules = s.assessments["wand"].rules
    PROVE  AccountabilityPill(Dims(s.assessments["wand"])) = Afhankelijk <=>
             /\ \E a \in BuildAccountabilityAnswers(rules) : a.answer = "nee"
             /\ ~Masked(OfDim(rules, "accountability"))
<1> DEFINE dims == Dims(s.assessments["wand"])
           D == OfDim(rules, "accountability")
           E == Evidenced(D)
           pill == AccountabilityPill(dims)
<1>1. JudgesOnce(rules)
  BY RulesOfSnapshot
<1>2. /\ "accountability" \in DOMAIN dims <=> D # {}
      /\ D # {} => dims["accountability"] = scoreDimension(rules, "accountability")
  BY DEF Dims, OfDim
<1>3. /\ scoreDimension(rules, "accountability").notApplicable =
            (D # {} /\ Structural(D) = D)
      /\ scoreDimension(rules, "accountability").score =
            IF E = {} THEN Onbekend ELSE Worst(E)
  BY DEF scoreDimension
<1>4. /\ E \subseteq D /\ D \subseteq rules
      /\ \A r \in E : r \notin Structural(D) /\ r.res.ev # {}
      /\ \A r \in D : r.res.reason = "" /\ r.res.ev # {} => r \in E
  <2>1. "" \notin ReasonStructural
    BY DEF ReasonStructural
  <2> QED
    BY <2>1 DEF Evidenced, Counted, Structural, OfDim
<1>5. pill = IF "accountability" \notin DOMAIN dims THEN "unassessed"
             ELSE IF dims["accountability"].notApplicable THEN "nvt"
             ELSE dims["accountability"].score
  BY DEF AccountabilityPill
<1> HIDE DEF E, dims, pill
<1>6. pill = Afhankelijk <=> E # {} /\ Worst(E) = Afhankelijk
  <2>1. CASE E = {}
    BY <1>2, <1>3, <1>5, <2>1 DEF Afhankelijk, Onbekend
  <2>2. CASE E # {}
    <3>1. D # {} /\ Structural(D) # D
      BY <1>4, <2>2
    <3>2. pill = Worst(E)
      BY <1>2, <1>3, <1>5, <2>2, <3>1
    <3> QED
      BY <2>2, <3>2
  <2> QED
    BY <2>1, <2>2
<1>7. ASSUME NEW r \in D
      PROVE  accountabilityOutcome(r.res) = "nee" <=> r \in E /\ r.res.score = Afhankelijk
  <2>1. r.res.score = Afhankelijk => r.res.reason = ""
    BY <1>1, <1>4 DEF JudgesOnce
  <2>2. /\ accountabilityOutcome(r.res) = "nee" <=>
              /\ r.res.reason \notin ReasonStructural
              /\ RationaleScore(r.res) = Afhankelijk
    BY DEF accountabilityOutcome, Soeverein, Voldoende, Afhankelijk, Onbekend
  <2>3. RationaleScore(r.res) = Afhankelijk <=>
           r.res.reason = "" /\ r.res.ev # {} /\ r.res.score = Afhankelijk
    BY DEF RationaleScore, Afhankelijk, Onbekend
  <2>4. "" \notin ReasonStructural
    BY DEF ReasonStructural
  <2> QED
    BY <1>4, <2>1, <2>2, <2>3, <2>4
<1>8. (\E a \in BuildAccountabilityAnswers(rules) : a.answer = "nee") <=>
         \E r \in E : r.res.score = Afhankelijk
  <2>1. (\E a \in BuildAccountabilityAnswers(rules) : a.answer = "nee") <=>
           \E r \in D : accountabilityOutcome(r.res) = "nee"
    <3> DEFINE Ans(r) == [rule |-> r.id, answer |-> accountabilityOutcome(r.res)]
    <3>1. BuildAccountabilityAnswers(rules) = {Ans(r) : r \in D}
      BY DEF BuildAccountabilityAnswers
    <3>2. \A r \in D : Ans(r).answer = accountabilityOutcome(r.res)
      OBVIOUS
    <3> HIDE DEF Ans, D
    <3> QED
      BY <3>1, <3>2
  <2> QED
    BY <1>4, <1>7, <2>1
<1>9. Masked(D) <=> \E r \in E : r.res.score = Onbekend
  BY DEF Masked, E
<1>10. E # {} => (Worst(E) = Afhankelijk <=>
                    /\ \E r \in E : r.res.score = Afhankelijk
                    /\ ~\E r \in E : r.res.score = Onbekend)
  <2> SUFFICES ASSUME E # {}
               PROVE  Worst(E) = Afhankelijk <=>
                         /\ \E r \in E : r.res.score = Afhankelijk
                         /\ ~\E r \in E : r.res.score = Onbekend
    OBVIOUS
  <2>1. PICK w \in E : Worst(E) = w.res.score
    BY WorstPicked
  <2>2. \A q \in E : Rank(Worst(E)) <= Rank(q.res.score)
    BY WorstPicked
  <2>3. \A q \in E : q.res.score \in Scores
    BY <1>1, <1>4 DEF JudgesOnce
  <2>4. ASSUME Worst(E) = Afhankelijk, NEW q \in E PROVE q.res.score # Onbekend
    BY <2>2, <2>4, RankScale
  <2>5. ASSUME NEW q \in E, q.res.score = Afhankelijk, Worst(E) # Afhankelijk
        PROVE  Worst(E) = Onbekend
    <3>1. Rank(Worst(E)) <= 1 /\ Rank(Worst(E)) \in Nat /\ Worst(E) \in Scores
      BY <2>1, <2>2, <2>3, <2>5, RankScale
    <3>2. Rank(Worst(E)) # 1
      BY <2>5, <3>1, RankScale
    <3>3. Rank(Worst(E)) = 0
      BY <3>1, <3>2
    <3> QED
      BY <3>1, <3>3, RankScale
  <2> QED
    BY <2>1, <2>4, <2>5
<1> HIDE DEF D
<1>11. pill = Afhankelijk <=>
          /\ \E a \in BuildAccountabilityAnswers(rules) : a.answer = "nee"
          /\ ~Masked(D)
  BY <1>6, <1>8, <1>9, <1>10
<1> QED
  BY <1>11 DEF pill, dims, D

\* The snapshots that have rule k judged, and what each shows for it.
Having(S, k) == {s \in S : /\ k[1] \in DOMAIN s.assessments
                           /\ \E r \in s.assessments[k[1]].rules : r.id = k[2]}
Shown(s, k) == RationaleScore(Rationale(s.assessments[k[1]].rules, k[2]).res)
Showing(S, k, score) == {s \in Having(S, k) : Shown(s, k) = score}
RowFor(s, k) == [target |-> s.target, score |-> Shown(s, k)]

LEMMA ShownOnce ==
    ASSUME NEW S, AreSnapshots(S), NEW k, NEW s \in Having(S, k)
    PROVE  /\ Shown(s, k) \in Scores
           /\ \A r \in s.assessments[k[1]].rules : r.id = k[2] =>
                 RationaleScore(r.res) = Shown(s, k)
<1> DEFINE rules == s.assessments[k[1]].rules
<1>1. JudgesOnce(rules)
  BY RulesOfSnapshot DEF Having, AreSnapshots
<1>2. \E r \in rules : r.id = k[2]
  BY DEF Having
<1>3. Shown(s, k) = RationaleScore(Rationale(rules, k[2]).res)
  BY DEF Shown
<1> HIDE DEF rules
<1>4. \A r \in rules : r.id = k[2] =>
         Rationale(rules, k[2]) = r /\ RationaleScore(r.res) \in Scores
  BY <1>1, RationaleScored
<1> QED
  BY <1>2, <1>3, <1>4 DEF rules

\* The matrix counts them, the page of the rule lists them.
LEMMA MatrixCounts ==
    ASSUME NEW S, AreSnapshots(S), NEW k \in DOMAIN RuleSummary(S)
    PROVE  RuleSummary(S)[k] = [score \in Scores |-> Cardinality(Showing(S, k, score))]
<1> DEFINE At0(score) == {s \in S :
             /\ k[1] \in DOMAIN s.assessments
             /\ \E r \in s.assessments[k[1]].rules :
                   r.id = k[2] /\ RationaleScore(r.res) = score}
<1>1. RuleSummary(S)[k] = [score \in Scores |-> Cardinality(At0(score))]
  BY DEF RuleSummary
<1>2. ASSUME NEW score PROVE At0(score) = Showing(S, k, score)
  <2>1. At0(score) \subseteq Showing(S, k, score)
    BY ShownOnce DEF Showing, Having
  <2>2. Showing(S, k, score) \subseteq At0(score)
    BY ShownOnce DEF Showing, Having
  <2> QED
    BY <2>1, <2>2
<1> HIDE DEF At0
<1> QED
  BY <1>1, <1>2

LEMMA RowsListed ==
    ASSUME NEW S, AreSnapshots(S), NEW k
    PROVE  RuleTargetRows(S, k[1], k[2]) = {RowFor(s, k) : s \in Having(S, k)}
<1> DEFINE R == RuleTargetRows(S, k[1], k[2])
<1>1. ASSUME NEW row \in R PROVE row \in {RowFor(s, k) : s \in Having(S, k)}
  <2>1. PICK s \in S : /\ k[1] \in DOMAIN s.assessments
                       /\ \E r \in s.assessments[k[1]].rules : r.id = k[2] /\
                             row = [target |-> s.target, score |-> RationaleScore(r.res)]
    BY <1>1 DEF RuleTargetRows
  <2>2. s \in Having(S, k)
    BY <2>1 DEF Having
  <2>3. row = RowFor(s, k)
    BY <2>1, <2>2, ShownOnce DEF RowFor
  <2> QED
    BY <2>2, <2>3
<1>2. ASSUME NEW s \in Having(S, k) PROVE RowFor(s, k) \in R
  <2>1. PICK r \in s.assessments[k[1]].rules : r.id = k[2]
    BY DEF Having
  <2>2. RowFor(s, k) = [target |-> s.target, score |-> RationaleScore(r.res)]
    BY <2>1, ShownOnce DEF RowFor
  <2>3. s \in S /\ k[1] \in DOMAIN s.assessments
    BY DEF Having
  <2> QED
    BY <2>1, <2>2, <2>3 DEF RuleTargetRows
<1> HIDE DEF R
<1>3. R = {RowFor(s, k) : s \in Having(S, k)}
  BY <1>1, <1>2
<1> QED
  BY <1>3 DEF R

\* As many rows as snapshots, also among those with one score.
LEMMA ListCounted ==
    ASSUME NEW S, AreSnapshots(S), NEW k, NEW T \in SUBSET Having(S, k),
           NEW R, R = {RowFor(s, k) : s \in T}
    PROVE  /\ IsFiniteSet(T) /\ Cardinality(T) \in Nat
           /\ Cardinality(R) = Cardinality(T)
<1> DEFINE v == [s \in T |-> RowFor(s, k)]
<1>1. \A s \in T : v[s].target = s.target /\ s \in S
  BY DEF RowFor, Having
<1>2. R = {v[s] : s \in T}
  OBVIOUS
<1>3. IsFiniteSet(T)
  BY FS_Subset DEF AreSnapshots, Having
<1> HIDE DEF v
<1>4. \A s, t \in T : v[s] = v[t] => s = t
  BY <1>1 DEF AreSnapshots
<1> QED
  BY <1>2, <1>3, <1>4, CountImages, FS_CardinalityType

\* Each snapshot is counted for one score.
LEMMA CountsAddUp ==
    ASSUME NEW S, AreSnapshots(S), NEW k, NEW counts,
           counts = [score \in Scores |-> Cardinality(Showing(S, k, score))]
    PROVE  SumFunction(counts) = Cardinality(Having(S, k))
<1> DEFINE T == Having(S, k)
           M == {p \in T \X Scores : Shown(p[1], k) = p[2]}
           f == [s \in T |-> 1]
<1>1. IsFiniteSet(T)
  BY FS_Subset DEF AreSnapshots, Having
<1>2. IsFiniteSet(Scores)
  <2>1. Scores = {Soeverein} \cup ({Voldoende} \cup ({Afhankelijk} \cup {Onbekend}))
    BY DEF Scores
  <2>2. /\ IsFiniteSet({Soeverein}) /\ IsFiniteSet({Voldoende})
        /\ IsFiniteSet({Afhankelijk}) /\ IsFiniteSet({Onbekend})
    BY FS_Singleton
  <2> QED
    BY <2>1, <2>2, FS_Union
<1>3. \A s \in T, x \in Scores : <<s, x>> \in M <=> Shown(s, k) = x
  OBVIOUS
<1> HIDE DEF M
<1>4. ASSUME NEW s \in T PROVE f[s] = Cardinality(InRow(Scores, M, s))
  <2>1. InRow(Scores, M, s) = {Shown(s, k)}
    BY <1>3, ShownOnce DEF InRow
  <2>2. Cardinality({Shown(s, k)}) = 1
    BY FS_Singleton
  <2> QED
    BY <2>1, <2>2
<1>5. ASSUME NEW x \in Scores PROVE counts[x] = Cardinality(InCol(T, M, x))
  <2>1. InCol(T, M, x) = Showing(S, k, x)
    BY <1>3 DEF InCol, Showing
  <2> QED
    BY <2>1
<1>6. \A s \in T : f[s] = IF s \in T THEN 1 ELSE 0
  OBVIOUS
<1>7. DOMAIN counts = Scores
  OBVIOUS
<1> HIDE DEF T, f
<1>8. SumFunctionOnSet(f, T) = SumFunctionOnSet(counts, Scores)
  <2>1. \A s \in T : f[s] = Cardinality(InRow(Scores, M, s))
    BY <1>4
  <2>2. \A x \in Scores : counts[x] = Cardinality(InCol(T, M, x))
    BY <1>5
  <2> QED
    BY <1>1, <1>2, <2>1, <2>2, DoubleCount
<1>9. SumFunctionOnSet(f, T) = Cardinality(T)
  BY <1>1, <1>6, SumOfOnes
<1> QED
  BY <1>7, <1>8, <1>9 DEF SumFunction, T

\* What the catalogue says of a rule is what the rule's page lists.
LEMMA CatalogueAgrees ==
    ASSUME NEW S, AreSnapshots(S), NEW k \in DOMAIN RuleSummary(S),
           NEW status, status = WorstScoreFromCounts(RuleSummary(S)[k]),
           NEW rows, rows = RuleTargetRows(S, k[1], k[2])
    PROVE  /\ status.total = Cardinality(rows)
           /\ status.atWorst = Cardinality({r \in rows : r.score = status.worst})
           /\ \A r \in {q \in rows : q.score # Onbekend} :
                 Rank(status.worst) <= Rank(r.score)
           /\ status.worst = Onbekend => {r \in rows : r.score # Onbekend} = {}
<1> DEFINE counts == RuleSummary(S)[k]
           T == Having(S, k)
           fired == {x \in Scores : counts[x] > 0 /\ Rank(x) > 0}
           w == CHOOSE x \in fired : \A y \in fired : Rank(x) <= Rank(y)
           f == [x \in fired |-> x]
<1>1. counts = [x \in Scores |-> Cardinality(Showing(S, k, x))]
  BY MatrixCounts
<1>2. rows = {RowFor(s, k) : s \in T}
  BY RowsListed
<1>3. \A s \in T : RowFor(s, k).score = Shown(s, k) /\ Shown(s, k) \in Scores
  BY ShownOnce DEF RowFor
<1>4. ASSUME NEW x
      PROVE  /\ Cardinality({r \in rows : r.score = x}) = Cardinality(Showing(S, k, x))
             /\ Cardinality(Showing(S, k, x)) \in Nat
             /\ Showing(S, k, x) # {} => Cardinality(Showing(S, k, x)) > 0
  <2> DEFINE R == {r \in rows : r.score = x}
  <2>1. R = {RowFor(s, k) : s \in Showing(S, k, x)}
    BY <1>2, <1>3 DEF Showing
  <2>2. Showing(S, k, x) \in SUBSET Having(S, k)
    BY DEF Showing
  <2> HIDE DEF R
  <2>3. /\ IsFiniteSet(Showing(S, k, x)) /\ Cardinality(Showing(S, k, x)) \in Nat
        /\ Cardinality(R) = Cardinality(Showing(S, k, x))
    BY <2>1, <2>2, ListCounted
  <2>4. Showing(S, k, x) # {} => Cardinality(Showing(S, k, x)) # 0
    BY <2>3, FS_EmptySet
  <2> QED
    BY <2>3, <2>4 DEF R
<1>5. /\ status.worst = IF fired = {} THEN Onbekend ELSE w
      /\ status.atWorst = counts[status.worst] /\ status.total = SumFunction(counts)
  BY DEF WorstScoreFromCounts
<1> HIDE DEF counts
<1>6. \A x \in fired : x \in Scores /\ Rank(x) > 0 /\ f[x] = x
  OBVIOUS
<1>7. ASSUME NEW r \in rows, r.score # Onbekend PROVE r.score \in fired
  <2>1. PICK s \in T : r = RowFor(s, k)
    BY <1>2
  <2>2. s \in Showing(S, k, r.score) /\ r.score \in Scores
    BY <1>3, <2>1 DEF Showing
  <2>3. counts[r.score] > 0
    BY <1>1, <1>4, <2>2
  <2>4. Rank(r.score) > 0
    BY <1>7, <2>2, RankScale
  <2> QED
    BY <2>2, <2>3, <2>4
<1> HIDE DEF fired, f
<1>8. fired # {} => w \in fired /\ \A y \in fired : Rank(w) <= Rank(y)
  <2> SUFFICES ASSUME fired # {} PROVE w \in fired /\ \A y \in fired : Rank(w) <= Rank(y)
    OBVIOUS
  <2>1. \E x \in fired : \A y \in fired : Rank(f[x]) <= Rank(f[y])
    BY WorstExists
  <2>2. \E x \in fired : \A y \in fired : Rank(x) <= Rank(y)
    BY <1>6, <2>1
  <2> QED
    BY <2>2, Zenon
<1> HIDE DEF w
<1>9. status.worst \in Scores
  BY <1>5, <1>6, <1>8, RankScale
<1>10. status.atWorst = Cardinality({r \in rows : r.score = status.worst})
  <2> DEFINE x == status.worst
  <2>1. status.atWorst = counts[x] /\ x \in Scores
    BY <1>5, <1>9
  <2> HIDE DEF x
  <2>2. counts[x] = Cardinality(Showing(S, k, x))
    BY <1>1, <2>1
  <2> QED
    BY <1>4, <2>1, <2>2 DEF x
<1>11. \A r \in rows : r.score # Onbekend => Rank(status.worst) <= Rank(r.score)
  BY <1>5, <1>7, <1>8
<1>12. status.worst = Onbekend => {r \in rows : r.score # Onbekend} = {}
  <2>1. fired # {} => Rank(status.worst) > 0
    BY <1>5, <1>6, <1>8
  <2> QED
    BY <1>7, <2>1, RankScale
<1>13. status.total = Cardinality(rows)
  <2>1. SumFunction(counts) = Cardinality(T)
    BY <1>1, CountsAddUp
  <2>2. Cardinality(rows) = Cardinality(T)
    <3>1. T \in SUBSET Having(S, k)
      OBVIOUS
    <3> HIDE DEF T
    <3> QED
      BY <1>2, <3>1, ListCounted
  <2> QED
    BY <1>5, <2>1, <2>2
<1> QED
  BY <1>10, <1>11, <1>12, <1>13

\* Every number on Trends can be recounted.
LEMMA TrendsRecounted == FleetInv => TrendsAgree
<1> SUFFICES ASSUME FleetInv PROVE TrendsAgree
  OBVIOUS
<1> DEFINE S == buildSnapshots(None, FALSE)
           page == trendsHandler(S)
           matrix == RuleSummary(S)
           list == targetsHandler(S)
           InWand(t) == \E s \in S : s.target = t /\ "wand" \in DOMAIN s.assessments
<1>1. AreSnapshots(S)
  <2>1. /\ Selected(None, FALSE) \in SUBSET Domains
        /\ \A d \in Selected(None, FALSE) : Perimeter(d) # {}
    BY DEF Selected
  <2>2. S = {TargetSnapshot(d) : d \in Selected(None, FALSE)}
    BY DEF buildSnapshots
  <2> HIDE DEF S
  <2> QED
    BY <2>1, <2>2, SnapshotsBuilt
<1> HIDE DEF S
<1>2. /\ DOMAIN page.Catalogue = DOMAIN matrix
      /\ \A k \in DOMAIN matrix : page.Catalogue[k] = WorstScoreFromCounts(matrix[k])
      /\ page.Targets = buildFleetRows(S)
      /\ page.Verdicts = WorstByFramework(S)
  BY DEF trendsHandler
<1> HIDE DEF page, list
<1>3. ASSUME NEW k \in DOMAIN page.Catalogue
      PROVE  LET rows == RuleTargetRows(S, k[1], k[2])
                 status == page.Catalogue[k]
                 known == {r \in rows : r.score # Onbekend}
             IN  /\ status.total = Cardinality(rows)
                 /\ status.atWorst = Cardinality({r \in rows : r.score = status.worst})
                 /\ \A r \in known : Rank(status.worst) <= Rank(r.score)
                 /\ status.worst = Onbekend => known = {}
  <2> DEFINE rows == RuleTargetRows(S, k[1], k[2])
             status == page.Catalogue[k]
  <2>1. k \in DOMAIN RuleSummary(S) /\ status = WorstScoreFromCounts(RuleSummary(S)[k])
    BY <1>2, <1>3
  <2>2. rows = RuleTargetRows(S, k[1], k[2])
    OBVIOUS
  <2> HIDE DEF rows, status
  <2>3. /\ status.total = Cardinality(rows)
        /\ status.atWorst = Cardinality({r \in rows : r.score = status.worst})
        /\ \A r \in {q \in rows : q.score # Onbekend} :
              Rank(status.worst) <= Rank(r.score)
        /\ status.worst = Onbekend => {r \in rows : r.score # Onbekend} = {}
    BY <1>1, <2>1, <2>2, CatalogueAgrees
  <2> QED
    BY <2>3, Zenon DEF rows, status
<1>4. ASSUME NEW r \in page.Targets, Rank(r.verdict) > 0, InWand(r.target)
      PROVE  Rank(page.Verdicts["wand"].Score) \in 1..Rank(r.verdict)
  <2>1. PICK s \in S : s.target = r.target /\ "wand" \in DOMAIN s.assessments
    BY <1>4
  <2>2. r.verdict = WorstScoreCovering(Dims(s.assessments["wand"])).score
    BY <1>1, <1>2, <1>4, <2>1, FleetRowShows
  <2> QED
    BY <1>1, <1>2, <1>4, <2>1, <2>2, FrameworkIsWorst
<1>5. ASSUME NEW r \in page.Targets, NEW q \in list, r.target = q.target,
             InWand(r.target)
      PROVE  r.verdict = q.FrameworkRows["wand"]
  <2>1. PICK s \in S : s.target = r.target /\ "wand" \in DOMAIN s.assessments
    BY <1>5
  <2>2. r.verdict = WorstScoreCovering(Dims(s.assessments["wand"])).score
    BY <1>1, <1>2, <1>5, <2>1, FleetRowShows
  <2>3. PICK u \in S : u.target = q.target /\
                       q.FrameworkRows = lastAssessmentsForScan(u.assessments)
    BY DEF list, targetsHandler
  <2>4. u = s /\ IsSnapshot(s)
    BY <1>1, <1>5, <2>1, <2>3 DEF AreSnapshots
  <2> QED
    BY <2>1, <2>2, <2>3, <2>4, SameVerdict
<1>6. ASSUME NEW r \in page.Targets, NEW s \in S, r.target = s.target,
             InWand(r.target)
      PROVE  LET rules == s.assessments["wand"].rules
             IN  (r.pill = Afhankelijk) =
                   /\ \E a \in BuildAccountabilityAnswers(rules) : a.answer = "nee"
                   /\ ~Masked(OfDim(rules, "accountability"))
  <2> DEFINE rules == s.assessments["wand"].rules
             nee == \E a \in BuildAccountabilityAnswers(rules) : a.answer = "nee"
             masked == Masked(OfDim(rules, "accountability"))
  <2>1. "wand" \in DOMAIN s.assessments /\ IsSnapshot(s)
    BY <1>1, <1>6 DEF AreSnapshots
  <2>2. r.pill = AccountabilityPill(Dims(s.assessments["wand"]))
    BY <1>1, <1>2, <1>6, <2>1, FleetRowShows
  <2>3. AccountabilityPill(Dims(s.assessments["wand"])) = Afhankelijk <=> nee /\ ~masked
    BY <2>1, PillAgrees
  <2> HIDE DEF nee, masked
  <2>4. (r.pill = Afhankelijk) = (nee /\ ~masked)
    BY <2>2, <2>3
  <2> QED
    BY <2>4 DEF nee, masked
<1> QED
  BY <1>3, <1>4, <1>5, <1>6, Zenon DEF TrendsAgree, page, list, S

\* Every number that stands for many targets can be recounted from the rows of
\* the single targets: the door of every organisation (BuildFleetSummary,
\* BuildFlowBars, TopConcerns) from its grid, and Trends (RuleSummary,
\* WorstScoreFromCounts, WorstByFramework, buildFleetRows) from the pages of
\* the rules, the target list and the answer sheets.
THEOREM AggregatesAreRecounted == Spec => []AggregatesAddUp
<1>1. FleetInv => AggregatesAddUp
  BY DoorRecounted, TrendsRecounted DEF AggregatesAddUp
<1> QED
  BY <1>1, Invariance, PTL
=============================================================================
