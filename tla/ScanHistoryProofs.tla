------------------------- MODULE ScanHistoryProofs -------------------------
(***************************************************************************)
(* Proofs about ScanHistory, for any number of ticks, import requests,     *)
(* facets and errors.                                                      *)
(***************************************************************************)
EXTENDS ScanHistory, WellFoundedInduction, TLAPS

(***************************************************************************)
(* The inductive invariant.                                                *)
(*   ClockInv   started_at is unique, and set exactly for the scans that   *)
(*              have a row;                                                *)
(*   PlaceInv   what the place of a writer tells about its row;            *)
(*   WholeInv   import findings are all of a file or nothing, and scans of *)
(*              jobs have none;                                            *)
(*   RecordInv  a file that is recorded is held by a scan that ended, and  *)
(*              one request at most was told so;                           *)
(*   UsedInv    what an assessment read is still there;                    *)
(*   BaseInv    a job compares with an earlier scan, or is the first;      *)
(*   DriftInv   what a job stores is what it computed;                     *)
(*   MemoryInv  memory and table differ only after an error;               *)
(*   FrozenInv  a job that did not read too early computed its drift from  *)
(*              findings that do not change any more.                      *)
(***************************************************************************)
ClockInv ==
    /\ \A w \in Writers : started[w] <= now
    /\ \A v, w \in Writers : started[v] = started[w] /\ started[v] # 0 => v = w
    /\ \A w \in Writers : started[w] = 0 <=> status[w] = "none"

PlaceInv ==
    /\ \A w \in Writers : pc[w] # "done" =>
          (started[w] = 0 <=> pc[w] \in {"idle", "target", "insert", "create",
                                         "check", "lookup"})
    /\ \A w \in Writers : status[w] = "ended" => pc[w] # "findings"

Holds(i) == status[i] = "ended" /\ types[i] = TypesOf[FileOf[i]]

WholeInv ==
    /\ \A j \in Jobs : types[j] = {}
    /\ \A i \in Imports :
          /\ types[i] \in {{}, TypesOf[FileOf[i]]}
          /\ pc[i] \in {"finish", "record"} => types[i] = TypesOf[FileOf[i]]
          /\ pc[i] = "record" => status[i] = "ended"

RecordInv ==
    /\ \A i \in Imports :
          answer[i] \in {"already", "imported"} => FileOf[i] \in recorded
    /\ \A f \in recorded : \E o \in Imports : FileOf[o] = f /\ Holds(o)
    /\ \A i1, i2 \in Imports :
          /\ FileOf[i1] = FileOf[i2]
          /\ answer[i1] = "imported" /\ answer[i2] = "imported"
          => i1 = i2

UsedInv ==
    \A j \in Jobs, t \in Types : used[j][t] # NoScan =>
        started[used[j][t]] # 0 /\ t \in types[used[j][t]]

\* No other job's scan started before j's.
First(j) == \A o \in Jobs \ {j} : started[o] # 0 => started[o] > started[j]

BaseInv ==
    \A j \in Jobs :
        /\ base[j] # NoScan => /\ pc[j] \in {"load", "append", "done"}
                               /\ started[base[j]] # 0
        /\ pc[j] \in {"load", "append"} /\ base[j] = NoScan => First(j)
        /\ pc[j] = "append" =>
              /\ diff[j] # {}
              /\ base[j] = NoScan => diff[j] = {"baseline"}
              /\ "baseline" \in diff[j] => base[j] = NoScan

DriftInv ==
    \A j \in Jobs :
        /\ drift[j] # {} =>
              drift[j] = diff[j] /\ pc[j] = "done" /\ started[j] # 0
        /\ "baseline" \in drift[j] => drift[j] = {"baseline"} /\ First(j)

MemoryInv == \A j \in Jobs : j \notin upset => mem[j] = facts[j]

FrozenInv ==
    \A j \in Jobs \ early : pc[j] = "append" \/ drift[j] # {} =>
        /\ diff[j] = Diff(base[j], mem[j])
        /\ base[j] # NoScan => status[base[j]] = "ended"

HistoryInv ==
    /\ ClockInv /\ PlaceInv /\ WholeInv /\ RecordInv /\ UsedInv
    /\ BaseInv /\ DriftInv /\ LostDriftHasCause
    /\ MemoryInv /\ FrozenInv

----------------------------------------------------------------------------
\* A set of naturals that is not empty has a smallest member.
LEMMA Smallest ==
    ASSUME NEW T \in SUBSET Nat, T # {}
    PROVE  \E x \in T : \A y \in T : x <= y
<1> DEFINE R == OpToRel(<, Nat)
<1>1. IsWellFoundedOn(R, Nat)
  BY NatLessThanWellFounded, Zenon
<1>2. \A x, y \in Nat : <<y, x>> \notin R => x <= y
  BY DEF OpToRel
<1> HIDE DEF R
<1>3. \E x \in T : \A y \in T : <<y, x>> \notin R
  BY <1>1, WFMin
<1> QED
  BY <1>2, <1>3

\* Of scans that started by now, one started last: Latest picks it.
LEMMA LatestIsLast ==
    ASSUME TypeOK, ClockInv, NEW S \in SUBSET Writers, S # {}
    PROVE  /\ Latest(S) \in S
           /\ \A o \in S : started[o] <= started[Latest(S)]
<1> DEFINE D == {n \in Nat : \E s \in S : started[s] + n = now}
<1>0. now \in Nat /\ \A s \in S : started[s] \in Nat /\ started[s] <= now
  BY DEF TypeOK, TableTypeOK, ClockInv
<1>1. \A s \in S : now - started[s] \in D
  BY <1>0
<1>2. PICK d \in D : \A y \in D : d <= y
  <2>1. D \in SUBSET Nat /\ D # {}
    BY <1>1
  <2> HIDE DEF D
  <2> QED
    BY <2>1, Smallest
<1>3. PICK s \in S : started[s] + d = now
  OBVIOUS
<1>4. \A o \in S : started[o] <= started[s]
  <2>1. d \in Nat /\ \A o \in S : d <= now - started[o]
    BY <1>1, <1>2
  <2> HIDE DEF D
  <2> QED
    BY <1>0, <1>3, <2>1
<1> QED
  BY <1>4 DEF Latest

\* The rules only name facets.
LEMMA DiffType ==
    ASSUME NEW p, NEW c
    PROVE  /\ Diff(p, c) \in SUBSET Results /\ Diff(p, c) # {}
           /\ "baseline" \in Diff(p, c) <=> p = NoScan
           /\ p = NoScan => Diff(p, c) = {"baseline"}
<1>1. Changed(facts[p], c) \in SUBSET Facets
  BY DEF Changed, Facets
<1>2. "baseline" \notin Facets
  BY HistoryAssumption
<1> HIDE DEF Changed
<1> QED
  BY <1>1, <1>2 DEF Diff, Results

\* An import scan read for an assessment holds findings of the type, and none
\* that holds some started later.
LEMMA LatestImportIsLast ==
    ASSUME TypeOK, ClockInv, NEW t \in Types
    PROVE  LET u == LatestImport(t)
           IN  /\ u \in Writers \cup {NoScan}
               /\ u # NoScan => started[u] # 0 /\ t \in types[u]
               /\ \A w \in Writers : started[w] # 0 /\ t \in types[w] =>
                     u # NoScan /\ started[w] <= started[u]
<1> DEFINE S == {w \in Writers : started[w] # 0 /\ t \in types[w]}
<1>1. S \in SUBSET Writers /\ NoScan \notin Writers
  BY HistoryAssumption
<1>2. LatestImport(t) = IF S = {} THEN NoScan ELSE Latest(S)
  BY DEF LatestImport
<1>3. S # {} => Latest(S) \in S /\ \A o \in S : started[o] <= started[Latest(S)]
  BY <1>1, LatestIsLast
<1> QED
  BY <1>1, <1>2, <1>3

\* The scan a job compares with started before it and holds no import finding.
LEMMA PreviousIsEarlier ==
    ASSUME TypeOK, ClockInv, NEW j \in Jobs, EarlierScans(j) # {}
    PROVE  Latest(EarlierScans(j)) \in EarlierScans(j)
<1>1. EarlierScans(j) \in SUBSET Writers
  BY DEF EarlierScans
<1> QED
  BY <1>1, LatestIsLast

----------------------------------------------------------------------------
\* Every action keeps the types.
LEMMA TypeStep == TypeOK /\ HistoryInv /\ [Next]_vars => TypeOK'
<1> SUFFICES ASSUME TypeOK, HistoryInv, [Next]_vars PROVE TypeOK'
  OBVIOUS
<1> USE HistoryAssumption DEF TypeOK, WorldTypeOK, TableTypeOK, LocalTypeOK,
    JobPlaces, ImportPlaces, Writers, worldVars, tableVars, localVars
<1>1. ASSUME NEW j \in Jobs, JobTicks(j) PROVE TypeOK'
  BY <1>1 DEF JobTicks, Goto
<1>2. ASSUME NEW j \in Jobs, LookUpTarget(j) PROVE TypeOK'
  BY <1>2 DEF LookUpTarget, Goto
<1>3. ASSUME NEW j \in Jobs, InsertTarget(j) PROVE TypeOK'
  BY <1>3 DEF InsertTarget, Goto
<1>4. ASSUME NEW w \in Writers, CreateScan(w) PROVE TypeOK'
  BY <1>4 DEF CreateScan, Goto
<1>5. ASSUME NEW j \in Jobs, NEW f \in scene.facets, NEW v \in Seen,
            ProbeReports(j, f, v) PROVE TypeOK'
  <2>1. f \in Facets
    OBVIOUS
  <2>2. mem' \in [Jobs -> [Facets -> Seen]]
    BY <1>5, <2>1 DEF ProbeReports
  <2>3. facts' \in [Writers -> [Facets -> Seen]]
    <3>1. facts' = facts \/ facts' = [facts EXCEPT ![j][f] = v]
      BY <1>5 DEF ProbeReports
    <3>2. j \in Writers /\ [facts[j] EXCEPT ![f] = v] \in [Facets -> Seen]
      BY <2>1
    <3>3. facts' = facts \/ facts' = [facts EXCEPT ![j] = [facts[j] EXCEPT ![f] = v]]
      BY <3>1
    <3>4. facts \in [Writers -> [Facets -> Seen]]
      OBVIOUS
    <3> HIDE DEF Writers, TypeOK, TableTypeOK, LocalTypeOK, WorldTypeOK
    <3> QED
      BY <3>2, <3>3, <3>4
  <2>4. /\ todo' \in [Jobs -> SUBSET Facets] /\ upset' \in SUBSET Writers
        /\ UNCHANGED <<worldVars, target, now, started, status, types, drift,
                       panics, judged, recorded, pc, used, base, diff, early, answer>>
    BY <1>5 DEF ProbeReports, Upset
  <2> QED
    BY <2>2, <2>3, <2>4
<1>6. ASSUME NEW j \in Jobs, FinishScan(j) PROVE TypeOK'
  BY <1>6 DEF FinishScan, Goto, Upset
<1>7. ASSUME NEW j \in Jobs, ReadForAssessment(j) PROVE TypeOK'
  <2>1. \A t \in Types : LatestImport(t) \in Writers \cup {NoScan}
    BY LatestImportIsLast DEF HistoryInv
  <2>2. used' \in [Jobs -> [Types -> Writers \cup {NoScan}]]
    BY <1>7, <2>1 DEF ReadForAssessment
  <2> QED
    BY <1>7, <2>2 DEF ReadForAssessment, Goto
<1>8. ASSUME NEW j \in Jobs, CreateAssessment(j) PROVE TypeOK'
  BY <1>8 DEF CreateAssessment, Goto
<1>9. ASSUME NEW j \in Jobs, AssessFails(j) PROVE TypeOK'
  BY <1>9 DEF AssessFails, Goto, Upset
<1>10. ASSUME NEW j \in Jobs, PickPrevious(j) PROVE TypeOK'
  <2>1. EarlierScans(j) # {} => Latest(EarlierScans(j)) \in Writers
    BY PreviousIsEarlier DEF HistoryInv, EarlierScans
  <2>2. base' \in [Jobs -> Writers \cup {NoScan}]
    BY <1>10, <2>1 DEF PickPrevious
  <2> QED
    BY <1>10, <2>2 DEF PickPrevious, Goto
<1>11. ASSUME NEW j \in Jobs, LoadAndDiff(j) PROVE TypeOK'
  <2>1. diff' \in [Jobs -> SUBSET Results]
    BY <1>11, DiffType DEF LoadAndDiff
  <2>2. early' \in SUBSET Jobs
    BY <1>11 DEF LoadAndDiff
  <2> QED
    BY <1>11, <2>1, <2>2 DEF LoadAndDiff, Goto
<1>12. ASSUME NEW j \in Jobs, AppendDrift(j) PROVE TypeOK'
  <2>1. drift' \in [Writers -> SUBSET Results]
    BY <1>12 DEF AppendDrift
  <2>2. upset' \in SUBSET Writers
    BY <1>12 DEF AppendDrift, Upset
  <2> QED
    BY <1>12, <2>1, <2>2 DEF AppendDrift, Goto
<1>13. ASSUME NEW j \in Jobs, JobFails(j) PROVE TypeOK'
  BY <1>13 DEF JobFails, Goto, Upset
<1>14. ASSUME NEW j \in Jobs, JobPanics(j) PROVE TypeOK'
  <2> DEFINE all == {w \in Writers : started[w] # 0}
  <2>1. all # {} => Latest(all) \in Writers
    <3>1. all \in SUBSET Writers
      OBVIOUS
    <3> HIDE DEF all
    <3> QED
      BY <3>1, LatestIsLast DEF HistoryInv
  <2>2. panics' = panics \cup (IF all = {} THEN {} ELSE {Latest(all)})
    BY <1>14 DEF JobPanics
  <2>3. panics' \in SUBSET Writers
    BY <2>1, <2>2
  <2> QED
    BY <1>14, <2>3 DEF JobPanics, Goto, Upset
<1>15. ASSUME NEW i \in Imports, ImportArrives(i) PROVE TypeOK'
  BY <1>15 DEF ImportArrives, Goto
<1>16. ASSUME NEW i \in Imports, ImportChecks(i) PROVE TypeOK'
  <2>1. answer' \in [Imports -> {"none", "already", "unknown", "imported", "error"}]
    BY <1>16 DEF ImportChecks, Answered
  <2>2. /\ pc' \in [Writers -> JobPlaces \cup ImportPlaces]
        /\ \A o \in Jobs : pc'[o] \in JobPlaces
        /\ \A o \in Imports : pc'[o] \in ImportPlaces
    <3>1. PICK l \in {"done", "lookup"} : pc' = [pc EXCEPT ![i] = l]
      BY <1>16 DEF ImportChecks, Answered, Goto
    <3> QED
      BY <3>1
  <2>3. UNCHANGED <<worldVars, tableVars, todo, mem, used, base, diff, early, upset>>
    BY <1>16 DEF ImportChecks, Answered
  <2> QED
    BY <2>1, <2>2, <2>3
<1>17. ASSUME NEW i \in Imports, ImportLooksUp(i) PROVE TypeOK'
  <2>1. answer' \in [Imports -> {"none", "already", "unknown", "imported", "error"}]
    BY <1>17 DEF ImportLooksUp, Answered
  <2>2. /\ pc' \in [Writers -> JobPlaces \cup ImportPlaces]
        /\ \A o \in Jobs : pc'[o] \in JobPlaces
        /\ \A o \in Imports : pc'[o] \in ImportPlaces
    <3>1. PICK l \in {"done", "create"} : pc' = [pc EXCEPT ![i] = l]
      BY <1>17 DEF ImportLooksUp, Answered, Goto
    <3> QED
      BY <3>1
  <2>3. UNCHANGED <<worldVars, tableVars, todo, mem, used, base, diff, early, upset>>
    BY <1>17 DEF ImportLooksUp, Answered
  <2> QED
    BY <2>1, <2>2, <2>3
<1>18. ASSUME NEW i \in Imports, ImportAppends(i) PROVE TypeOK'
  BY <1>18 DEF ImportAppends, Goto
<1>19. ASSUME NEW i \in Imports, ImportFinishes(i) PROVE TypeOK'
  BY <1>19 DEF ImportFinishes, Goto
<1>20. ASSUME NEW i \in Imports, ImportRecords(i) PROVE TypeOK'
  BY <1>20 DEF ImportRecords, Answered, Goto
<1>21. ASSUME NEW i \in Imports, ImportFails(i) PROVE TypeOK'
  BY <1>21 DEF ImportFails, Answered, Goto, Upset
<1>22. ASSUME NEW w \in Writers, Dies(w) PROVE TypeOK'
  BY <1>22 DEF Dies, Goto, Upset
<1>23. CASE AddFleetDomain
  BY <1>23 DEF AddFleetDomain
<1>24. CASE WorldChanges
  BY <1>24 DEF WorldChanges
<1>25. CASE UNCHANGED vars
  BY <1>25 DEF vars
<1> QED
  BY <1>1, <1>2, <1>3, <1>4, <1>5, <1>6, <1>7, <1>8, <1>9, <1>10, <1>11,
     <1>12, <1>13, <1>14, <1>15, <1>16, <1>17, <1>18, <1>19, <1>20, <1>21,
     <1>22, <1>23, <1>24, <1>25
     DEF Next, JobStep, ImportStep, EnvStep, Writers

\* Every action keeps started_at unique.
LEMMA ClockStep == TypeOK /\ HistoryInv /\ [Next]_vars => ClockInv'
<1> SUFFICES ASSUME TypeOK, HistoryInv, [Next]_vars PROVE ClockInv'
  OBVIOUS
<1> USE HistoryAssumption DEF HistoryInv, ClockInv, PlaceInv, TypeOK,
    WorldTypeOK, TableTypeOK, LocalTypeOK, JobPlaces, ImportPlaces, Writers,
    worldVars, tableVars, localVars
<1>1. ASSUME NEW j \in Jobs, JobTicks(j) PROVE ClockInv'
  BY <1>1 DEF JobTicks, Goto
<1>2. ASSUME NEW j \in Jobs, LookUpTarget(j) PROVE ClockInv'
  BY <1>2 DEF LookUpTarget, Goto
<1>3. ASSUME NEW j \in Jobs, InsertTarget(j) PROVE ClockInv'
  BY <1>3 DEF InsertTarget, Goto
<1>4. ASSUME NEW w \in Writers, CreateScan(w) PROVE ClockInv'
  BY <1>4 DEF CreateScan, Goto
<1>5. ASSUME NEW j \in Jobs, NEW f \in scene.facets, NEW v \in Seen,
            ProbeReports(j, f, v) PROVE ClockInv'
  BY <1>5 DEF ProbeReports, Upset
<1>6. ASSUME NEW j \in Jobs, FinishScan(j) PROVE ClockInv'
  BY <1>6 DEF FinishScan, Goto, Upset
<1>7. ASSUME NEW j \in Jobs, ReadForAssessment(j) PROVE ClockInv'
  BY <1>7 DEF ReadForAssessment, Goto
<1>8. ASSUME NEW j \in Jobs, CreateAssessment(j) PROVE ClockInv'
  BY <1>8 DEF CreateAssessment, Goto
<1>9. ASSUME NEW j \in Jobs, AssessFails(j) PROVE ClockInv'
  BY <1>9 DEF AssessFails, Goto, Upset
<1>10. ASSUME NEW j \in Jobs, PickPrevious(j) PROVE ClockInv'
  BY <1>10 DEF PickPrevious, Goto
<1>11. ASSUME NEW j \in Jobs, LoadAndDiff(j) PROVE ClockInv'
  BY <1>11 DEF LoadAndDiff, Goto
<1>12. ASSUME NEW j \in Jobs, AppendDrift(j) PROVE ClockInv'
  BY <1>12 DEF AppendDrift, Goto, Upset
<1>13. ASSUME NEW j \in Jobs, JobFails(j) PROVE ClockInv'
  BY <1>13 DEF JobFails, Goto, Upset
<1>14. ASSUME NEW j \in Jobs, JobPanics(j) PROVE ClockInv'
  BY <1>14 DEF JobPanics, Goto, Upset
<1>15. ASSUME NEW i \in Imports, ImportArrives(i) PROVE ClockInv'
  BY <1>15 DEF ImportArrives, Goto
<1>16. ASSUME NEW i \in Imports, ImportChecks(i) PROVE ClockInv'
  BY <1>16 DEF ImportChecks, Answered, Goto
<1>17. ASSUME NEW i \in Imports, ImportLooksUp(i) PROVE ClockInv'
  BY <1>17 DEF ImportLooksUp, Answered, Goto
<1>18. ASSUME NEW i \in Imports, ImportAppends(i) PROVE ClockInv'
  BY <1>18 DEF ImportAppends, Goto
<1>19. ASSUME NEW i \in Imports, ImportFinishes(i) PROVE ClockInv'
  BY <1>19 DEF ImportFinishes, Goto
<1>20. ASSUME NEW i \in Imports, ImportRecords(i) PROVE ClockInv'
  BY <1>20 DEF ImportRecords, Answered, Goto
<1>21. ASSUME NEW i \in Imports, ImportFails(i) PROVE ClockInv'
  BY <1>21 DEF ImportFails, Answered, Goto, Upset
<1>22. ASSUME NEW w \in Writers, Dies(w) PROVE ClockInv'
  BY <1>22 DEF Dies, Goto, Upset
<1>23. CASE AddFleetDomain
  BY <1>23 DEF AddFleetDomain
<1>24. CASE WorldChanges
  BY <1>24 DEF WorldChanges
<1>25. CASE UNCHANGED vars
  BY <1>25 DEF vars
<1> QED
  BY <1>1, <1>2, <1>3, <1>4, <1>5, <1>6, <1>7, <1>8, <1>9, <1>10, <1>11,
     <1>12, <1>13, <1>14, <1>15, <1>16, <1>17, <1>18, <1>19, <1>20, <1>21,
     <1>22, <1>23, <1>24, <1>25
     DEF Next, JobStep, ImportStep, EnvStep, Writers

\* Every action keeps rows in step with their writers.
LEMMA PlaceStep == TypeOK /\ HistoryInv /\ [Next]_vars => PlaceInv'
<1> SUFFICES ASSUME TypeOK, HistoryInv, [Next]_vars PROVE PlaceInv'
  OBVIOUS
<1> USE HistoryAssumption DEF HistoryInv, ClockInv, PlaceInv, TypeOK,
    WorldTypeOK, TableTypeOK, LocalTypeOK, JobPlaces, ImportPlaces, Writers,
    worldVars, tableVars, localVars
<1>1. ASSUME NEW j \in Jobs, JobTicks(j) PROVE PlaceInv'
  BY <1>1 DEF JobTicks, Goto
<1>2. ASSUME NEW j \in Jobs, LookUpTarget(j) PROVE PlaceInv'
  BY <1>2 DEF LookUpTarget, Goto
<1>3. ASSUME NEW j \in Jobs, InsertTarget(j) PROVE PlaceInv'
  BY <1>3 DEF InsertTarget, Goto
<1>4. ASSUME NEW w \in Writers, CreateScan(w) PROVE PlaceInv'
  BY <1>4 DEF CreateScan, Goto
<1>5. ASSUME NEW j \in Jobs, NEW f \in scene.facets, NEW v \in Seen,
            ProbeReports(j, f, v) PROVE PlaceInv'
  BY <1>5 DEF ProbeReports, Upset
<1>6. ASSUME NEW j \in Jobs, FinishScan(j) PROVE PlaceInv'
  BY <1>6 DEF FinishScan, Goto, Upset
<1>7. ASSUME NEW j \in Jobs, ReadForAssessment(j) PROVE PlaceInv'
  BY <1>7 DEF ReadForAssessment, Goto
<1>8. ASSUME NEW j \in Jobs, CreateAssessment(j) PROVE PlaceInv'
  BY <1>8 DEF CreateAssessment, Goto
<1>9. ASSUME NEW j \in Jobs, AssessFails(j) PROVE PlaceInv'
  BY <1>9 DEF AssessFails, Goto, Upset
<1>10. ASSUME NEW j \in Jobs, PickPrevious(j) PROVE PlaceInv'
  BY <1>10 DEF PickPrevious, Goto
<1>11. ASSUME NEW j \in Jobs, LoadAndDiff(j) PROVE PlaceInv'
  BY <1>11 DEF LoadAndDiff, Goto
<1>12. ASSUME NEW j \in Jobs, AppendDrift(j) PROVE PlaceInv'
  BY <1>12 DEF AppendDrift, Goto, Upset
<1>13. ASSUME NEW j \in Jobs, JobFails(j) PROVE PlaceInv'
  BY <1>13 DEF JobFails, Goto, Upset
<1>14. ASSUME NEW j \in Jobs, JobPanics(j) PROVE PlaceInv'
  BY <1>14 DEF JobPanics, Goto, Upset
<1>15. ASSUME NEW i \in Imports, ImportArrives(i) PROVE PlaceInv'
  BY <1>15 DEF ImportArrives, Goto
<1>16. ASSUME NEW i \in Imports, ImportChecks(i) PROVE PlaceInv'
  <2>1. PICK l \in {"done", "lookup"} : pc' = [pc EXCEPT ![i] = l]
    BY <1>16 DEF ImportChecks, Answered, Goto
  <2>2. UNCHANGED <<started, status>>
    BY <1>16 DEF ImportChecks, Answered, Goto
  <2> QED
    BY <1>16, <2>1, <2>2 DEF ImportChecks
<1>17. ASSUME NEW i \in Imports, ImportLooksUp(i) PROVE PlaceInv'
  <2>1. PICK l \in {"done", "create"} : pc' = [pc EXCEPT ![i] = l]
    BY <1>17 DEF ImportLooksUp, Answered, Goto
  <2>2. UNCHANGED <<started, status>>
    BY <1>17 DEF ImportLooksUp, Answered, Goto
  <2> QED
    BY <1>17, <2>1, <2>2 DEF ImportLooksUp
<1>18. ASSUME NEW i \in Imports, ImportAppends(i) PROVE PlaceInv'
  BY <1>18 DEF ImportAppends, Goto
<1>19. ASSUME NEW i \in Imports, ImportFinishes(i) PROVE PlaceInv'
  BY <1>19 DEF ImportFinishes, Goto
<1>20. ASSUME NEW i \in Imports, ImportRecords(i) PROVE PlaceInv'
  BY <1>20 DEF ImportRecords, Answered, Goto
<1>21. ASSUME NEW i \in Imports, ImportFails(i) PROVE PlaceInv'
  BY <1>21 DEF ImportFails, Answered, Goto, Upset
<1>22. ASSUME NEW w \in Writers, Dies(w) PROVE PlaceInv'
  BY <1>22 DEF Dies, Goto, Upset
<1>23. CASE AddFleetDomain
  BY <1>23 DEF AddFleetDomain
<1>24. CASE WorldChanges
  BY <1>24 DEF WorldChanges
<1>25. CASE UNCHANGED vars
  BY <1>25 DEF vars
<1> QED
  BY <1>1, <1>2, <1>3, <1>4, <1>5, <1>6, <1>7, <1>8, <1>9, <1>10, <1>11,
     <1>12, <1>13, <1>14, <1>15, <1>16, <1>17, <1>18, <1>19, <1>20, <1>21,
     <1>22, <1>23, <1>24, <1>25
     DEF Next, JobStep, ImportStep, EnvStep, Writers

\* Every action keeps import findings whole.
LEMMA WholeStep == TypeOK /\ HistoryInv /\ [Next]_vars => WholeInv'
<1> SUFFICES ASSUME TypeOK, HistoryInv, [Next]_vars PROVE WholeInv'
  OBVIOUS
<1> USE HistoryAssumption DEF HistoryInv, PlaceInv, WholeInv, TypeOK,
    WorldTypeOK, TableTypeOK, LocalTypeOK, JobPlaces, ImportPlaces, Writers,
    worldVars, tableVars, localVars
<1>1. ASSUME NEW j \in Jobs, JobTicks(j) PROVE WholeInv'
  BY <1>1 DEF JobTicks, Goto
<1>2. ASSUME NEW j \in Jobs, LookUpTarget(j) PROVE WholeInv'
  BY <1>2 DEF LookUpTarget, Goto
<1>3. ASSUME NEW j \in Jobs, InsertTarget(j) PROVE WholeInv'
  BY <1>3 DEF InsertTarget, Goto
<1>4. ASSUME NEW w \in Writers, CreateScan(w) PROVE WholeInv'
  BY <1>4 DEF CreateScan, Goto
<1>5. ASSUME NEW j \in Jobs, NEW f \in scene.facets, NEW v \in Seen,
            ProbeReports(j, f, v) PROVE WholeInv'
  BY <1>5 DEF ProbeReports, Upset
<1>6. ASSUME NEW j \in Jobs, FinishScan(j) PROVE WholeInv'
  BY <1>6 DEF FinishScan, Goto, Upset
<1>7. ASSUME NEW j \in Jobs, ReadForAssessment(j) PROVE WholeInv'
  BY <1>7 DEF ReadForAssessment, Goto
<1>8. ASSUME NEW j \in Jobs, CreateAssessment(j) PROVE WholeInv'
  BY <1>8 DEF CreateAssessment, Goto
<1>9. ASSUME NEW j \in Jobs, AssessFails(j) PROVE WholeInv'
  BY <1>9 DEF AssessFails, Goto, Upset
<1>10. ASSUME NEW j \in Jobs, PickPrevious(j) PROVE WholeInv'
  BY <1>10 DEF PickPrevious, Goto
<1>11. ASSUME NEW j \in Jobs, LoadAndDiff(j) PROVE WholeInv'
  BY <1>11 DEF LoadAndDiff, Goto
<1>12. ASSUME NEW j \in Jobs, AppendDrift(j) PROVE WholeInv'
  BY <1>12 DEF AppendDrift, Goto, Upset
<1>13. ASSUME NEW j \in Jobs, JobFails(j) PROVE WholeInv'
  BY <1>13 DEF JobFails, Goto, Upset
<1>14. ASSUME NEW j \in Jobs, JobPanics(j) PROVE WholeInv'
  BY <1>14 DEF JobPanics, Goto, Upset
<1>15. ASSUME NEW i \in Imports, ImportArrives(i) PROVE WholeInv'
  BY <1>15 DEF ImportArrives, Goto
<1>16. ASSUME NEW i \in Imports, ImportChecks(i) PROVE WholeInv'
  BY <1>16 DEF ImportChecks, Answered, Goto
<1>17. ASSUME NEW i \in Imports, ImportLooksUp(i) PROVE WholeInv'
  BY <1>17 DEF ImportLooksUp, Answered, Goto
<1>18. ASSUME NEW i \in Imports, ImportAppends(i) PROVE WholeInv'
  BY <1>18 DEF ImportAppends, Goto
<1>19. ASSUME NEW i \in Imports, ImportFinishes(i) PROVE WholeInv'
  BY <1>19 DEF ImportFinishes, Goto
<1>20. ASSUME NEW i \in Imports, ImportRecords(i) PROVE WholeInv'
  BY <1>20 DEF ImportRecords, Answered, Goto
<1>21. ASSUME NEW i \in Imports, ImportFails(i) PROVE WholeInv'
  BY <1>21 DEF ImportFails, Answered, Goto, Upset
<1>22. ASSUME NEW w \in Writers, Dies(w) PROVE WholeInv'
  BY <1>22 DEF Dies, Goto, Upset
<1>23. CASE AddFleetDomain
  BY <1>23 DEF AddFleetDomain
<1>24. CASE WorldChanges
  BY <1>24 DEF WorldChanges
<1>25. CASE UNCHANGED vars
  BY <1>25 DEF vars
<1> QED
  BY <1>1, <1>2, <1>3, <1>4, <1>5, <1>6, <1>7, <1>8, <1>9, <1>10, <1>11,
     <1>12, <1>13, <1>14, <1>15, <1>16, <1>17, <1>18, <1>19, <1>20, <1>21,
     <1>22, <1>23, <1>24, <1>25
     DEF Next, JobStep, ImportStep, EnvStep, Writers

\* What an import scan holds.
Kept == \A o \in Imports : Holds(o) => Holds(o)'

\* A scan that holds a file keeps it.
LEMMA HeldStep == TypeOK /\ HistoryInv /\ [Next]_vars => Kept
<1> SUFFICES ASSUME TypeOK, HistoryInv, [Next]_vars PROVE Kept
  OBVIOUS
<1> USE HistoryAssumption DEF HistoryInv, ClockInv, PlaceInv, WholeInv, Kept,
    Holds, TypeOK, WorldTypeOK, TableTypeOK, LocalTypeOK, JobPlaces,
    ImportPlaces, Writers, worldVars, tableVars, localVars
<1>1. ASSUME NEW j \in Jobs, JobTicks(j) PROVE Kept
  BY <1>1 DEF JobTicks, Goto
<1>2. ASSUME NEW j \in Jobs, LookUpTarget(j) PROVE Kept
  BY <1>2 DEF LookUpTarget, Goto
<1>3. ASSUME NEW j \in Jobs, InsertTarget(j) PROVE Kept
  BY <1>3 DEF InsertTarget, Goto
<1>4. ASSUME NEW w \in Writers, CreateScan(w) PROVE Kept
  BY <1>4 DEF CreateScan, Goto
<1>5. ASSUME NEW j \in Jobs, NEW f \in scene.facets, NEW v \in Seen,
            ProbeReports(j, f, v) PROVE Kept
  BY <1>5 DEF ProbeReports, Upset
<1>6. ASSUME NEW j \in Jobs, FinishScan(j) PROVE Kept
  BY <1>6 DEF FinishScan, Goto, Upset
<1>7. ASSUME NEW j \in Jobs, ReadForAssessment(j) PROVE Kept
  BY <1>7 DEF ReadForAssessment, Goto
<1>8. ASSUME NEW j \in Jobs, CreateAssessment(j) PROVE Kept
  BY <1>8 DEF CreateAssessment, Goto
<1>9. ASSUME NEW j \in Jobs, AssessFails(j) PROVE Kept
  BY <1>9 DEF AssessFails, Goto, Upset
<1>10. ASSUME NEW j \in Jobs, PickPrevious(j) PROVE Kept
  BY <1>10 DEF PickPrevious, Goto
<1>11. ASSUME NEW j \in Jobs, LoadAndDiff(j) PROVE Kept
  BY <1>11 DEF LoadAndDiff, Goto
<1>12. ASSUME NEW j \in Jobs, AppendDrift(j) PROVE Kept
  BY <1>12 DEF AppendDrift, Goto, Upset
<1>13. ASSUME NEW j \in Jobs, JobFails(j) PROVE Kept
  BY <1>13 DEF JobFails, Goto, Upset
<1>14. ASSUME NEW j \in Jobs, JobPanics(j) PROVE Kept
  BY <1>14 DEF JobPanics, Goto, Upset
<1>15. ASSUME NEW i \in Imports, ImportArrives(i) PROVE Kept
  BY <1>15 DEF ImportArrives, Goto
<1>16. ASSUME NEW i \in Imports, ImportChecks(i) PROVE Kept
  BY <1>16 DEF ImportChecks, Answered, Goto
<1>17. ASSUME NEW i \in Imports, ImportLooksUp(i) PROVE Kept
  BY <1>17 DEF ImportLooksUp, Answered, Goto
<1>18. ASSUME NEW i \in Imports, ImportAppends(i) PROVE Kept
  BY <1>18 DEF ImportAppends, Goto
<1>19. ASSUME NEW i \in Imports, ImportFinishes(i) PROVE Kept
  BY <1>19 DEF ImportFinishes, Goto
<1>20. ASSUME NEW i \in Imports, ImportRecords(i) PROVE Kept
  BY <1>20 DEF ImportRecords, Answered, Goto
<1>21. ASSUME NEW i \in Imports, ImportFails(i) PROVE Kept
  BY <1>21 DEF ImportFails, Answered, Goto, Upset
<1>22. ASSUME NEW w \in Writers, Dies(w) PROVE Kept
  BY <1>22 DEF Dies, Goto, Upset
<1>23. CASE AddFleetDomain
  BY <1>23 DEF AddFleetDomain
<1>24. CASE WorldChanges
  BY <1>24 DEF WorldChanges
<1>25. CASE UNCHANGED vars
  BY <1>25 DEF vars
<1> QED
  BY <1>1, <1>2, <1>3, <1>4, <1>5, <1>6, <1>7, <1>8, <1>9, <1>10, <1>11,
     <1>12, <1>13, <1>14, <1>15, <1>16, <1>17, <1>18, <1>19, <1>20, <1>21,
     <1>22, <1>23, <1>24, <1>25
     DEF Next, JobStep, ImportStep, EnvStep, Writers

\* Every action keeps the record of imported files true.
LEMMA RecordStep == TypeOK /\ HistoryInv /\ [Next]_vars => RecordInv'
<1> SUFFICES ASSUME TypeOK, HistoryInv, [Next]_vars PROVE RecordInv'
  OBVIOUS
<1> USE HistoryAssumption DEF HistoryInv, WholeInv, RecordInv, TypeOK,
    WorldTypeOK, TableTypeOK, LocalTypeOK, JobPlaces, ImportPlaces, Writers,
    worldVars, tableVars, localVars
<1>a. Kept
  BY HeldStep
<1>b. ASSUME recorded' = recorded, answer' = answer PROVE RecordInv'
  BY <1>a, <1>b DEF Kept, RecordInv
<1> HIDE DEF RecordInv
<1>1. ASSUME NEW j \in Jobs, JobTicks(j) PROVE RecordInv'
  BY <1>1, <1>b DEF JobTicks, Goto
<1>2. ASSUME NEW j \in Jobs, LookUpTarget(j) PROVE RecordInv'
  BY <1>2, <1>b DEF LookUpTarget, Goto
<1>3. ASSUME NEW j \in Jobs, InsertTarget(j) PROVE RecordInv'
  BY <1>3, <1>b DEF InsertTarget, Goto
<1>4. ASSUME NEW w \in Writers, CreateScan(w) PROVE RecordInv'
  BY <1>4, <1>b DEF CreateScan, Goto
<1>5. ASSUME NEW j \in Jobs, NEW f \in scene.facets, NEW v \in Seen,
            ProbeReports(j, f, v) PROVE RecordInv'
  BY <1>5, <1>b DEF ProbeReports, Upset
<1>6. ASSUME NEW j \in Jobs, FinishScan(j) PROVE RecordInv'
  BY <1>6, <1>b DEF FinishScan, Goto, Upset
<1>7. ASSUME NEW j \in Jobs, ReadForAssessment(j) PROVE RecordInv'
  BY <1>7, <1>b DEF ReadForAssessment, Goto
<1>8. ASSUME NEW j \in Jobs, CreateAssessment(j) PROVE RecordInv'
  BY <1>8, <1>b DEF CreateAssessment, Goto
<1>9. ASSUME NEW j \in Jobs, AssessFails(j) PROVE RecordInv'
  BY <1>9, <1>b DEF AssessFails, Goto, Upset
<1>10. ASSUME NEW j \in Jobs, PickPrevious(j) PROVE RecordInv'
  BY <1>10, <1>b DEF PickPrevious, Goto
<1>11. ASSUME NEW j \in Jobs, LoadAndDiff(j) PROVE RecordInv'
  BY <1>11, <1>b DEF LoadAndDiff, Goto
<1>12. ASSUME NEW j \in Jobs, AppendDrift(j) PROVE RecordInv'
  BY <1>12, <1>b DEF AppendDrift, Goto, Upset
<1>13. ASSUME NEW j \in Jobs, JobFails(j) PROVE RecordInv'
  BY <1>13, <1>b DEF JobFails, Goto, Upset
<1>14. ASSUME NEW j \in Jobs, JobPanics(j) PROVE RecordInv'
  BY <1>14, <1>b DEF JobPanics, Goto, Upset
<1>15. ASSUME NEW i \in Imports, ImportArrives(i) PROVE RecordInv'
  BY <1>15, <1>b DEF ImportArrives, Goto
<1>16. ASSUME NEW i \in Imports, ImportChecks(i) PROVE RecordInv'
  <2>1. /\ answer'[i] # "imported" \/ answer'[i] = answer[i]
        /\ answer'[i] = "already" => FileOf[i] \in recorded \/ answer'[i] = answer[i]
        /\ \A o \in Imports \ {i} : answer'[o] = answer[o]
    BY <1>16 DEF ImportChecks, Answered, Goto
  <2>2. recorded' = recorded
    BY <1>16 DEF ImportChecks, Answered, Goto
  <2> QED
    BY <2>1, <2>2, <1>a DEF Kept, RecordInv
<1>17. ASSUME NEW i \in Imports, ImportLooksUp(i) PROVE RecordInv'
  <2>1. /\ answer'[i] # "imported" \/ answer'[i] = answer[i]
        /\ answer'[i] = "already" => FileOf[i] \in recorded \/ answer'[i] = answer[i]
        /\ \A o \in Imports \ {i} : answer'[o] = answer[o]
    BY <1>17 DEF ImportLooksUp, Answered, Goto
  <2>2. recorded' = recorded
    BY <1>17 DEF ImportLooksUp, Answered, Goto
  <2> QED
    BY <2>1, <2>2, <1>a DEF Kept, RecordInv
<1>18. ASSUME NEW i \in Imports, ImportAppends(i) PROVE RecordInv'
  BY <1>18, <1>b DEF ImportAppends, Goto
<1>19. ASSUME NEW i \in Imports, ImportFinishes(i) PROVE RecordInv'
  BY <1>19, <1>b DEF ImportFinishes, Goto
<1>20. ASSUME NEW i \in Imports, ImportRecords(i) PROVE RecordInv'
  <2>1. FileOf[i] \in recorded => answer'[i] = "error"
    BY <1>20 DEF ImportRecords, Answered, Goto
  <2>2. /\ \A o \in Imports \ {i} : answer'[o] = answer[o]
        /\ recorded' = recorded \cup {FileOf[i]}
    BY <1>20 DEF ImportRecords, Answered, Goto
  <2>3. Holds(i)
    BY <1>20 DEF ImportRecords, Holds
  <2>4. \A o \in Imports : answer'[o] \in {"already", "imported"} => FileOf[o] \in recorded'
    BY <2>2 DEF RecordInv
  <2>5. \A f \in recorded' : \E o \in Imports : FileOf[o] = f /\ Holds(o)'
    BY <2>2, <2>3, <1>a DEF Kept, RecordInv
  <2>6. \A i1, i2 \in Imports :
           /\ FileOf[i1] = FileOf[i2]
           /\ answer'[i1] = "imported" /\ answer'[i2] = "imported"
           => i1 = i2
    BY <2>1, <2>2 DEF RecordInv
  <2> QED
    BY <2>4, <2>5, <2>6 DEF RecordInv
<1>21. ASSUME NEW i \in Imports, ImportFails(i) PROVE RecordInv'
  <2>1. /\ answer'[i] # "imported" \/ answer'[i] = answer[i]
        /\ answer'[i] = "already" => FileOf[i] \in recorded \/ answer'[i] = answer[i]
        /\ \A o \in Imports \ {i} : answer'[o] = answer[o]
    BY <1>21 DEF ImportFails, Answered, Goto, Upset
  <2>2. recorded' = recorded
    BY <1>21 DEF ImportFails, Answered, Goto, Upset
  <2> QED
    BY <2>1, <2>2, <1>a DEF Kept, RecordInv
<1>22. ASSUME NEW w \in Writers, Dies(w) PROVE RecordInv'
  BY <1>22, <1>b DEF Dies, Goto, Upset
<1>23. CASE AddFleetDomain
  BY <1>23, <1>b DEF AddFleetDomain
<1>24. CASE WorldChanges
  BY <1>24, <1>b DEF WorldChanges
<1>25. CASE UNCHANGED vars
  BY <1>25, <1>b DEF vars
<1> QED
  BY <1>1, <1>2, <1>3, <1>4, <1>5, <1>6, <1>7, <1>8, <1>9, <1>10, <1>11,
     <1>12, <1>13, <1>14, <1>15, <1>16, <1>17, <1>18, <1>19, <1>20, <1>21,
     <1>22, <1>23, <1>24, <1>25
     DEF Next, JobStep, ImportStep, EnvStep, Writers

\* Every action keeps what assessments have read.
LEMMA UsedStep == TypeOK /\ HistoryInv /\ [Next]_vars => UsedInv'
<1> SUFFICES ASSUME TypeOK, HistoryInv, [Next]_vars PROVE UsedInv'
  OBVIOUS
<1> USE HistoryAssumption DEF HistoryInv, UsedInv, WholeInv, ClockInv,
    PlaceInv, TypeOK, WorldTypeOK, TableTypeOK, LocalTypeOK, JobPlaces,
    ImportPlaces, worldVars, tableVars, localVars
<1>1. ASSUME NEW j \in Jobs, JobTicks(j) PROVE UsedInv'
  BY <1>1 DEF JobTicks, Goto
<1>2. ASSUME NEW j \in Jobs, LookUpTarget(j) PROVE UsedInv'
  BY <1>2 DEF LookUpTarget, Goto
<1>3. ASSUME NEW j \in Jobs, InsertTarget(j) PROVE UsedInv'
  BY <1>3 DEF InsertTarget, Goto
<1>4. ASSUME NEW w \in Writers, CreateScan(w) PROVE UsedInv'
  BY <1>4 DEF CreateScan, Goto
<1>5. ASSUME NEW j \in Jobs, NEW f \in scene.facets, NEW v \in Seen,
            ProbeReports(j, f, v) PROVE UsedInv'
  BY <1>5 DEF ProbeReports, Upset
<1>6. ASSUME NEW j \in Jobs, FinishScan(j) PROVE UsedInv'
  BY <1>6 DEF FinishScan, Goto, Upset
<1>7. ASSUME NEW j \in Jobs, ReadForAssessment(j) PROVE UsedInv'
  <2>1. /\ \A t \in Types : used'[j][t] = LatestImport(t)
        /\ \A o \in Jobs \ {j} : used'[o] = used[o]
        /\ UNCHANGED <<started, types>>
    BY <1>7 DEF ReadForAssessment
  <2>2. \A t \in Types : LatestImport(t) # NoScan =>
           started[LatestImport(t)] # 0 /\ t \in types[LatestImport(t)]
    BY LatestImportIsLast
  <2> SUFFICES ASSUME NEW o \in Jobs, NEW t \in Types, used'[o][t] # NoScan
               PROVE  started[used'[o][t]] # 0 /\ t \in types[used'[o][t]]
    BY <2>1
  <2>3. CASE o = j
    BY <2>1, <2>2, <2>3
  <2>4. CASE o # j
    BY <2>1, <2>4
  <2> QED
    BY <2>3, <2>4
<1>8. ASSUME NEW j \in Jobs, CreateAssessment(j) PROVE UsedInv'
  BY <1>8 DEF CreateAssessment, Goto
<1>9. ASSUME NEW j \in Jobs, AssessFails(j) PROVE UsedInv'
  BY <1>9 DEF AssessFails, Goto, Upset
<1>10. ASSUME NEW j \in Jobs, PickPrevious(j) PROVE UsedInv'
  BY <1>10 DEF PickPrevious, Goto
<1>11. ASSUME NEW j \in Jobs, LoadAndDiff(j) PROVE UsedInv'
  BY <1>11 DEF LoadAndDiff, Goto
<1>12. ASSUME NEW j \in Jobs, AppendDrift(j) PROVE UsedInv'
  BY <1>12 DEF AppendDrift, Goto, Upset
<1>13. ASSUME NEW j \in Jobs, JobFails(j) PROVE UsedInv'
  BY <1>13 DEF JobFails, Goto, Upset
<1>14. ASSUME NEW j \in Jobs, JobPanics(j) PROVE UsedInv'
  BY <1>14 DEF JobPanics, Goto, Upset
<1>15. ASSUME NEW i \in Imports, ImportArrives(i) PROVE UsedInv'
  BY <1>15 DEF ImportArrives, Goto
<1>16. ASSUME NEW i \in Imports, ImportChecks(i) PROVE UsedInv'
  BY <1>16 DEF ImportChecks, Answered, Goto
<1>17. ASSUME NEW i \in Imports, ImportLooksUp(i) PROVE UsedInv'
  BY <1>17 DEF ImportLooksUp, Answered, Goto
<1>18. ASSUME NEW i \in Imports, ImportAppends(i) PROVE UsedInv'
  <2>1. /\ \A w \in Writers : types[w] \subseteq types'[w]
        /\ UNCHANGED <<started, used>>
    BY <1>18 DEF ImportAppends, Writers
  <2> QED
    BY <2>1
<1>19. ASSUME NEW i \in Imports, ImportFinishes(i) PROVE UsedInv'
  BY <1>19 DEF ImportFinishes, Goto
<1>20. ASSUME NEW i \in Imports, ImportRecords(i) PROVE UsedInv'
  BY <1>20 DEF ImportRecords, Answered, Goto
<1>21. ASSUME NEW i \in Imports, ImportFails(i) PROVE UsedInv'
  BY <1>21 DEF ImportFails, Answered, Goto, Upset
<1>22. ASSUME NEW w \in Writers, Dies(w) PROVE UsedInv'
  BY <1>22 DEF Dies, Goto, Upset
<1>23. CASE AddFleetDomain
  BY <1>23 DEF AddFleetDomain
<1>24. CASE WorldChanges
  BY <1>24 DEF WorldChanges
<1>25. CASE UNCHANGED vars
  BY <1>25 DEF vars
<1> QED
  BY <1>1, <1>2, <1>3, <1>4, <1>5, <1>6, <1>7, <1>8, <1>9, <1>10, <1>11,
     <1>12, <1>13, <1>14, <1>15, <1>16, <1>17, <1>18, <1>19, <1>20, <1>21,
     <1>22, <1>23, <1>24, <1>25
     DEF Next, JobStep, ImportStep, EnvStep, Writers

\* The first two steps of an import only move it on.
LEMMA ImportMoves ==
    ASSUME TypeOK, NEW i \in Imports, ImportChecks(i) \/ ImportLooksUp(i)
    PROVE  /\ pc'[i] \in ImportPlaces
           /\ \A w \in Writers \ {i} : pc'[w] = pc[w]
           /\ \A j \in Jobs : pc'[j] = pc[j]
           /\ UNCHANGED <<started, status, facts, types, drift, mem, base, diff,
                          early, upset>>
<1> USE HistoryAssumption
    DEF TypeOK, LocalTypeOK, ImportPlaces, Writers, worldVars, tableVars,
        localVars
<1>1. CASE ImportChecks(i)
  <2>1. PICK l \in {"done", "lookup"} : pc' = [pc EXCEPT ![i] = l]
    BY <1>1 DEF ImportChecks, Answered, Goto
  <2> QED
    BY <1>1, <2>1 DEF ImportChecks, Answered
<1>2. CASE ImportLooksUp(i)
  <2>1. PICK l \in {"done", "create"} : pc' = [pc EXCEPT ![i] = l]
    BY <1>2 DEF ImportLooksUp, Answered, Goto
  <2> QED
    BY <1>2, <2>1 DEF ImportLooksUp, Answered
<1> QED
  BY <1>1, <1>2

(***************************************************************************)
(* What no step takes back: a started scan keeps its time, an ended one    *)
(* its findings, and a job that computed its drift keeps all it used.      *)
(***************************************************************************)
Stable ==
    /\ upset \subseteq upset'
    /\ now' \in Nat /\ now <= now'
    /\ \A w \in Writers : /\ started[w] # 0 => started'[w] = started[w]
                          /\ started'[w] # started[w] =>
                                started'[w] \in Nat /\ started'[w] > now
                          /\ started[w] # 0 /\ status[w] # "running" =>
                                status'[w] = status[w] /\ facts'[w] = facts[w]
    /\ \A j \in Jobs :
          /\ pc[j] = "done" => pc'[j] = "done"
          /\ pc[j] = "append" => pc'[j] \in {"append", "done"}
          /\ pc[j] = "load" => pc'[j] \in {"load", "append", "done"}
          /\ pc[j] \in {"load", "append", "done"} =>
                mem'[j] = mem[j] /\ base'[j] = base[j] /\ started'[j] = started[j]
          /\ pc[j] \in {"append", "done"} =>
                diff'[j] = diff[j] /\ (j \in early' <=> j \in early)

(***************************************************************************)
(* How a job gets to its drift findings and to its end.                    *)
(***************************************************************************)
Turns ==
    \A j \in Jobs :
        /\ base'[j] # base[j] => pc[j] = "pick" /\ pc'[j] = "load"
        /\ pc[j] # "load" /\ pc'[j] = "load" => PickPrevious(j)
        /\ pc[j] # "append" /\ pc'[j] = "append" => LoadAndDiff(j)
        /\ pc[j] # "done" /\ pc'[j] = "done" =>
              \/ j \in upset' \/ started'[j] = 0
              \/ pc[j] = "append" /\ (drift'[j] = diff[j] \/ ~Valid(j))
        /\ drift'[j] # drift[j] =>
              pc[j] = "append" /\ pc'[j] = "done" /\ drift'[j] = diff[j]

\* No step takes any of that back.
LEMMA StableStep == TypeOK /\ HistoryInv /\ [Next]_vars => Stable
<1> SUFFICES ASSUME TypeOK, HistoryInv, [Next]_vars PROVE Stable
  OBVIOUS
<1> USE HistoryAssumption DEF HistoryInv, Stable, PlaceInv, ClockInv, TypeOK,
    WorldTypeOK, TableTypeOK, LocalTypeOK, JobPlaces, ImportPlaces, Writers,
    worldVars, tableVars, localVars
<1>1. ASSUME NEW j \in Jobs, JobTicks(j) PROVE Stable
  BY <1>1 DEF JobTicks, Goto
<1>2. ASSUME NEW j \in Jobs, LookUpTarget(j) PROVE Stable
  BY <1>2 DEF LookUpTarget, Goto
<1>3. ASSUME NEW j \in Jobs, InsertTarget(j) PROVE Stable
  BY <1>3 DEF InsertTarget, Goto
<1>4. ASSUME NEW w \in Writers, CreateScan(w) PROVE Stable
  BY <1>4 DEF CreateScan, Goto
<1>5. ASSUME NEW j \in Jobs, NEW f \in scene.facets, NEW v \in Seen,
            ProbeReports(j, f, v) PROVE Stable
  BY <1>5 DEF ProbeReports, Upset
<1>6. ASSUME NEW j \in Jobs, FinishScan(j) PROVE Stable
  BY <1>6 DEF FinishScan, Goto, Upset
<1>7. ASSUME NEW j \in Jobs, ReadForAssessment(j) PROVE Stable
  BY <1>7 DEF ReadForAssessment, Goto
<1>8. ASSUME NEW j \in Jobs, CreateAssessment(j) PROVE Stable
  BY <1>8 DEF CreateAssessment, Goto
<1>9. ASSUME NEW j \in Jobs, AssessFails(j) PROVE Stable
  BY <1>9 DEF AssessFails, Goto, Upset
<1>10. ASSUME NEW j \in Jobs, PickPrevious(j) PROVE Stable
  BY <1>10 DEF PickPrevious, Goto
<1>11. ASSUME NEW j \in Jobs, LoadAndDiff(j) PROVE Stable
  BY <1>11 DEF LoadAndDiff, Goto
<1>12. ASSUME NEW j \in Jobs, AppendDrift(j) PROVE Stable
  BY <1>12 DEF AppendDrift, Goto, Upset
<1>13. ASSUME NEW j \in Jobs, JobFails(j) PROVE Stable
  BY <1>13 DEF JobFails, Goto, Upset
<1>14. ASSUME NEW j \in Jobs, JobPanics(j) PROVE Stable
  BY <1>14 DEF JobPanics, Goto, Upset
<1>15. ASSUME NEW i \in Imports, ImportArrives(i) PROVE Stable
  BY <1>15 DEF ImportArrives, Goto
<1>16. ASSUME NEW i \in Imports, ImportChecks(i) PROVE Stable
  BY <1>16, ImportMoves DEF ImportChecks, Answered, Goto
<1>17. ASSUME NEW i \in Imports, ImportLooksUp(i) PROVE Stable
  BY <1>17, ImportMoves DEF ImportLooksUp, Answered, Goto
<1>18. ASSUME NEW i \in Imports, ImportAppends(i) PROVE Stable
  BY <1>18 DEF ImportAppends, Goto
<1>19. ASSUME NEW i \in Imports, ImportFinishes(i) PROVE Stable
  BY <1>19 DEF ImportFinishes, Goto
<1>20. ASSUME NEW i \in Imports, ImportRecords(i) PROVE Stable
  BY <1>20 DEF ImportRecords, Answered, Goto
<1>21. ASSUME NEW i \in Imports, ImportFails(i) PROVE Stable
  BY <1>21 DEF ImportFails, Answered, Goto, Upset
<1>22. ASSUME NEW w \in Writers, Dies(w) PROVE Stable
  BY <1>22 DEF Dies, Goto, Upset
<1>23. CASE AddFleetDomain
  BY <1>23 DEF AddFleetDomain
<1>24. CASE WorldChanges
  BY <1>24 DEF WorldChanges
<1>25. CASE UNCHANGED vars
  BY <1>25 DEF vars
<1> QED
  BY <1>1, <1>2, <1>3, <1>4, <1>5, <1>6, <1>7, <1>8, <1>9, <1>10, <1>11,
     <1>12, <1>13, <1>14, <1>15, <1>16, <1>17, <1>18, <1>19, <1>20, <1>21,
     <1>22, <1>23, <1>24, <1>25
     DEF Next, JobStep, ImportStep, EnvStep, Writers

\* No other step moves a job there.
LEMMA TurnStep == TypeOK /\ HistoryInv /\ [Next]_vars => Turns
<1> SUFFICES ASSUME TypeOK, HistoryInv, [Next]_vars PROVE Turns
  OBVIOUS
<1> USE HistoryAssumption DEF HistoryInv, Turns, PlaceInv, TypeOK,
    WorldTypeOK, TableTypeOK, LocalTypeOK, JobPlaces, ImportPlaces, Writers,
    worldVars, tableVars, localVars
<1>1. ASSUME NEW j \in Jobs, JobTicks(j) PROVE Turns
  BY <1>1 DEF JobTicks, Goto
<1>2. ASSUME NEW j \in Jobs, LookUpTarget(j) PROVE Turns
  BY <1>2 DEF LookUpTarget, Goto
<1>3. ASSUME NEW j \in Jobs, InsertTarget(j) PROVE Turns
  BY <1>3 DEF InsertTarget, Goto
<1>4. ASSUME NEW w \in Writers, CreateScan(w) PROVE Turns
  BY <1>4 DEF CreateScan, Goto
<1>5. ASSUME NEW j \in Jobs, NEW f \in scene.facets, NEW v \in Seen,
            ProbeReports(j, f, v) PROVE Turns
  BY <1>5 DEF ProbeReports, Upset
<1>6. ASSUME NEW j \in Jobs, FinishScan(j) PROVE Turns
  BY <1>6 DEF FinishScan, Goto, Upset
<1>7. ASSUME NEW j \in Jobs, ReadForAssessment(j) PROVE Turns
  BY <1>7 DEF ReadForAssessment, Goto
<1>8. ASSUME NEW j \in Jobs, CreateAssessment(j) PROVE Turns
  BY <1>8 DEF CreateAssessment, Goto
<1>9. ASSUME NEW j \in Jobs, AssessFails(j) PROVE Turns
  BY <1>9 DEF AssessFails, Goto, Upset
<1>10. ASSUME NEW j \in Jobs, PickPrevious(j) PROVE Turns
  BY <1>10 DEF PickPrevious, Goto
<1>11. ASSUME NEW j \in Jobs, LoadAndDiff(j) PROVE Turns
  BY <1>11 DEF LoadAndDiff, Goto
<1>12. ASSUME NEW j \in Jobs, AppendDrift(j) PROVE Turns
  BY <1>12 DEF AppendDrift, Goto, Upset
<1>13. ASSUME NEW j \in Jobs, JobFails(j) PROVE Turns
  BY <1>13 DEF JobFails, Goto, Upset
<1>14. ASSUME NEW j \in Jobs, JobPanics(j) PROVE Turns
  BY <1>14 DEF JobPanics, Goto, Upset
<1>15. ASSUME NEW i \in Imports, ImportArrives(i) PROVE Turns
  BY <1>15 DEF ImportArrives, Goto
<1>16. ASSUME NEW i \in Imports, ImportChecks(i) PROVE Turns
  <2>1. UNCHANGED <<drift, base>> /\ \A o \in Jobs : pc'[o] = pc[o]
    BY <1>16, ImportMoves
  <2> QED
    BY <2>1
<1>17. ASSUME NEW i \in Imports, ImportLooksUp(i) PROVE Turns
  <2>1. UNCHANGED <<drift, base>> /\ \A o \in Jobs : pc'[o] = pc[o]
    BY <1>17, ImportMoves
  <2> QED
    BY <2>1
<1>18. ASSUME NEW i \in Imports, ImportAppends(i) PROVE Turns
  BY <1>18 DEF ImportAppends, Goto
<1>19. ASSUME NEW i \in Imports, ImportFinishes(i) PROVE Turns
  BY <1>19 DEF ImportFinishes, Goto
<1>20. ASSUME NEW i \in Imports, ImportRecords(i) PROVE Turns
  BY <1>20 DEF ImportRecords, Answered, Goto
<1>21. ASSUME NEW i \in Imports, ImportFails(i) PROVE Turns
  BY <1>21 DEF ImportFails, Answered, Goto, Upset
<1>22. ASSUME NEW w \in Writers, Dies(w) PROVE Turns
  BY <1>22 DEF Dies, Goto, Upset
<1>23. CASE AddFleetDomain
  BY <1>23 DEF AddFleetDomain
<1>24. CASE WorldChanges
  BY <1>24 DEF WorldChanges
<1>25. CASE UNCHANGED vars
  BY <1>25 DEF vars
<1> QED
  BY <1>1, <1>2, <1>3, <1>4, <1>5, <1>6, <1>7, <1>8, <1>9, <1>10, <1>11,
     <1>12, <1>13, <1>14, <1>15, <1>16, <1>17, <1>18, <1>19, <1>20, <1>21,
     <1>22, <1>23, <1>24, <1>25
     DEF Next, JobStep, ImportStep, EnvStep, Writers

\* Every action keeps memory and table together, or meets an error.
LEMMA MemoryStep == TypeOK /\ HistoryInv /\ [Next]_vars => MemoryInv'
<1> SUFFICES ASSUME TypeOK, HistoryInv, [Next]_vars PROVE MemoryInv'
  OBVIOUS
<1> USE HistoryAssumption DEF HistoryInv, MemoryInv, TypeOK, WorldTypeOK,
    TableTypeOK, LocalTypeOK, JobPlaces, ImportPlaces, Writers, worldVars,
    tableVars, localVars
<1>1. ASSUME NEW j \in Jobs, JobTicks(j) PROVE MemoryInv'
  BY <1>1 DEF JobTicks, Goto
<1>2. ASSUME NEW j \in Jobs, LookUpTarget(j) PROVE MemoryInv'
  BY <1>2 DEF LookUpTarget, Goto
<1>3. ASSUME NEW j \in Jobs, InsertTarget(j) PROVE MemoryInv'
  BY <1>3 DEF InsertTarget, Goto
<1>4. ASSUME NEW w \in Writers, CreateScan(w) PROVE MemoryInv'
  BY <1>4 DEF CreateScan, Goto
<1>5. ASSUME NEW j \in Jobs, NEW f \in scene.facets, NEW v \in Seen,
            ProbeReports(j, f, v) PROVE MemoryInv'
  <2>1. mem'[j] = [mem[j] EXCEPT ![f] = v] /\ \A o \in Jobs \ {j} : mem'[o] = mem[o]
    BY <1>5 DEF ProbeReports
  <2>2. \A o \in Jobs \ {j} : facts'[o] = facts[o]
    BY <1>5 DEF ProbeReports
  <2>3. upset \subseteq upset' /\ (j \in upset' \/ facts'[j] = [facts[j] EXCEPT ![f] = v])
    BY <1>5 DEF ProbeReports, Upset
  <2> QED
    BY <2>1, <2>2, <2>3
<1>6. ASSUME NEW j \in Jobs, FinishScan(j) PROVE MemoryInv'
  BY <1>6 DEF FinishScan, Goto, Upset
<1>7. ASSUME NEW j \in Jobs, ReadForAssessment(j) PROVE MemoryInv'
  BY <1>7 DEF ReadForAssessment, Goto
<1>8. ASSUME NEW j \in Jobs, CreateAssessment(j) PROVE MemoryInv'
  BY <1>8 DEF CreateAssessment, Goto
<1>9. ASSUME NEW j \in Jobs, AssessFails(j) PROVE MemoryInv'
  BY <1>9 DEF AssessFails, Goto, Upset
<1>10. ASSUME NEW j \in Jobs, PickPrevious(j) PROVE MemoryInv'
  BY <1>10 DEF PickPrevious, Goto
<1>11. ASSUME NEW j \in Jobs, LoadAndDiff(j) PROVE MemoryInv'
  BY <1>11 DEF LoadAndDiff, Goto
<1>12. ASSUME NEW j \in Jobs, AppendDrift(j) PROVE MemoryInv'
  BY <1>12 DEF AppendDrift, Goto, Upset
<1>13. ASSUME NEW j \in Jobs, JobFails(j) PROVE MemoryInv'
  BY <1>13 DEF JobFails, Goto, Upset
<1>14. ASSUME NEW j \in Jobs, JobPanics(j) PROVE MemoryInv'
  BY <1>14 DEF JobPanics, Goto, Upset
<1>15. ASSUME NEW i \in Imports, ImportArrives(i) PROVE MemoryInv'
  BY <1>15 DEF ImportArrives, Goto
<1>16. ASSUME NEW i \in Imports, ImportChecks(i) PROVE MemoryInv'
  BY <1>16, ImportMoves
<1>17. ASSUME NEW i \in Imports, ImportLooksUp(i) PROVE MemoryInv'
  BY <1>17, ImportMoves
<1>18. ASSUME NEW i \in Imports, ImportAppends(i) PROVE MemoryInv'
  BY <1>18 DEF ImportAppends, Goto
<1>19. ASSUME NEW i \in Imports, ImportFinishes(i) PROVE MemoryInv'
  BY <1>19 DEF ImportFinishes, Goto
<1>20. ASSUME NEW i \in Imports, ImportRecords(i) PROVE MemoryInv'
  BY <1>20 DEF ImportRecords, Answered, Goto
<1>21. ASSUME NEW i \in Imports, ImportFails(i) PROVE MemoryInv'
  BY <1>21 DEF ImportFails, Answered, Goto, Upset
<1>22. ASSUME NEW w \in Writers, Dies(w) PROVE MemoryInv'
  BY <1>22 DEF Dies, Goto, Upset
<1>23. CASE AddFleetDomain
  BY <1>23 DEF AddFleetDomain
<1>24. CASE WorldChanges
  BY <1>24 DEF WorldChanges
<1>25. CASE UNCHANGED vars
  BY <1>25 DEF vars
<1> QED
  BY <1>1, <1>2, <1>3, <1>4, <1>5, <1>6, <1>7, <1>8, <1>9, <1>10, <1>11,
     <1>12, <1>13, <1>14, <1>15, <1>16, <1>17, <1>18, <1>19, <1>20, <1>21,
     <1>22, <1>23, <1>24, <1>25
     DEF Next, JobStep, ImportStep, EnvStep, Writers

\* Nothing that was first stops being first.
LEMMA FirstStays ==
    ASSUME TypeOK, ClockInv, Stable, NEW j \in Jobs, started[j] # 0, First(j)
    PROVE  First(j)'
<1>1. /\ now \in Nat /\ started[j] \in Nat /\ started[j] <= now
      /\ started'[j] = started[j]
  BY DEF TypeOK, TableTypeOK, ClockInv, Stable, Writers
<1> SUFFICES ASSUME NEW o \in Jobs \ {j}, started'[o] # 0
             PROVE  started'[o] > started[j]
  BY <1>1 DEF First
<1>2. CASE started'[o] = started[o]
  BY <1>2 DEF First
<1>3. CASE started'[o] # started[o]
  <2>1. started'[o] > now /\ started'[o] \in Nat
    BY <1>3 DEF Stable, Writers
  <2> QED
    BY <1>1, <2>1
<1> QED
  BY <1>2, <1>3

\* A job without an earlier scan is the first.
LEMMA NoneEarlier ==
    ASSUME TypeOK, HistoryInv, NEW j \in Jobs, started[j] # 0,
           EarlierScans(j) = {}
    PROVE  First(j)
<1>1. \A o \in Jobs : types[o] = {} /\ started[o] \in Nat
  BY DEF HistoryInv, WholeInv, TypeOK, TableTypeOK, Writers
<1>2. \A o \in Jobs \ {j} : started[o] # 0 => started[o] # started[j]
  BY DEF HistoryInv, ClockInv, Writers
<1>3. \A o \in Jobs : started[o] # 0 => ~(started[o] < started[j])
  BY <1>1 DEF EarlierScans, Writers
<1> QED
  BY <1>1, <1>2, <1>3 DEF First

\* Every action keeps what a job compares with.
LEMMA BaseStep == TypeOK /\ HistoryInv /\ [Next]_vars => BaseInv'
<1> SUFFICES ASSUME TypeOK, HistoryInv, [Next]_vars, NEW j \in Jobs PROVE
        /\ base'[j] # NoScan => /\ pc'[j] \in {"load", "append", "done"}
                                /\ started'[base'[j]] # 0
        /\ pc'[j] \in {"load", "append"} /\ base'[j] = NoScan => First(j)'
        /\ pc'[j] = "append" =>
              /\ diff'[j] # {}
              /\ base'[j] = NoScan => diff'[j] = {"baseline"}
              /\ "baseline" \in diff'[j] => base'[j] = NoScan
  BY DEF BaseInv
<1>0. Stable /\ Turns /\ ClockInv /\ PlaceInv /\ BaseInv
  BY StableStep, TurnStep DEF HistoryInv
<1>1. j \in Writers /\ NoScan \notin Writers
  BY HistoryAssumption DEF Writers
<1>2. CASE pc[j] # "load" /\ pc'[j] = "load"
  <2>1. /\ base'[j] = IF EarlierScans(j) = {} THEN NoScan ELSE Latest(EarlierScans(j))
        /\ started' = started /\ pc[j] = "pick"
    BY <1>2, <1>0 DEF Turns, PickPrevious, TypeOK, LocalTypeOK, tableVars
  <2>2. started[j] # 0
    BY <1>0, <1>1, <2>1 DEF PlaceInv
  <2>3. EarlierScans(j) # {} => Latest(EarlierScans(j)) \in EarlierScans(j)
    BY <1>0, PreviousIsEarlier
  <2>4. EarlierScans(j) = {} => First(j)
    BY <2>2, NoneEarlier
  <2>5. \A p \in EarlierScans(j) : started[p] # 0 /\ p # NoScan
    BY <1>1 DEF EarlierScans
  <2>6. First(j) => First(j)'
    BY <2>1 DEF First
  <2> QED
    BY <1>2, <2>1, <2>3, <2>4, <2>5, <2>6
<1>3. CASE pc[j] # "append" /\ pc'[j] = "append"
  <2>1. /\ diff'[j] = Diff(base[j], mem[j]) /\ base' = base
        /\ started' = started /\ pc[j] = "load"
    BY <1>3, <1>0 DEF Turns, LoadAndDiff, TypeOK, LocalTypeOK, tableVars
  <2>2. base[j] # NoScan => started[base[j]] # 0
    BY <1>0 DEF BaseInv
  <2>3. base[j] = NoScan => First(j)
    BY <1>0, <2>1 DEF BaseInv
  <2>4. First(j) => First(j)'
    BY <2>1 DEF First
  <2> QED
    BY <1>3, <2>1, <2>2, <2>3, <2>4, DiffType
<1>4. CASE ~(pc[j] # "load" /\ pc'[j] = "load") /\ ~(pc[j] # "append" /\ pc'[j] = "append")
  <2>1. base'[j] = base[j]
    BY <1>0, <1>4 DEF Turns
  <2>2. base[j] # NoScan => started'[base[j]] # 0 /\ pc'[j] \in {"load", "append", "done"}
    BY <1>0 DEF Stable, BaseInv, TypeOK, LocalTypeOK
  <2>3. pc'[j] \in {"load", "append"} => pc[j] = pc'[j]
    BY <1>4
  <2>4. pc[j] \in {"load", "append"} => started[j] # 0
    BY <1>0, <1>1 DEF PlaceInv
  <2>5. pc'[j] \in {"load", "append"} /\ base'[j] = NoScan => First(j)'
    BY <1>0, <2>1, <2>3, <2>4, FirstStays DEF BaseInv
  <2>6. pc'[j] = "append" => diff'[j] = diff[j]
    BY <1>0, <2>3 DEF Stable
  <2> QED
    BY <1>0, <2>1, <2>2, <2>3, <2>5, <2>6 DEF BaseInv
<1> QED
  BY <1>2, <1>3, <1>4

\* Every action keeps drift findings as they were computed.
LEMMA DriftStep == TypeOK /\ HistoryInv /\ [Next]_vars => DriftInv'
<1> SUFFICES ASSUME TypeOK, HistoryInv, [Next]_vars, NEW j \in Jobs,
                    drift'[j] # {}
             PROVE  /\ drift'[j] = diff'[j] /\ pc'[j] = "done" /\ started'[j] # 0
                    /\ "baseline" \in drift'[j] => drift'[j] = {"baseline"} /\ First(j)'
  BY DEF DriftInv
<1>0. Stable /\ Turns /\ ClockInv /\ PlaceInv /\ BaseInv /\ DriftInv /\ j \in Writers
  BY StableStep, TurnStep DEF HistoryInv, Writers
<1>1. CASE drift'[j] # drift[j]
  <2>1. pc[j] = "append" /\ pc'[j] = "done" /\ drift'[j] = diff[j] /\ diff'[j] = diff[j]
    BY <1>0, <1>1 DEF Turns, Stable
  <2>2. "baseline" \in diff[j] => diff[j] = {"baseline"} /\ First(j)
    BY <1>0, <2>1 DEF BaseInv
  <2>3. started[j] # 0
    BY <1>0, <2>1 DEF PlaceInv
  <2>4. started'[j] # 0 /\ (First(j) => First(j)')
    BY <1>0, <2>3, FirstStays DEF Stable
  <2> QED
    BY <2>1, <2>2, <2>4
<1>2. CASE drift'[j] = drift[j]
  <2>1. pc[j] = "done" /\ drift[j] = diff[j] /\ pc'[j] = "done" /\ diff'[j] = diff[j]
    BY <1>0, <1>2 DEF DriftInv, Stable
  <2>2. started[j] # 0
    BY <1>0, <1>2 DEF DriftInv
  <2>3. started'[j] # 0 /\ (First(j) => First(j)')
    BY <1>0, <2>2, FirstStays DEF Stable
  <2> QED
    BY <1>0, <1>2, <2>1, <2>3 DEF DriftInv
<1> QED
  BY <1>1, <1>2

\* No action loses drift findings without a cause.
LEMMA LostStep == TypeOK /\ HistoryInv /\ [Next]_vars => LostDriftHasCause'
<1> SUFFICES ASSUME TypeOK, HistoryInv, [Next]_vars, NEW j \in Jobs,
                    j \notin upset', pc'[j] = "done", started'[j] # 0, drift'[j] = {}
             PROVE  \E f \in SetFacets : mem'[j][f] = Nothing /\ base'[j] # NoScan
  BY DEF LostDriftHasCause
<1>0. Stable /\ Turns /\ BaseInv /\ PlaceInv /\ DriftInv /\ j \in Writers
  BY StableStep, TurnStep DEF HistoryInv, Writers
<1>1. CASE pc[j] = "done"
  <2>1. started[j] # 0
    BY <1>0, <1>1 DEF Stable
  <2>2. drift[j] = {} /\ j \notin upset /\ mem'[j] = mem[j] /\ base'[j] = base[j]
    BY <1>0, <1>1 DEF Turns, Stable
  <2> QED
    BY <1>1, <2>1, <2>2 DEF HistoryInv, LostDriftHasCause
<1>2. CASE pc[j] # "done"
  <2>1. pc[j] = "append" /\ ~Valid(j) /\ diff[j] # {}
    BY <1>0, <1>2 DEF Turns, BaseInv
  <2>2. PICK f \in diff[j] \cap SetFacets : mem[j][f] = Nothing
    BY <2>1 DEF Valid
  <2>3. f # "baseline"
    BY <2>2, HistoryAssumption DEF Facets
  <2>4. base[j] # NoScan
    BY <1>0, <2>1, <2>2, <2>3 DEF BaseInv
  <2> QED
    BY <1>0, <2>1, <2>2, <2>4 DEF Stable
<1> QED
  BY <1>1, <1>2

\* Every action keeps what drift was computed from.
LEMMA FrozenStep == TypeOK /\ HistoryInv /\ [Next]_vars => FrozenInv'
<1> SUFFICES ASSUME TypeOK, HistoryInv, [Next]_vars, NEW j \in Jobs,
                    j \notin early',
                    pc'[j] = "append" \/ drift'[j] # {}
             PROVE  /\ diff'[j] = Diff(base[j], mem[j])'
                    /\ base'[j] # NoScan => status'[base'[j]] = "ended"
  BY DEF FrozenInv
<1>0. /\ Stable /\ Turns /\ ClockInv /\ BaseInv /\ DriftInv /\ FrozenInv /\ j \in Writers
      /\ base[j] \in Writers \cup {NoScan}
  BY StableStep, TurnStep DEF HistoryInv, Writers, TypeOK, LocalTypeOK
<1>1. CASE pc[j] # "append" /\ pc'[j] = "append"
  <2>1. /\ diff'[j] = Diff(base[j], mem[j])
        /\ base' = base /\ mem' = mem /\ facts' = facts /\ status' = status
        /\ base[j] # NoScan => status[base[j]] # "running"
    BY <1>1, <1>0 DEF Turns, LoadAndDiff, TypeOK, LocalTypeOK, tableVars
  <2>2. base[j] # NoScan => status[base[j]] = "ended"
    BY <1>0, <2>1 DEF BaseInv, ClockInv, TypeOK, TableTypeOK
  <2> QED
    BY <2>1, <2>2 DEF Diff
<1>2. CASE ~(pc[j] # "append" /\ pc'[j] = "append")
  <2>1. pc[j] \in {"append", "done"} /\ (pc[j] = "append" \/ drift[j] # {})
    BY <1>0, <1>2 DEF Turns, DriftInv
  <2>2. /\ diff'[j] = diff[j] /\ base'[j] = base[j] /\ mem'[j] = mem[j]
        /\ j \notin early
    BY <1>0, <2>1 DEF Stable
  <2>3. /\ diff[j] = Diff(base[j], mem[j])
        /\ base[j] # NoScan => status[base[j]] = "ended"
    BY <1>0, <2>1, <2>2 DEF FrozenInv
  <2>4. base[j] # NoScan => status'[base[j]] = "ended" /\ facts'[base[j]] = facts[base[j]]
    BY <1>0, <2>3 DEF Stable, ClockInv
  <2> QED
    BY <2>2, <2>3, <2>4 DEF Diff
<1> QED
  BY <1>1, <1>2

\* What an assessment reads is the latest there is.
Reads ==
    \A j \in Jobs : pc[j] = "read" /\ pc'[j] = "judge" =>
        \A t \in Types : used'[j][t] = LatestImport(t)

\* No other step begins an assessment.
LEMMA ReadStep == TypeOK /\ [Next]_vars => Reads
<1> SUFFICES ASSUME TypeOK, [Next]_vars PROVE Reads
  OBVIOUS
<1> USE HistoryAssumption DEF Reads, TypeOK, WorldTypeOK, TableTypeOK,
    LocalTypeOK, JobPlaces, ImportPlaces, Writers, worldVars, tableVars,
    localVars
<1>1. ASSUME NEW j \in Jobs, JobTicks(j) PROVE Reads
  BY <1>1 DEF JobTicks, Goto
<1>2. ASSUME NEW j \in Jobs, LookUpTarget(j) PROVE Reads
  BY <1>2 DEF LookUpTarget, Goto
<1>3. ASSUME NEW j \in Jobs, InsertTarget(j) PROVE Reads
  BY <1>3 DEF InsertTarget, Goto
<1>4. ASSUME NEW w \in Writers, CreateScan(w) PROVE Reads
  BY <1>4 DEF CreateScan, Goto
<1>5. ASSUME NEW j \in Jobs, NEW f \in scene.facets, NEW v \in Seen,
            ProbeReports(j, f, v) PROVE Reads
  BY <1>5 DEF ProbeReports, Upset
<1>6. ASSUME NEW j \in Jobs, FinishScan(j) PROVE Reads
  BY <1>6 DEF FinishScan, Goto, Upset
<1>7. ASSUME NEW j \in Jobs, ReadForAssessment(j) PROVE Reads
  BY <1>7 DEF ReadForAssessment, Goto
<1>8. ASSUME NEW j \in Jobs, CreateAssessment(j) PROVE Reads
  BY <1>8 DEF CreateAssessment, Goto
<1>9. ASSUME NEW j \in Jobs, AssessFails(j) PROVE Reads
  BY <1>9 DEF AssessFails, Goto, Upset
<1>10. ASSUME NEW j \in Jobs, PickPrevious(j) PROVE Reads
  BY <1>10 DEF PickPrevious, Goto
<1>11. ASSUME NEW j \in Jobs, LoadAndDiff(j) PROVE Reads
  BY <1>11 DEF LoadAndDiff, Goto
<1>12. ASSUME NEW j \in Jobs, AppendDrift(j) PROVE Reads
  BY <1>12 DEF AppendDrift, Goto, Upset
<1>13. ASSUME NEW j \in Jobs, JobFails(j) PROVE Reads
  BY <1>13 DEF JobFails, Goto, Upset
<1>14. ASSUME NEW j \in Jobs, JobPanics(j) PROVE Reads
  BY <1>14 DEF JobPanics, Goto, Upset
<1>15. ASSUME NEW i \in Imports, ImportArrives(i) PROVE Reads
  BY <1>15 DEF ImportArrives, Goto
<1>16. ASSUME NEW i \in Imports, ImportChecks(i) PROVE Reads
  BY <1>16, ImportMoves
<1>17. ASSUME NEW i \in Imports, ImportLooksUp(i) PROVE Reads
  BY <1>17, ImportMoves
<1>18. ASSUME NEW i \in Imports, ImportAppends(i) PROVE Reads
  BY <1>18 DEF ImportAppends, Goto
<1>19. ASSUME NEW i \in Imports, ImportFinishes(i) PROVE Reads
  BY <1>19 DEF ImportFinishes, Goto
<1>20. ASSUME NEW i \in Imports, ImportRecords(i) PROVE Reads
  BY <1>20 DEF ImportRecords, Answered, Goto
<1>21. ASSUME NEW i \in Imports, ImportFails(i) PROVE Reads
  BY <1>21 DEF ImportFails, Answered, Goto, Upset
<1>22. ASSUME NEW w \in Writers, Dies(w) PROVE Reads
  BY <1>22 DEF Dies, Goto, Upset
<1>23. CASE AddFleetDomain
  BY <1>23 DEF AddFleetDomain
<1>24. CASE WorldChanges
  BY <1>24 DEF WorldChanges
<1>25. CASE UNCHANGED vars
  BY <1>25 DEF vars
<1> QED
  BY <1>1, <1>2, <1>3, <1>4, <1>5, <1>6, <1>7, <1>8, <1>9, <1>10, <1>11,
     <1>12, <1>13, <1>14, <1>15, <1>16, <1>17, <1>18, <1>19, <1>20, <1>21,
     <1>22, <1>23, <1>24, <1>25
     DEF Next, JobStep, ImportStep, EnvStep, Writers

----------------------------------------------------------------------------
\* The invariant holds in every state of the scan history.
THEOREM Invariance == Spec => [](TypeOK /\ HistoryInv)
<1>1. Init => TypeOK /\ HistoryInv
  <2> SUFFICES ASSUME Init PROVE TypeOK /\ HistoryInv
    OBVIOUS
  <2> USE HistoryAssumption DEF Init, Writers
  <2>1. TypeOK
    <3>1. WorldTypeOK
      BY DEF WorldTypeOK
    <3>2. TableTypeOK
      BY DEF TableTypeOK, Seen
    <3>3. scene.facets \in SUBSET Facets
      OBVIOUS
    <3>4. LocalTypeOK
      BY <3>3 DEF LocalTypeOK, Seen, JobPlaces, ImportPlaces
    <3> QED
      BY <3>1, <3>2, <3>4 DEF TypeOK
  <2>2. ClockInv /\ PlaceInv /\ WholeInv /\ RecordInv
    BY DEF ClockInv, PlaceInv, WholeInv, RecordInv
  <2>3. UsedInv /\ BaseInv /\ DriftInv
    BY DEF UsedInv, BaseInv, DriftInv
  <2>4. LostDriftHasCause /\ MemoryInv /\ FrozenInv
    BY DEF LostDriftHasCause, MemoryInv, FrozenInv
  <2> QED
    BY <2>1, <2>2, <2>3, <2>4 DEF HistoryInv
<1>2. TypeOK /\ HistoryInv /\ [Next]_vars => (TypeOK /\ HistoryInv)'
  <2> SUFFICES ASSUME TypeOK, HistoryInv, [Next]_vars
               PROVE  TypeOK' /\ HistoryInv'
    OBVIOUS
  <2>1. TypeOK' /\ ClockInv' /\ PlaceInv' /\ WholeInv' /\ RecordInv' /\ UsedInv'
    BY TypeStep, ClockStep, PlaceStep, WholeStep, RecordStep, UsedStep
  <2>2. BaseInv' /\ DriftInv' /\ LostDriftHasCause' /\ MemoryInv' /\ FrozenInv'
    BY BaseStep, DriftStep, LostStep, MemoryStep, FrozenStep
  <2> QED
    BY <2>1, <2>2 DEF HistoryInv
<1> QED
  BY <1>1, <1>2, PTL DEF Spec

\* The variables keep their types.
THEOREM TypeCorrect == Spec => []TypeOK
  BY Invariance, PTL

\* However ticks, failures and imports interleave, one scan at most is the
\* baseline, and it is the perimeter scan that started first.
THEOREM BaselineIsUnique == Spec => []OneBaseline
<1>1. HistoryInv => OneBaseline
  BY DEF HistoryInv, DriftInv, First, OneBaseline
<1> QED
  BY <1>1, Invariance, PTL

\* An import request is told the truth about its file.
THEOREM ImportsAreAnsweredTruly == Spec => []ImportAnswersAreTrue
<1>1. HistoryInv => ImportAnswersAreTrue
  <2> SUFFICES ASSUME HistoryInv PROVE ImportAnswersAreTrue
    OBVIOUS
  <2>1. \A i \in Imports : answer[i] \in {"already", "imported"} =>
           \E o \in Imports : FileOf[o] = FileOf[i] /\ Holds(o)
    BY DEF HistoryInv, RecordInv
  <2> QED
    BY <2>1 DEF HistoryInv, RecordInv, Holds, ImportAnswersAreTrue
<1> QED
  BY <1>1, Invariance, PTL

\* A job that met no error stored its drift findings, unless the findings of a
\* facet are gone.
THEOREM DriftIsNotLost == Spec => []LostDriftHasCause
<1>1. HistoryInv => LostDriftHasCause
  BY DEF HistoryInv
<1> QED
  BY <1>1, Invariance, PTL

\* Stored drift can be recomputed from the two scans in the store.
THEOREM DriftCanBeRecomputed == Spec => []DriftReproducible
<1>1. HistoryInv => DriftReproducible
  <2> SUFFICES ASSUME HistoryInv, NEW j \in Jobs \ early, drift[j] # {},
                      j \notin upset
               PROVE  drift[j] = Diff(base[j], facts[j])
    BY DEF DriftReproducible
  <2>1. drift[j] = diff[j] /\ mem[j] = facts[j]
    BY DEF HistoryInv, DriftInv, MemoryInv
  <2>2. diff[j] = Diff(base[j], mem[j])
    BY DEF HistoryInv, FrozenInv
  <2> QED
    BY <2>1, <2>2
<1> QED
  BY <1>1, Invariance, PTL

\* An assessment never rests on older Internet.nl findings than one before it.
THEOREM StandardsOnlyAdvance == Spec => StandardsNeverGoBack
<1> DEFINE Advance == \A j, o \in Jobs, t \in Types :
          /\ pc[j] = "read" /\ pc'[j] = "judge" /\ used[o][t] # NoScan
          => /\ used'[j][t] # NoScan
             /\ started[used'[j][t]] >= started[used[o][t]]
<1>1. TypeOK /\ HistoryInv /\ [Next]_vars => [Advance]_vars
  <2> SUFFICES ASSUME TypeOK, HistoryInv, [Next]_vars,
                      NEW j \in Jobs, NEW o \in Jobs, NEW t \in Types,
                      pc[j] = "read", pc'[j] = "judge", used[o][t] # NoScan
               PROVE  /\ used'[j][t] # NoScan
                      /\ started[used'[j][t]] >= started[used[o][t]]
    OBVIOUS
  <2>1. used'[j][t] = LatestImport(t)
    BY ReadStep DEF Reads
  <2>2. /\ used[o][t] \in Writers
        /\ started[used[o][t]] # 0 /\ t \in types[used[o][t]]
    BY DEF TypeOK, LocalTypeOK, HistoryInv, UsedInv
  <2>3. LatestImport(t) # NoScan /\ started[used[o][t]] <= started[LatestImport(t)]
    BY <2>2, LatestImportIsLast DEF HistoryInv
  <2>4. LatestImport(t) \in Writers
    BY <2>3, LatestImportIsLast DEF HistoryInv
  <2>5. started[used[o][t]] \in Nat /\ started[LatestImport(t)] \in Nat
    BY <2>2, <2>4 DEF TypeOK, TableTypeOK
  <2> QED
    BY <2>1, <2>3, <2>5
<1> QED
  BY <1>1, Invariance, PTL DEF Spec, StandardsNeverGoBack
=============================================================================
