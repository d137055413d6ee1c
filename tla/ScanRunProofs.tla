--------------------------- MODULE ScanRunProofs ---------------------------
(***************************************************************************)
(* Proofs about ScanRun, for any set of probes, hosts and synthesis steps, *)
(* and with store faults, an expiring budget, cancellation and death.      *)
(***************************************************************************)
EXTENDS ScanRun, TLAPS

(***************************************************************************)
(* The inductive invariant.  The properties speak of all writers at once;  *)
(* what is inductive is which writers have not started (Fresh), are        *)
(* between memory and the store, or are through (Written), tied to the     *)
(* control state of their goroutine and of Scan.                           *)
(***************************************************************************)
Fresh(w) == mem[w] = {} /\ db[w] = {} /\ commits[w] = 0

Written(w) ==
    /\ commits[w] <= 1
    /\ db[w] # {} => db[w] = mem[w]
    /\ (ctx = "live" /\ StoreFaults = FALSE) => db[w] = mem[w]

ProbeOK(p) ==
    /\ run[p] \in {"waiting", "running"} => Fresh(p) /\ outcome[p] = "none"
    /\ run[p] = "persisting" =>
          db[p] = {} /\ commits[p] = 0 /\ outcome[p] # "none"
    /\ run[p] = "done" => Written(p) /\ outcome[p] # "none"

ProbeInv == \A p \in Probes : ProbeOK(p)

StepInv ==
    \A i \in 1 .. Len(Steps) :
        /\ i < step => Written(Steps[i])
        /\ i >= step => Fresh(Steps[i])

RegistrantInv ==
    /\ pc \in {"begin", "registrant"} => Fresh(Registrant)
    /\ Written(Registrant)

StageInv ==
    /\ pc \in {"begin", "registrant"} => \A p \in Probes : run[p] = "waiting"
    /\ pc = "pass1" => \A p \in Pass2 : run[p] = "waiting"
    /\ pc \in {"pass2", "synth", "publish"} => \A p \in Pass1 : run[p] = "done"
    /\ pc \in {"synth", "publish"} => \A p \in Pass2 : run[p] = "done"
    /\ pc = "returned" => \A p \in Probes : run[p] \in {"waiting", "done"}
    /\ pc \in {"begin", "registrant", "pass1", "pass2"} => step = 1

RowInv ==
    /\ pc = "begin" => row = "absent"
    /\ pc \in {"registrant", "pass1", "pass2", "synth"} => row = "running"
    /\ row \in Statuses =>
          /\ pc \in {"publish", "returned", "dead"}
          /\ \A p \in Probes : run[p] = "done"
          /\ step > Len(Steps)
          /\ row = Status
    /\ (pc \in {"publish", "returned"} /\ ctx = "live" /\ StoreFaults = FALSE) =>
          row = result /\ row \in Statuses

ScanInv ==
    /\ ProbeInv /\ StepInv /\ RegistrantInv /\ StageInv /\ RowInv
    /\ Pass2SeesEveryHost /\ SynthesisIsFinal

----------------------------------------------------------------------------
\* Where the synthesis steps sit among the writers.
LEMMA StepFacts ==
    /\ Len(Steps) \in Nat
    /\ \A i \in 1 .. Len(Steps) : Steps[i] \in StepSet
    /\ \A s \in StepSet : s \in Writers /\ s \notin Probes /\ s # Registrant
    /\ Probes \subseteq Writers /\ Registrant \in Writers
    /\ Registrant \notin Probes
  BY ScanAssumption DEF StepSet, Writers

\* Sets of findings built by the actions are sets of findings.
LEMMA FindingSets ==
    /\ \A w \in Whats : Note(w) \in Findings
    /\ \A w \in Whats, H \in SUBSET Hosts : About(w, H) \in SUBSET Findings
  BY DEF Findings, Note, About

\* What runOne leaves for any outcome is a set of findings.
LEMMA ResultType ==
    \A F \in SUBSET Findings, o \in {"ok", "timeout", "error", "panic"} :
        Result(o, F) \in SUBSET Findings
  BY FindingSets DEF Result, Whats

\* An append keeps the tables' types.
LEMMA AppendType ==
    ASSUME NEW w \in Writers, NEW F \in SUBSET Findings,
           db \in [Writers -> SUBSET Findings], commits \in [Writers -> Nat],
           AppendFindings(w, F)
    PROVE  /\ db' \in [Writers -> SUBSET Findings]
           /\ commits' \in [Writers -> Nat]
<1>1. CASE UNCHANGED <<db, commits>>
  BY <1>1
<1>2. CASE /\ db' = [db EXCEPT ![w] = F]
           /\ commits' = [commits EXCEPT ![w] = @ + 1]
  BY <1>2
<1> QED
  BY <1>1, <1>2 DEF AppendFindings

\* Every action keeps the types.
LEMMA TypeStep == TypeOK /\ [Next]_vars => TypeOK'
<1> SUFFICES ASSUME TypeOK, [Next]_vars PROVE TypeOK'
  OBVIOUS
<1> USE StepFacts DEF TypeOK, RunTypeOK, StoreTypeOK, Statuses
<1>1. CASE Begin
  BY <1>1 DEF Begin
<1>2. CASE ExpectedRegistrant
  <2>1. PICK F \in {{}, {Note("registrant")}} :
           /\ mem' = [mem EXCEPT ![Registrant] = F]
           /\ AppendFindings(Registrant, F)
    BY <1>2 DEF ExpectedRegistrant
  <2>2. F \in SUBSET Findings
    BY FindingSets DEF Whats
  <2>3. /\ db' \in [Writers -> SUBSET Findings]
        /\ commits' \in [Writers -> Nat]
    BY <2>1, <2>2, AppendType
  <2> QED
    BY <1>2, <2>1, <2>2, <2>3 DEF ExpectedRegistrant
<1>3. ASSUME NEW p \in Probes, ProbeReturns(p) PROVE TypeOK'
  <2>1. PICK o \in {"ok", "timeout", "error", "panic"},
             H \in SUBSET (IF p \in Pass1 THEN Hosts ELSE related) :
           /\ outcome' = [outcome EXCEPT ![p] = o]
           /\ mem' = [mem EXCEPT ![p] =
                Result(o, About(IF p \in Pass1 THEN "host" ELSE "asn", H))]
    BY <1>3 DEF ProbeReturns
  <2>2. About(IF p \in Pass1 THEN "host" ELSE "asn", H) \in SUBSET Findings
    BY FindingSets DEF Whats
  <2>3. Result(o, About(IF p \in Pass1 THEN "host" ELSE "asn", H))
           \in SUBSET Findings
    BY <2>2, ResultType
  <2> QED
    BY <1>3, <2>1, <2>3 DEF ProbeReturns, storeVars
<1>4. ASSUME NEW p \in Probes, ProbePersists(p) PROVE TypeOK'
  <2>1. /\ db' \in [Writers -> SUBSET Findings]
        /\ commits' \in [Writers -> Nat]
    BY <1>4, AppendType DEF ProbePersists
  <2> QED
    BY <1>4, <2>1 DEF ProbePersists
<1>5. CASE JoinPass1
  BY <1>5 DEF JoinPass1, Discovered, HostsOf, storeVars
<1>6. CASE JoinPass2
  BY <1>6 DEF JoinPass2, storeVars
<1>7. CASE Synthesise
  <2> DEFINE s == Steps[step]
  <2>1. s \in StepSet
    BY <1>7 DEF Synthesise
  <2>2. PICK F \in {{}, Emits(s)} :
           /\ mem' = [mem EXCEPT ![s] = F]
           /\ AppendFindings(s, F)
    BY <1>7 DEF Synthesise
  <2>3. Basis(s) \in SUBSET Hosts
    BY DEF Basis, HostsOf
  <2>4. F \in SUBSET Findings
    BY <2>3, FindingSets DEF Whats, Emits
  <2>5. /\ db' \in [Writers -> SUBSET Findings]
        /\ commits' \in [Writers -> Nat]
    BY <2>1, <2>2, <2>4, AppendType
  <2>6. mem' \in [Writers -> SUBSET Findings]
    BY <2>1, <2>2, <2>4
  <2>7. step' \in Nat \ {0}
    BY <1>7 DEF Synthesise
  <2> QED
    BY <1>7, <2>5, <2>6, <2>7 DEF Synthesise
<1>8. CASE Finish
  BY <1>8 DEF Finish, Status
<1>9. CASE Publish
  BY <1>9 DEF Publish, storeVars
<1>10. CASE ContextEnds \/ Die
  BY <1>10 DEF ContextEnds, Die, storeVars
<1>11. CASE UNCHANGED vars
  BY <1>11 DEF vars
<1> QED
  BY <1>1, <1>2, <1>3, <1>4, <1>5, <1>6, <1>7, <1>8, <1>9, <1>10, <1>11
     DEF Next, ScanStep, ProbeStep

\* An append by a writer with nothing stored leaves it written, and touches
\* no other writer.
LEMMA AppendWrites ==
    ASSUME TypeOK, NEW w \in Writers, NEW F, db[w] = {}, commits[w] = 0,
           AppendFindings(w, F), mem'[w] = F, UNCHANGED ctx
    PROVE  /\ Written(w)'
           /\ \A v \in Writers \ {w} : db'[v] = db[v] /\ commits'[v] = commits[v]
<1> USE DEF TypeOK, StoreTypeOK, Written
<1>1. CASE F = {} /\ UNCHANGED <<db, commits>>
  BY <1>1
<1>2. CASE /\ db' = [db EXCEPT ![w] = F]
           /\ commits' = [commits EXCEPT ![w] = @ + 1]
  BY <1>2
<1>3. CASE /\ F # {} /\ (StoreFaults \/ ctx # "live")
           /\ UNCHANGED <<db, commits>>
  BY <1>3
<1> QED
  BY <1>1, <1>2, <1>3 DEF AppendFindings

\* A writer nobody touches stays fresh or written, also when the context ends.
LEMMA Untouched ==
    ASSUME NEW w, mem'[w] = mem[w], db'[w] = db[w], commits'[w] = commits[w],
           ctx' = "live" => ctx = "live"
    PROVE  (Fresh(w) => Fresh(w)') /\ (Written(w) => Written(w)')
  BY DEF Fresh, Written

\* A fresh writer counts as written.
LEMMA FreshIsWritten == ASSUME NEW w, Fresh(w) PROVE Written(w)
  BY DEF Fresh, Written

\* The part of the invariant about single writers.
WriterInv == ProbeInv /\ StepInv /\ RegistrantInv

\* Steps that leave memory and the findings table alone keep WriterInv.
LEMMA QuietStep ==
    ASSUME TypeOK, WriterInv, UNCHANGED <<mem, db, commits, outcome, step>>,
           ctx' = "live" => ctx = "live",
           pc' \in {"begin", "registrant"} => pc \in {"begin", "registrant"},
           \A p \in Probes : \/ run'[p] = run[p]
                             \/ run[p] = "waiting" /\ run'[p] = "running"
    PROVE  WriterInv'
<1>1. \A w : (Fresh(w) => Fresh(w)') /\ (Written(w) => Written(w)')
  BY DEF Fresh, Written
<1>2. ProbeInv'
  BY <1>1 DEF WriterInv, ProbeInv, ProbeOK
<1>3. StepInv'
  BY <1>1 DEF WriterInv, StepInv
<1>4. RegistrantInv'
  BY <1>1 DEF WriterInv, RegistrantInv
<1> QED
  BY <1>2, <1>3, <1>4 DEF WriterInv

\* Every action keeps WriterInv.
LEMMA WriterStep ==
    TypeOK /\ WriterInv /\ StageInv /\ [Next]_vars => WriterInv'
<1> SUFFICES ASSUME TypeOK, WriterInv, StageInv, [Next]_vars PROVE WriterInv'
  OBVIOUS
<1> USE StepFacts
<1>1. CASE Begin
  BY <1>1, QuietStep DEF Begin
<1>2. CASE ExpectedRegistrant
  <2>1. PICK F : /\ mem' = [mem EXCEPT ![Registrant] = F]
                 /\ AppendFindings(Registrant, F)
    BY <1>2 DEF ExpectedRegistrant
  <2>2. mem'[Registrant] = F
    BY <2>1 DEF TypeOK, StoreTypeOK
  <2>3. Fresh(Registrant)
    BY <1>2 DEF ExpectedRegistrant, WriterInv, RegistrantInv
  <2>4. /\ Written(Registrant)'
        /\ \A v \in Writers \ {Registrant} :
              db'[v] = db[v] /\ commits'[v] = commits[v]
    BY <1>2, <2>1, <2>2, <2>3, AppendWrites DEF ExpectedRegistrant, Fresh
  <2>5. \A v \in Writers \ {Registrant} :
           (Fresh(v) => Fresh(v)') /\ (Written(v) => Written(v)')
    BY <1>2, <2>1, <2>4, Untouched DEF ExpectedRegistrant, TypeOK, StoreTypeOK
  <2>6. ProbeInv'
    BY <1>2, <2>5 DEF ExpectedRegistrant, WriterInv, ProbeInv, ProbeOK, StageInv
  <2>7. StepInv'
    BY <1>2, <2>5 DEF ExpectedRegistrant, WriterInv, StepInv
  <2> QED
    BY <1>2, <2>4, <2>6, <2>7 DEF ExpectedRegistrant, WriterInv, RegistrantInv
<1>3. ASSUME NEW p \in Probes, ProbeReturns(p) PROVE WriterInv'
  <2>1. \A v \in Writers \ {p} :
           mem'[v] = mem[v] /\ db'[v] = db[v] /\ commits'[v] = commits[v]
    BY <1>3 DEF ProbeReturns, storeVars, TypeOK, StoreTypeOK
  <2>2. \A v \in Writers \ {p} :
           (Fresh(v) => Fresh(v)') /\ (Written(v) => Written(v)')
    BY <1>3, <2>1, Untouched DEF ProbeReturns
  <2>3. /\ run'[p] = "persisting" /\ outcome'[p] # "none"
        /\ db'[p] = {} /\ commits'[p] = 0
    BY <1>3 DEF ProbeReturns, storeVars, WriterInv, ProbeInv, ProbeOK, Fresh, TypeOK,
       RunTypeOK
  <2>4. \A q \in Probes \ {p} : run'[q] = run[q] /\ outcome'[q] = outcome[q]
    BY <1>3 DEF ProbeReturns, TypeOK, RunTypeOK
  <2>5. ProbeInv'
    <3> SUFFICES ASSUME NEW q \in Probes
                 PROVE  ProbeOK(q)'
      BY DEF ProbeInv
    <3>1. CASE q = p
      BY <3>1, <2>3 DEF ProbeOK
    <3>2. CASE q # p
      BY <3>2, <2>1, <2>2, <2>4 DEF WriterInv, ProbeInv, ProbeOK
    <3> QED
      BY <3>1, <3>2
  <2>6. StepInv'
    BY <1>3, <2>2 DEF ProbeReturns, WriterInv, StepInv
  <2> QED
    BY <1>3, <2>2, <2>5, <2>6 DEF ProbeReturns, WriterInv, RegistrantInv
<1>4. ASSUME NEW p \in Probes, ProbePersists(p) PROVE WriterInv'
  <2>1. /\ Written(p)'
        /\ \A v \in Writers \ {p} : db'[v] = db[v] /\ commits'[v] = commits[v]
    BY <1>4, AppendWrites DEF ProbePersists, WriterInv, ProbeInv, ProbeOK
  <2>2. \A v \in Writers \ {p} :
           (Fresh(v) => Fresh(v)') /\ (Written(v) => Written(v)')
    BY <1>4, <2>1, Untouched DEF ProbePersists
  <2>3. run'[p] = "done" /\ outcome'[p] # "none"
    BY <1>4 DEF ProbePersists, WriterInv, ProbeInv, ProbeOK, TypeOK, RunTypeOK
  <2>4. \A q \in Probes \ {p} : run'[q] = run[q] /\ outcome'[q] = outcome[q]
    BY <1>4 DEF ProbePersists, TypeOK, RunTypeOK
  <2>5. ProbeInv'
    <3> SUFFICES ASSUME NEW q \in Probes
                 PROVE  ProbeOK(q)'
      BY DEF ProbeInv
    <3>1. CASE q = p
      BY <3>1, <2>1, <2>3 DEF ProbeOK
    <3>2. CASE q # p
      BY <3>2, <2>1, <2>2, <2>4 DEF WriterInv, ProbeInv, ProbeOK
    <3> QED
      BY <3>1, <3>2
  <2>6. StepInv'
    BY <1>4, <2>2 DEF ProbePersists, WriterInv, StepInv
  <2> QED
    BY <1>4, <2>2, <2>5, <2>6 DEF ProbePersists, WriterInv, RegistrantInv
<1>5. CASE JoinPass1
  BY <1>5, QuietStep DEF JoinPass1, StageInv, storeVars
<1>6. CASE JoinPass2
  BY <1>6, QuietStep DEF JoinPass2, storeVars
<1>7. CASE Synthesise
  <2>0. step \in 1 .. Len(Steps)
    BY <1>7 DEF Synthesise, TypeOK, RunTypeOK
  <2>1. PICK s \in StepSet : s = Steps[step]
    BY <2>0
  <2>2. PICK F : mem' = [mem EXCEPT ![s] = F] /\ AppendFindings(s, F)
    BY <1>7, <2>1 DEF Synthesise
  <2>3. mem'[s] = F
    BY <2>1, <2>2 DEF TypeOK, StoreTypeOK
  <2>4. Fresh(s)
    BY <2>0, <2>1 DEF WriterInv, StepInv
  <2>5. UNCHANGED ctx
    BY <1>7 DEF Synthesise
  <2>6. /\ Written(s)'
        /\ \A v \in Writers \ {s} : db'[v] = db[v] /\ commits'[v] = commits[v]
    BY <2>1, <2>2, <2>3, <2>4, <2>5, AppendWrites DEF Fresh
  <2>7. \A v \in Writers \ {s} :
           (Fresh(v) => Fresh(v)') /\ (Written(v) => Written(v)')
    BY <2>2, <2>5, <2>6, Untouched DEF TypeOK, StoreTypeOK
  <2>8. ProbeInv'
    <3>1. UNCHANGED <<run, outcome>>
      BY <1>7 DEF Synthesise
    <3>2. \A p \in Probes : p \in Writers \ {s}
      BY <2>1
    <3> QED
      BY <2>6, <2>7, <3>1, <3>2 DEF WriterInv, ProbeInv, ProbeOK
  <2>9. StepInv'
    <3> SUFFICES ASSUME NEW i \in 1 .. Len(Steps)
                 PROVE  /\ i < step' => Written(Steps[i])'
                        /\ i >= step' => Fresh(Steps[i])'
      BY DEF StepInv
    <3>1. step' = step + 1
      BY <1>7 DEF Synthesise
    <3>2. CASE i = step
      BY <3>1, <3>2, <2>0, <2>1, <2>6
    <3>3. CASE i # step
      <4>1. Steps[i] \in Writers \ {s}
        BY <3>3, <2>0, <2>1, ScanAssumption
      <4>2. (i < step => Written(Steps[i])) /\ (i >= step => Fresh(Steps[i]))
        BY DEF WriterInv, StepInv
      <4> QED
        BY <3>1, <3>3, <4>1, <4>2, <2>0, <2>7
    <3> QED
      BY <3>2, <3>3
  <2> QED
    BY <1>7, <2>1, <2>7, <2>8, <2>9 DEF Synthesise, WriterInv, RegistrantInv
<1>8. CASE Finish
  BY <1>8, QuietStep DEF Finish
<1>9. CASE Publish
  BY <1>9, QuietStep DEF Publish, storeVars
<1>10. CASE ContextEnds \/ Die
  BY <1>10, QuietStep DEF ContextEnds, Die, storeVars
<1>11. CASE UNCHANGED vars
  BY <1>11, QuietStep DEF vars
<1> QED
  BY <1>1, <1>2, <1>3, <1>4, <1>5, <1>6, <1>7, <1>8, <1>9, <1>10, <1>11
     DEF Next, ScanStep, ProbeStep

\* The goroutines follow the stages of Scan.
LEMMA StageStep == TypeOK /\ StageInv /\ [Next]_vars => StageInv'
<1> SUFFICES ASSUME TypeOK, StageInv, [Next]_vars PROVE StageInv'
  OBVIOUS
<1> USE ScanAssumption DEF StageInv, TypeOK, RunTypeOK, Probes
<1>1. CASE Begin
  BY <1>1 DEF Begin
<1>2. CASE ExpectedRegistrant
  BY <1>2 DEF ExpectedRegistrant
<1>3. ASSUME NEW p \in Probes, ProbeReturns(p) PROVE StageInv'
  BY <1>3 DEF ProbeReturns
<1>4. ASSUME NEW p \in Probes, ProbePersists(p) PROVE StageInv'
  BY <1>4 DEF ProbePersists
<1>5. CASE JoinPass1
  BY <1>5 DEF JoinPass1
<1>6. CASE JoinPass2
  BY <1>6 DEF JoinPass2
<1>7. CASE Synthesise
  BY <1>7 DEF Synthesise
<1>8. CASE Finish
  BY <1>8 DEF Finish
<1>9. CASE Publish
  BY <1>9 DEF Publish
<1>10. CASE ContextEnds \/ Die
  BY <1>10 DEF ContextEnds, Die
<1>11. CASE UNCHANGED vars
  BY <1>11 DEF vars
<1> QED
  BY <1>1, <1>2, <1>3, <1>4, <1>5, <1>6, <1>7, <1>8, <1>9, <1>10, <1>11
     DEF Next, ScanStep, ProbeStep

\* The row and the returned status follow the stages of Scan.
LEMMA RowStep ==
    TypeOK /\ StageInv /\ RowInv /\ [Next]_vars => RowInv'
<1> SUFFICES ASSUME TypeOK, StageInv, RowInv, [Next]_vars PROVE RowInv'
  OBVIOUS
<1> USE DEF RowInv, Statuses
<1>a. Status \in Statuses
  BY DEF Status
<1>b. outcome' = outcome => Status' = Status
  BY DEF Status, Failed
<1>1. CASE Begin
  BY <1>1, ScanAssumption DEF Begin
<1>2. CASE ExpectedRegistrant
  BY <1>2 DEF ExpectedRegistrant, storeVars
<1>3. ASSUME NEW p \in Probes, ProbeReturns(p) PROVE RowInv'
  BY <1>3 DEF ProbeReturns, storeVars
<1>4. ASSUME NEW p \in Probes, ProbePersists(p) PROVE RowInv'
  BY <1>4 DEF ProbePersists, storeVars
<1>5. CASE JoinPass1
  BY <1>5 DEF JoinPass1, storeVars
<1>6. CASE JoinPass2
  BY <1>6 DEF JoinPass2, storeVars
<1>7. CASE Synthesise
  BY <1>7 DEF Synthesise, storeVars
<1>8. CASE Finish
  <2>1. \A p \in Probes : run'[p] = "done"
    BY <1>8 DEF Finish, StageInv, Probes
  <2>2. Status' = Status /\ step' > Len(Steps)
    BY <1>8, <1>b DEF Finish
  <2> QED
    BY <1>8, <2>1, <2>2, <1>a, ScanAssumption DEF Finish
<1>9. CASE Publish
  BY <1>9, <1>b DEF Publish, storeVars
<1>10. CASE ContextEnds \/ Die
  BY <1>10, <1>b DEF ContextEnds, Die, storeVars
<1>11. CASE UNCHANGED vars
  BY <1>11, <1>b DEF vars
<1> QED
  BY <1>1, <1>2, <1>3, <1>4, <1>5, <1>6, <1>7, <1>8, <1>9, <1>10, <1>11
     DEF Next, ScanStep, ProbeStep

\* Nothing changes what pass 1 left once pass 2 has its target.
LEMMA HostsStep ==
    TypeOK /\ StageInv /\ RowInv /\ Pass2SeesEveryHost /\ [Next]_vars
      => Pass2SeesEveryHost'
<1> SUFFICES ASSUME TypeOK, StageInv, RowInv, Pass2SeesEveryHost, [Next]_vars
             PROVE  Pass2SeesEveryHost'
  OBVIOUS
<1> USE StepFacts DEF Pass2SeesEveryHost, TypeOK, StoreTypeOK, Probes
<1>1. CASE Begin
  BY <1>1 DEF Begin, RowInv
<1>2. CASE ExpectedRegistrant
  BY <1>2 DEF ExpectedRegistrant, storeVars
<1>3. ASSUME NEW p \in Probes, ProbeReturns(p) PROVE Pass2SeesEveryHost'
  BY <1>3 DEF ProbeReturns, StageInv, HostsOf, storeVars
<1>4. ASSUME NEW p \in Probes, ProbePersists(p) PROVE Pass2SeesEveryHost'
  BY <1>4 DEF ProbePersists, storeVars
<1>5. CASE JoinPass1
  BY <1>5 DEF JoinPass1, Discovered, storeVars
<1>6. CASE JoinPass2
  BY <1>6 DEF JoinPass2, storeVars
<1>7. CASE Synthesise
  <2>1. Steps[step] \in StepSet
    BY <1>7 DEF Synthesise, RunTypeOK
  <2>2. \A p \in Pass1 : mem'[p] = mem[p]
    BY <1>7, <2>1 DEF Synthesise
  <2> QED
    BY <1>7, <2>2 DEF Synthesise, HostsOf
<1>8. CASE Finish
  BY <1>8 DEF Finish, RowInv, HostsOf
<1>9. CASE Publish
  BY <1>9 DEF Publish, HostsOf, storeVars
<1>10. CASE ContextEnds \/ Die
  BY <1>10 DEF ContextEnds, Die, storeVars
<1>11. CASE UNCHANGED vars
  BY <1>11 DEF vars, storeVars
<1> QED
  BY <1>1, <1>2, <1>3, <1>4, <1>5, <1>6, <1>7, <1>8, <1>9, <1>10, <1>11
     DEF Next, ScanStep, ProbeStep

\* A synthesis step speaks after every probe, and nothing changes its basis.
LEMMA SynthesisStep ==
    TypeOK /\ WriterInv /\ StageInv /\ SynthesisIsFinal /\ [Next]_vars
      => SynthesisIsFinal'
<1> SUFFICES ASSUME TypeOK, WriterInv, StageInv, SynthesisIsFinal, [Next]_vars
             PROVE  SynthesisIsFinal'
  OBVIOUS
<1> USE StepFacts
<1>a. ASSUME UNCHANGED mem PROVE SynthesisIsFinal'
  BY <1>a DEF SynthesisIsFinal, Basis, HostsOf
<1>b. ASSUME step = 1, UNCHANGED step, \A s \in StepSet : mem'[s] = mem[s]
      PROVE  SynthesisIsFinal'
  <2>1. ASSUME NEW s \in StepSet PROVE mem[s] = {}
    <3>1. PICK i \in 1 .. Len(Steps) : s = Steps[i]
      BY DEF StepSet
    <3>2. Fresh(Steps[i])
      BY <1>b DEF WriterInv, StepInv
    <3> QED
      BY <3>1, <3>2 DEF Fresh
  <2> QED
    BY <2>1, <1>b DEF SynthesisIsFinal
<1>1. CASE Begin
  BY <1>1, <1>a DEF Begin
<1>2. CASE ExpectedRegistrant
  <2>1. \A s \in StepSet : mem'[s] = mem[s]
    BY <1>2 DEF ExpectedRegistrant, TypeOK, StoreTypeOK
  <2> QED
    BY <1>2, <2>1, <1>b DEF ExpectedRegistrant, StageInv
<1>3. ASSUME NEW p \in Probes, ProbeReturns(p) PROVE SynthesisIsFinal'
  <2>1. \A s \in StepSet : mem'[s] = mem[s]
    BY <1>3 DEF ProbeReturns, TypeOK, StoreTypeOK
  <2>2. pc \in {"pass1", "pass2"}
    BY <1>3 DEF ProbeReturns, StageInv, TypeOK, RunTypeOK, Probes
  <2> QED
    BY <1>3, <2>1, <2>2, <1>b DEF ProbeReturns, StageInv
<1>4. ASSUME NEW p \in Probes, ProbePersists(p) PROVE SynthesisIsFinal'
  BY <1>4, <1>a DEF ProbePersists
<1>5. CASE JoinPass1
  BY <1>5, <1>a DEF JoinPass1
<1>6. CASE JoinPass2
  BY <1>6, <1>a DEF JoinPass2
<1>7. CASE Synthesise
  <2>1. Steps[step] \in StepSet
    BY <1>7 DEF Synthesise, TypeOK, RunTypeOK
  <2>2. PICK s \in StepSet : s = Steps[step]
    BY <2>1
  <2>3. PICK F \in {{}, Emits(s)} :
           mem' = [mem EXCEPT ![s] = F]
    BY <1>7, <2>2 DEF Synthesise
  <2>4. mem'[s] = F /\ \A w \in Writers \ {s} : mem'[w] = mem[w]
    BY <2>3 DEF TypeOK, StoreTypeOK
  <2>5. \A p \in Probes : mem'[p] = mem[p]
    BY <2>4
  <2>6. \A t \in StepSet : Basis(t)' = Basis(t)
    BY <2>5, ScanAssumption DEF Basis, HostsOf, Probes
  <2>7. F # {} => HostsOf("synth", F) = Basis(s)
    <3>1. Basis(s) \subseteq Hosts /\ NoHost \notin Hosts
      BY ScanAssumption DEF Basis, HostsOf
    <3> QED
      BY <3>1 DEF HostsOf, About, Note, Emits
  <2> SUFFICES ASSUME NEW t \in StepSet, mem'[t] # {}
               PROVE  HostsOf("synth", mem'[t]) = Basis(t)'
    BY DEF SynthesisIsFinal, HostsOf
  <2>8. CASE t = s
    BY <2>8, <2>4, <2>6, <2>7
  <2>9. CASE t # s
    BY <2>9, <2>4, <2>6 DEF SynthesisIsFinal
  <2> QED
    BY <2>8, <2>9
<1>8. CASE Finish
  BY <1>8, <1>a DEF Finish
<1>9. CASE Publish
  BY <1>9, <1>a DEF Publish
<1>10. CASE ContextEnds \/ Die
  BY <1>10, <1>a DEF ContextEnds, Die
<1>11. CASE UNCHANGED vars
  BY <1>11, <1>a DEF vars
<1> QED
  BY <1>1, <1>2, <1>3, <1>4, <1>5, <1>6, <1>7, <1>8, <1>9, <1>10, <1>11
     DEF Next, ScanStep, ProbeStep

\* The invariant holds of the initial state.
LEMMA ScanInit == Init => TypeOK /\ ScanInv
<1> SUFFICES ASSUME Init PROVE TypeOK /\ ScanInv
  OBVIOUS
<1> USE StepFacts DEF Init
<1>1. TypeOK
  BY DEF TypeOK, RunTypeOK, StoreTypeOK, Statuses
<1>2. \A w \in Writers : Fresh(w)
  BY DEF Fresh
<1>3. ProbeInv
  BY <1>2 DEF ProbeInv, ProbeOK
<1>4. StepInv
  BY <1>2 DEF StepInv
<1>5. RegistrantInv
  BY <1>2, FreshIsWritten DEF RegistrantInv
<1>6. StageInv /\ RowInv
  BY DEF StageInv, RowInv, Probes, Statuses
<1>7. Pass2SeesEveryHost
  BY DEF Pass2SeesEveryHost
<1>8. SynthesisIsFinal
  BY <1>2 DEF SynthesisIsFinal, Fresh
<1> QED
  BY <1>1, <1>3, <1>4, <1>5, <1>6, <1>7, <1>8 DEF ScanInv

\* Every reachable state of a scan satisfies the invariant.
THEOREM Invariance == Spec => [](TypeOK /\ ScanInv)
<1>1. Init => TypeOK /\ ScanInv
  BY ScanInit
<1>2. TypeOK /\ ScanInv /\ [Next]_vars => (TypeOK /\ ScanInv)'
  BY TypeStep, WriterStep, StageStep, RowStep, HostsStep, SynthesisStep
     DEF ScanInv, WriterInv
<1> QED
  BY <1>1, <1>2, PTL DEF Spec

\* The variables of a scan keep their types.
THEOREM TypeCorrect == Spec => []TypeOK
  BY Invariance, PTL

\* Each writer of the invariant is written or has nothing in the store.
LEMMA WritersOnce ==
    ASSUME TypeOK, WriterInv, NEW w \in Writers
    PROVE  commits[w] <= 1 /\ (db[w] # {} => db[w] = mem[w])
<1>1. CASE w \in Probes
  BY <1>1 DEF WriterInv, ProbeInv, ProbeOK, Fresh, Written, TypeOK, RunTypeOK
<1>2. CASE w = Registrant
  BY <1>2 DEF WriterInv, RegistrantInv, Written
<1>3. CASE w \in StepSet
  <2>1. PICK i \in 1 .. Len(Steps) : w = Steps[i]
    BY <1>3 DEF StepSet
  <2>2. Written(Steps[i]) \/ Fresh(Steps[i])
    BY DEF WriterInv, StepInv, TypeOK, RunTypeOK
  <2> QED
    BY <2>1, <2>2, FreshIsWritten DEF Written
<1> QED
  BY <1>1, <1>2, <1>3 DEF Writers

\* Concurrent probes, failed appends and an expiring budget never duplicate
\* findings of a scan, nor show in the table what memory does not hold.
THEOREM FindingsAppendedOnce == Spec => []AppendedOnce
<1>1. TypeOK /\ ScanInv => AppendedOnce
  BY WritersOnce DEF AppendedOnce, ScanInv, WriterInv
<1> QED
  BY <1>1, Invariance, PTL

\* The terminal status in the row comes after every probe and hides none that
\* failed.
THEOREM StatusAccountsForProbes == Spec => []StatusShowsFailures
<1>1. ASSUME TypeOK, ScanInv PROVE StatusShowsFailures
  <2>1. row \in Statuses => /\ \A p \in Probes : outcome[p] # "none"
                            /\ row = Status
    BY <1>1 DEF ScanInv, RowInv, ProbeInv, ProbeOK
  <2>2. \A p \in Probes :
           outcome[p] \in {"none", "ok", "timeout", "error", "panic"}
    BY <1>1 DEF TypeOK, RunTypeOK
  <2> QED
    BY <2>1, <2>2, ScanAssumption DEF StatusShowsFailures, Status, Failed, Statuses
<1> QED
  BY <1>1, Invariance, PTL

\* Within the budget and on a working store, what Scan returns is what the
\* store holds.
THEOREM ReturnedScanIsStored == Spec => []ReturnedIsStored
<1>1. ASSUME TypeOK, ScanInv, pc = "returned", ctx = "live", ~StoreFaults
      PROVE  row = result /\ db = mem
  <2>1. StoreFaults = FALSE
    BY <1>1, ScanAssumption
  <2>2. /\ row = result
        /\ \A p \in Probes : run[p] = "done"
        /\ step > Len(Steps)
    BY <1>1, <2>1 DEF ScanInv, RowInv
  <2>3. ASSUME NEW w \in Writers PROVE db[w] = mem[w]
    <3>1. CASE w \in Probes
      BY <1>1, <2>1, <2>2, <3>1 DEF ScanInv, ProbeInv, ProbeOK, Written
    <3>2. CASE w = Registrant
      BY <1>1, <2>1, <3>2 DEF ScanInv, RegistrantInv, Written
    <3>3. CASE w \in StepSet
      <4>1. PICK i \in 1 .. Len(Steps) : w = Steps[i]
        BY <3>3 DEF StepSet
      <4>2. Written(Steps[i])
        BY <1>1, <2>2, StepFacts DEF ScanInv, StepInv, TypeOK, RunTypeOK
      <4> QED
        BY <1>1, <2>1, <4>1, <4>2 DEF Written
    <3> QED
      BY <3>1, <3>2, <3>3 DEF Writers
  <2>4. db = mem
    BY <1>1, <2>3 DEF TypeOK, StoreTypeOK
  <2> QED
    BY <2>2, <2>4
<1>2. TypeOK /\ ScanInv => ReturnedIsStored
  BY <1>1 DEF ReturnedIsStored
<1> QED
  BY <1>2, Invariance, PTL

\* The ip probe is offered every host that pass 1 found.
THEOREM EveryHostReachesPass2 == Spec => []Pass2SeesEveryHost
  BY Invariance, PTL DEF ScanInv

\* Synthesised findings rest on evidence that no longer changes.
THEOREM SynthesisRestsOnFinalEvidence == Spec => []SynthesisIsFinal
  BY Invariance, PTL DEF ScanInv
=============================================================================
