------------------------ MODULE AgentDeliveryProofs ------------------------
(***************************************************************************)
(* Proofs about AgentDelivery, for every set of batches, every size and    *)
(* limit, any number of attempts, crashes and abandoned requests, and with *)
(* disk faults, power cuts and revocation allowed.                         *)
(***************************************************************************)
EXTENDS AgentDelivery, FiniteSetTheorems, WellFoundedInduction, TLAPS

(***************************************************************************)
(* The inductive invariant.  StoredOnce by itself is not inductive:        *)
(* AppendBatch inserts when the identifier is not recorded, so the table   *)
(* of identifiers has to agree with the findings (RowsAgree).              *)
(* AckedMeansStored needs that an answer on its way to the agent is true   *)
(* (AnswerIsTrue), and that in turn needs to know which batch the pending  *)
(* call carries (HandOfPc, CallOfPc).                                      *)
(***************************************************************************)
HoldsBatch == {"drainCall", "attempt", "liveCall", "spool", "rename"}

HandOfPc == hand # NoBatch <=> pc \in HoldsBatch

CallOfPc == call # "none" => pc \in {"drainCall", "liveCall"}

RowsAgree ==
    \A b \in Batches : copies[b] = (IF b \in recorded THEN 1 ELSE 0)

AnswerIsTrue == call = "ok" => hand \in recorded

AckedRecorded == acked \subseteq recorded

KnownBatches ==
    /\ recorded \subseteq minted
    /\ hand # NoBatch => hand \in minted
    /\ \A b \in Batches :
          (file[b] # "none" \/ disk[b] # "none" \/ lateSent[b] > 0
             \/ lateAdmitted[b] > 0) => b \in minted

NothingTorn ==
    crashes = 0 => \A b \in Batches : file[b] # "torn"

DrainedHasFile == pc = "drainCall" => file[hand] = "intact"

SafetyInv ==
    /\ HandOfPc /\ CallOfPc /\ RowsAgree /\ AnswerIsTrue /\ AckedRecorded
    /\ KnownBatches

LossInv == DrainedHasFile /\ NoSilentLoss /\ NothingTorn /\ OnlyPruneLoses

----------------------------------------------------------------------------
\* The initial state is well typed.
LEMMA TypeInit == Init => TypeOK
<1> SUFFICES ASSUME Init PROVE TypeOK
  OBVIOUS
<1> USE DeliveryAssumption DEF Init
<1>1. AgentTypeOK
  BY DEF AgentTypeOK, PCs, Calls
<1>2. FlagsTypeOK
  BY DEF FlagsTypeOK
<1>3. DiskTypeOK
  BY DEF DiskTypeOK, FileStates
<1>4. CoreTypeOK
  BY DEF CoreTypeOK
<1>5. HistTypeOK
  BY DEF HistTypeOK, Causes
<1> QED
  BY <1>1, <1>2, <1>3, <1>4, <1>5 DEF TypeOK

\* Every step of the agent's tick keeps the types.
LEMMA AgentTypes == TypeOK /\ [Next]_vars => AgentTypeOK'
<1> SUFFICES ASSUME TypeOK, [Next]_vars PROVE AgentTypeOK'
  OBVIOUS
<1> USE DeliveryAssumption DEF TypeOK, AgentTypeOK, PCs, Calls
<1>1. CASE Start \/ TickStart
  BY <1>1 DEF Start, TickStart, Listed
<1>2. CASE DrainStep
  BY <1>2 DEF DrainStep, DrainSend, DrainQuarantine, DrainReadFails, DrainAck,
     DrainFails, DrainDone, AbandonDrain
<1>3. CASE LiveStep
  BY <1>3 DEF LiveStep, Collect, CollectFails, Attempt, LiveAck, LiveFails
<1>4. CASE SpoolStep
  BY <1>4 DEF SpoolStep, SpoolWrite, SpoolRename, SpoolFails, PruneOldest,
     PruneDone, agentVars
<1>5. CASE CoreStep
  BY <1>5 DEF CoreStep, CoreVerify, CoreAppend, CoreRefuse, Revoke, LateVerify,
     LateAppend, LateDrop, agentVars
<1>6. CASE EnvStep
  BY <1>6 DEF EnvStep, DeadlinePasses, Crash, PowerCut, WriteBack, Die, agentVars
<1>7. CASE UNCHANGED vars
  BY <1>7 DEF vars, agentVars
<1> QED
  BY <1>1, <1>2, <1>3, <1>4, <1>5, <1>6, <1>7 DEF Next

\* The two flags stay Boolean.
LEMMA FlagTypes == TypeOK /\ [Next]_vars => FlagsTypeOK'
<1> SUFFICES ASSUME TypeOK, [Next]_vars PROVE FlagsTypeOK'
  OBVIOUS
<1> USE DEF TypeOK, FlagsTypeOK
<1>1. CASE Start \/ TickStart
  BY <1>1 DEF Start, TickStart, coreVars
<1>2. CASE DrainStep
  BY <1>2 DEF DrainStep, DrainSend, DrainQuarantine, DrainReadFails, DrainAck,
     DrainFails, DrainDone, coreVars
<1>3. CASE LiveStep
  BY <1>3 DEF LiveStep, Collect, CollectFails, Attempt, LiveAck, LiveFails, coreVars
<1>4. CASE SpoolStep
  BY <1>4 DEF SpoolStep, SpoolWrite, SpoolRename, SpoolFails, PruneOldest,
     PruneDone, agentVars, coreVars
<1>5. CASE CoreStep
  BY <1>5 DEF CoreStep, CoreVerify, CoreAppend, CoreRefuse, Revoke, LateVerify,
     LateAppend, LateDrop, agentVars, coreVars
<1>6. CASE EnvStep
  BY <1>6 DEF EnvStep, DeadlinePasses, Crash, PowerCut, WriteBack, Die,
     agentVars, coreVars
<1>7. CASE UNCHANGED vars
  BY <1>7 DEF vars, agentVars, coreVars
<1> QED
  BY <1>1, <1>2, <1>3, <1>4, <1>5, <1>6, <1>7 DEF Next

\* The outbox keeps its shape, whatever a power cut leaves of it.
LEMMA DiskTypes == TypeOK /\ [Next]_vars => DiskTypeOK'
<1> SUFFICES ASSUME TypeOK, [Next]_vars PROVE DiskTypeOK'
  OBVIOUS
<1> USE DEF TypeOK, DiskTypeOK, FileStates
<1>1. CASE Start \/ TickStart
  BY <1>1 DEF Start, TickStart, diskVars
<1>2. CASE DrainStep
  BY <1>2 DEF DrainStep, DrainSend, DrainQuarantine, DrainReadFails, DrainAck,
     DrainFails, DrainDone, diskVars
<1>3. CASE LiveStep
  BY <1>3 DEF LiveStep, Collect, CollectFails, Attempt, LiveAck, LiveFails, diskVars
<1>4. CASE SpoolStep
  <2>1. FreshNames \subseteq Nat
    BY DEF FreshNames
  <2> QED
    BY <1>4, <2>1 DEF SpoolStep, SpoolWrite, SpoolRename, SpoolFails,
       PruneOldest, PruneDone, diskVars
<1>5. CASE CoreStep
  BY <1>5 DEF CoreStep, CoreVerify, CoreAppend, CoreRefuse, Revoke, LateVerify,
     LateAppend, LateDrop, diskVars
<1>6. CASE EnvStep
  BY <1>6 DEF EnvStep, DeadlinePasses, Crash, PowerCut, WriteBack, Die, diskVars
<1>7. CASE UNCHANGED vars
  BY <1>7 DEF vars, diskVars
<1> QED
  BY <1>1, <1>2, <1>3, <1>4, <1>5, <1>6, <1>7 DEF Next

\* The core's tables and the abandoned requests keep their shape.
LEMMA CoreTypes == TypeOK /\ HandOfPc /\ CallOfPc /\ [Next]_vars => CoreTypeOK'
<1> SUFFICES ASSUME TypeOK, HandOfPc, CallOfPc, [Next]_vars PROVE CoreTypeOK'
  OBVIOUS
<1> USE DEF TypeOK, CoreTypeOK
<1>1. CASE Start \/ TickStart
  BY <1>1 DEF Start, TickStart, lateVars, coreVars
<1>2. CASE DrainStep
  BY <1>2 DEF DrainStep, DrainSend, DrainQuarantine, DrainReadFails, DrainAck,
     DrainFails, DrainDone, Orphan, lateVars, coreVars
<1>3. CASE LiveStep
  BY <1>3 DEF LiveStep, Collect, CollectFails, Attempt, LiveAck, LiveFails,
     Orphan, lateVars, coreVars
<1>4. CASE SpoolStep
  BY <1>4 DEF SpoolStep, SpoolWrite, SpoolRename, SpoolFails, PruneOldest,
     PruneDone, lateVars, coreVars
<1>5. CASE CoreStep
  <2>1. call # "none" => hand \in Batches
    BY DEF HandOfPc, CallOfPc, HoldsBatch, AgentTypeOK
  <2> QED
    BY <1>5, <2>1 DEF CoreStep, CoreVerify, CoreAppend, CoreRefuse, Revoke,
       LateVerify, LateAppend, LateDrop, AppendBatch, lateVars, coreVars
<1>6. CASE EnvStep
  BY <1>6 DEF EnvStep, DeadlinePasses, Crash, PowerCut, WriteBack, Die, Orphan,
     lateVars, coreVars
<1>7. CASE UNCHANGED vars
  BY <1>7 DEF vars, lateVars, coreVars
<1> QED
  BY <1>1, <1>2, <1>3, <1>4, <1>5, <1>6, <1>7 DEF Next

\* The history variables keep their types.
LEMMA HistTypes == TypeOK /\ HandOfPc /\ CallOfPc /\ [Next]_vars => HistTypeOK'
<1> SUFFICES ASSUME TypeOK, HandOfPc, CallOfPc, [Next]_vars PROVE HistTypeOK'
  OBVIOUS
<1> USE DEF TypeOK, HistTypeOK, Causes
<1>0. pc \in HoldsBatch => hand \in Batches
  BY DEF HandOfPc, HoldsBatch, AgentTypeOK
<1>1. CASE Start \/ TickStart
  BY <1>1 DEF Start, TickStart, histVars
<1>2. CASE DrainStep
  BY <1>2, <1>0 DEF DrainStep, DrainSend, DrainQuarantine, DrainReadFails,
     DrainAck, DrainFails, DrainDone, HoldsBatch, histVars
<1>3. CASE LiveStep
  BY <1>3, <1>0 DEF LiveStep, Collect, CollectFails, Attempt, LiveAck, LiveFails,
     HoldsBatch, histVars
<1>4. CASE SpoolStep
  BY <1>4 DEF SpoolStep, SpoolWrite, SpoolRename, SpoolFails, PruneOldest,
     PruneDone, histVars
<1>5. CASE CoreStep
  BY <1>5 DEF CoreStep, CoreVerify, CoreAppend, CoreRefuse, Revoke, LateVerify,
     LateAppend, LateDrop, histVars
<1>6. CASE EnvStep
  BY <1>6 DEF EnvStep, DeadlinePasses, Crash, PowerCut, WriteBack, Die, histVars
<1>7. CASE UNCHANGED vars
  BY <1>7 DEF vars, histVars
<1> QED
  BY <1>1, <1>2, <1>3, <1>4, <1>5, <1>6, <1>7 DEF Next

\* A batch is in hand exactly where the tick's control says so.
LEMMA HandStep == TypeOK /\ HandOfPc /\ [Next]_vars => HandOfPc'
<1> SUFFICES ASSUME TypeOK, HandOfPc, [Next]_vars PROVE HandOfPc'
  OBVIOUS
<1> USE DeliveryAssumption DEF TypeOK, AgentTypeOK, HandOfPc, HoldsBatch
<1>1. CASE Start \/ TickStart
  BY <1>1 DEF Start, TickStart, agentVars
<1>2. CASE DrainStep
  BY <1>2 DEF DrainStep, DrainSend, DrainQuarantine, DrainReadFails, DrainAck,
     DrainFails, DrainDone, AbandonDrain, agentVars
<1>3. CASE LiveStep
  BY <1>3 DEF LiveStep, Collect, CollectFails, Attempt, LiveAck, LiveFails,
     agentVars
<1>4. CASE SpoolStep
  BY <1>4 DEF SpoolStep, SpoolWrite, SpoolRename, SpoolFails, PruneOldest,
     PruneDone, agentVars
<1>5. CASE CoreStep
  BY <1>5 DEF CoreStep, CoreVerify, CoreAppend, CoreRefuse, Revoke, LateVerify,
     LateAppend, LateDrop, agentVars
<1>6. CASE EnvStep
  BY <1>6 DEF EnvStep, DeadlinePasses, Crash, PowerCut, WriteBack, Die,
     agentVars
<1>7. CASE UNCHANGED vars
  BY <1>7 DEF vars, agentVars
<1> QED
  BY <1>1, <1>2, <1>3, <1>4, <1>5, <1>6, <1>7 DEF Next

\* A call is pending only while the agent waits for it.
LEMMA CallStep == TypeOK /\ HandOfPc /\ CallOfPc /\ [Next]_vars => CallOfPc'
<1> SUFFICES ASSUME TypeOK, HandOfPc, CallOfPc, [Next]_vars PROVE CallOfPc'
  OBVIOUS
<1> USE DEF TypeOK, AgentTypeOK, CallOfPc
<1>1. CASE Start \/ TickStart
  BY <1>1 DEF Start, TickStart, agentVars
<1>2. CASE DrainStep
  BY <1>2 DEF DrainStep, DrainSend, DrainQuarantine, DrainReadFails, DrainAck,
     DrainFails, DrainDone, AbandonDrain, agentVars
<1>3. CASE LiveStep
  BY <1>3 DEF LiveStep, Collect, CollectFails, Attempt, LiveAck, LiveFails,
     agentVars
<1>4. CASE SpoolStep
  BY <1>4 DEF SpoolStep, SpoolWrite, SpoolRename, SpoolFails, PruneOldest,
     PruneDone, agentVars
<1>5. CASE CoreStep
  BY <1>5 DEF CoreStep, CoreVerify, CoreAppend, CoreRefuse, Revoke, LateVerify,
     LateAppend, LateDrop, agentVars
<1>6. CASE EnvStep
  BY <1>6 DEF EnvStep, DeadlinePasses, Crash, PowerCut, WriteBack, Die,
     agentVars
<1>7. CASE UNCHANGED vars
  BY <1>7 DEF vars, agentVars
<1> QED
  BY <1>1, <1>2, <1>3, <1>4, <1>5, <1>6, <1>7 DEF Next

\* The batch table and the findings change together (AppendBatch is one transaction).
LEMMA RowsStep ==
    /\ TypeOK /\ HandOfPc /\ CallOfPc /\ RowsAgree
    /\ [Next]_vars
    => RowsAgree'
<1> SUFFICES ASSUME TypeOK, HandOfPc, CallOfPc, RowsAgree, [Next]_vars
             PROVE  RowsAgree'
  OBVIOUS
<1> USE DEF TypeOK, CoreTypeOK, RowsAgree
<1>1. CASE Start \/ TickStart
  BY <1>1 DEF Start, TickStart, coreVars
<1>2. CASE DrainStep
  BY <1>2 DEF DrainStep, DrainSend, DrainQuarantine, DrainReadFails, DrainAck,
     DrainFails, DrainDone, AbandonDrain, coreVars
<1>3. CASE LiveStep
  BY <1>3 DEF LiveStep, Collect, CollectFails, Attempt, LiveAck, LiveFails,
     coreVars
<1>4. CASE SpoolStep
  BY <1>4 DEF SpoolStep, SpoolWrite, SpoolRename, SpoolFails, PruneOldest,
     PruneDone, coreVars
<1>5. CASE CoreStep
  BY <1>5 DEF CoreStep, CoreVerify, CoreAppend, CoreRefuse, Revoke, LateVerify,
     LateAppend, LateDrop, AppendBatch, coreVars
<1>6. CASE EnvStep
  BY <1>6 DEF EnvStep, DeadlinePasses, Crash, PowerCut, WriteBack, Die,
     coreVars
<1>7. CASE UNCHANGED vars
  BY <1>7 DEF vars, coreVars
<1> QED
  BY <1>1, <1>2, <1>3, <1>4, <1>5, <1>6, <1>7 DEF Next

\* A 2xx the agent has not read yet is true, and stays true.
LEMMA AnswerStep ==
    /\ TypeOK /\ CallOfPc /\ AnswerIsTrue
    /\ [Next]_vars
    => AnswerIsTrue'
<1> SUFFICES ASSUME TypeOK, CallOfPc, AnswerIsTrue, [Next]_vars
             PROVE  AnswerIsTrue'
  OBVIOUS
<1> USE DEF AnswerIsTrue, CallOfPc
<1>1. CASE Start \/ TickStart
  BY <1>1 DEF Start, TickStart, agentVars, coreVars
<1>2. CASE DrainStep
  BY <1>2 DEF DrainStep, DrainSend, DrainQuarantine, DrainReadFails, DrainAck,
     DrainFails, DrainDone, AbandonDrain, agentVars, coreVars
<1>3. CASE LiveStep
  BY <1>3 DEF LiveStep, Collect, CollectFails, Attempt, LiveAck, LiveFails,
     agentVars, coreVars
<1>4. CASE SpoolStep
  BY <1>4 DEF SpoolStep, SpoolWrite, SpoolRename, SpoolFails, PruneOldest,
     PruneDone, agentVars, coreVars
<1>5. CASE CoreStep
  BY <1>5 DEF CoreStep, CoreVerify, CoreAppend, CoreRefuse, Revoke, LateVerify,
     LateAppend, LateDrop, AppendBatch, agentVars, coreVars
<1>6. CASE EnvStep
  BY <1>6 DEF EnvStep, DeadlinePasses, Crash, PowerCut, WriteBack, Die,
     agentVars, coreVars
<1>7. CASE UNCHANGED vars
  BY <1>7 DEF vars, agentVars, coreVars
<1> QED
  BY <1>1, <1>2, <1>3, <1>4, <1>5, <1>6, <1>7 DEF Next

\* Only a true 2xx makes a batch acknowledged.
LEMMA AckedStep ==
    /\ TypeOK /\ AnswerIsTrue /\ AckedRecorded
    /\ [Next]_vars
    => AckedRecorded'
<1> SUFFICES ASSUME TypeOK, AnswerIsTrue, AckedRecorded, [Next]_vars
             PROVE  AckedRecorded'
  OBVIOUS
<1> USE DEF AnswerIsTrue, AckedRecorded
<1>1. CASE Start \/ TickStart
  BY <1>1 DEF Start, TickStart, coreVars, histVars
<1>2. CASE DrainStep
  BY <1>2 DEF DrainStep, DrainSend, DrainQuarantine, DrainReadFails, DrainAck,
     DrainFails, DrainDone, AbandonDrain, coreVars, histVars
<1>3. CASE LiveStep
  BY <1>3 DEF LiveStep, Collect, CollectFails, Attempt, LiveAck, LiveFails,
     coreVars, histVars
<1>4. CASE SpoolStep
  BY <1>4 DEF SpoolStep, SpoolWrite, SpoolRename, SpoolFails, PruneOldest,
     PruneDone, coreVars, histVars
<1>5. CASE CoreStep
  BY <1>5 DEF CoreStep, CoreVerify, CoreAppend, CoreRefuse, Revoke, LateVerify,
     LateAppend, LateDrop, AppendBatch, coreVars, histVars
<1>6. CASE EnvStep
  BY <1>6 DEF EnvStep, DeadlinePasses, Crash, PowerCut, WriteBack, Die,
     coreVars, histVars
<1>7. CASE UNCHANGED vars
  BY <1>7 DEF vars, coreVars, histVars
<1> QED
  BY <1>1, <1>2, <1>3, <1>4, <1>5, <1>6, <1>7 DEF Next

\* Everything that carries a batch carries a minted one.
LEMMA KnownStep ==
    /\ TypeOK /\ HandOfPc /\ CallOfPc /\ KnownBatches
    /\ [Next]_vars
    => KnownBatches'
<1> SUFFICES ASSUME TypeOK, HandOfPc, CallOfPc, KnownBatches, [Next]_vars
             PROVE  KnownBatches'
  OBVIOUS
<1> USE DEF TypeOK, AgentTypeOK, DiskTypeOK, CoreTypeOK, HistTypeOK, HandOfPc,
       CallOfPc, HoldsBatch, KnownBatches
<1>1. CASE Start \/ TickStart
  BY <1>1 DEF Start, TickStart, agentVars, diskVars, lateVars, coreVars, histVars
<1>2. CASE DrainStep
  BY <1>2 DEF DrainStep, DrainSend, DrainQuarantine, DrainReadFails, DrainAck,
     DrainFails, DrainDone, AbandonDrain, Orphan, agentVars, diskVars, lateVars,
     coreVars, histVars
<1>3. CASE LiveStep
  BY <1>3 DEF LiveStep, Collect, CollectFails, Attempt, LiveAck, LiveFails,
     Orphan, agentVars, diskVars, lateVars, coreVars, histVars
<1>4. CASE SpoolStep
  BY <1>4 DEF SpoolStep, SpoolWrite, SpoolRename, SpoolFails, PruneOldest,
     PruneDone, agentVars, diskVars, lateVars, coreVars, histVars
<1>5. CASE CoreStep
  BY <1>5 DEF CoreStep, CoreVerify, CoreAppend, CoreRefuse, Revoke, LateVerify,
     LateAppend, LateDrop, AppendBatch, agentVars, diskVars, lateVars, coreVars, histVars
<1>6. CASE EnvStep
  BY <1>6 DEF EnvStep, DeadlinePasses, Crash, PowerCut, WriteBack, Die,
     Orphan, Survivors, agentVars, diskVars, lateVars, coreVars, histVars
<1>7. CASE UNCHANGED vars
  BY <1>7 DEF vars, agentVars, diskVars, lateVars, coreVars, histVars
<1> QED
  BY <1>1, <1>2, <1>3, <1>4, <1>5, <1>6, <1>7 DEF Next

\* A torn spool file takes a power cut.
LEMMA TornStep ==
    /\ TypeOK /\ HandOfPc /\ NothingTorn
    /\ [Next]_vars
    => NothingTorn'
<1> SUFFICES ASSUME TypeOK, HandOfPc, NothingTorn, [Next]_vars
             PROVE  NothingTorn'
  OBVIOUS
<1> USE DEF TypeOK, AgentTypeOK, DiskTypeOK, HistTypeOK, HandOfPc, HoldsBatch,
       NothingTorn
<1>1. CASE Start \/ TickStart
  BY <1>1 DEF Start, TickStart, diskVars, histVars
<1>2. CASE DrainStep
  BY <1>2 DEF DrainStep, DrainSend, DrainQuarantine, DrainReadFails, DrainAck,
     DrainFails, DrainDone, AbandonDrain, diskVars, histVars
<1>3. CASE LiveStep
  BY <1>3 DEF LiveStep, Collect, CollectFails, Attempt, LiveAck, LiveFails,
     diskVars, histVars
<1>4. CASE SpoolStep
  BY <1>4 DEF SpoolStep, SpoolWrite, SpoolRename, SpoolFails, PruneOldest,
     PruneDone, diskVars, histVars
<1>5. CASE CoreStep
  BY <1>5 DEF CoreStep, CoreVerify, CoreAppend, CoreRefuse, Revoke, LateVerify,
     LateAppend, LateDrop, diskVars, histVars
<1>6. CASE EnvStep
  BY <1>6 DEF EnvStep, DeadlinePasses, Crash, PowerCut, WriteBack, Die,
     diskVars, histVars
<1>7. CASE UNCHANGED vars
  BY <1>7 DEF vars, diskVars, histVars
<1> QED
  BY <1>1, <1>2, <1>3, <1>4, <1>5, <1>6, <1>7 DEF Next

\* The file Drain is sending stays in the outbox until its answer.
LEMMA DrainedStep ==
    /\ TypeOK /\ HandOfPc /\ DrainedHasFile
    /\ [Next]_vars
    => DrainedHasFile'
<1> SUFFICES ASSUME TypeOK, HandOfPc, DrainedHasFile, [Next]_vars
             PROVE  DrainedHasFile'
  OBVIOUS
<1> USE DEF TypeOK, AgentTypeOK, DiskTypeOK, HandOfPc, HoldsBatch, DrainedHasFile
<1>1. CASE Start \/ TickStart
  BY <1>1 DEF Start, TickStart, agentVars, diskVars
<1>2. CASE DrainStep
  BY <1>2 DEF DrainStep, DrainSend, DrainQuarantine, DrainReadFails, DrainAck,
     DrainFails, DrainDone, AbandonDrain, agentVars, diskVars
<1>3. CASE LiveStep
  BY <1>3 DEF LiveStep, Collect, CollectFails, Attempt, LiveAck, LiveFails,
     agentVars, diskVars
<1>4. CASE SpoolStep
  BY <1>4 DEF SpoolStep, SpoolWrite, SpoolRename, SpoolFails, PruneOldest,
     PruneDone, agentVars, diskVars
<1>5. CASE CoreStep
  BY <1>5 DEF CoreStep, CoreVerify, CoreAppend, CoreRefuse, Revoke, LateVerify,
     LateAppend, LateDrop, agentVars, diskVars
<1>6. CASE EnvStep
  BY <1>6 DEF EnvStep, DeadlinePasses, Crash, PowerCut, WriteBack, Die,
     agentVars, diskVars
<1>7. CASE UNCHANGED vars
  BY <1>7 DEF vars, agentVars, diskVars
<1> QED
  BY <1>1, <1>2, <1>3, <1>4, <1>5, <1>6, <1>7 DEF Next

\* No step drops a batch without a cause.
LEMMA LossStep ==
    /\ TypeOK /\ HandOfPc /\ CallOfPc /\ RowsAgree
    /\ AnswerIsTrue /\ DrainedHasFile /\ NoSilentLoss
    /\ [Next]_vars
    => NoSilentLoss'
<1> SUFFICES ASSUME TypeOK, HandOfPc, CallOfPc, RowsAgree, AnswerIsTrue,
                    DrainedHasFile, NoSilentLoss, [Next]_vars
             PROVE  NoSilentLoss'
  OBVIOUS
<1> USE DeliveryAssumption
    DEF TypeOK, AgentTypeOK, DiskTypeOK, CoreTypeOK, HistTypeOK, HandOfPc, CallOfPc,
       HoldsBatch, RowsAgree, AnswerIsTrue, DrainedHasFile, NoSilentLoss, InMemoryOnly
<1>1. CASE Start \/ TickStart
  BY <1>1 DEF Start, TickStart, agentVars, diskVars, coreVars, histVars
<1>2. CASE DrainStep
  <2>1. ASSUME NEW b \in Batches, DrainSend(b) PROVE NoSilentLoss'
    BY <2>1 DEF DrainSend, AbandonDrain, agentVars, diskVars, coreVars, histVars
  <2>2. ASSUME NEW b \in Batches, DrainQuarantine(b) PROVE NoSilentLoss'
    BY <2>2 DEF DrainQuarantine, agentVars, diskVars, coreVars, histVars
  <2>3. CASE DrainReadFails
    BY <2>3 DEF DrainReadFails, AbandonDrain, agentVars, diskVars, coreVars, histVars
  <2>4. CASE DrainAck
    BY <2>4 DEF DrainAck, AbandonDrain, agentVars, diskVars, coreVars, histVars
  <2>5. CASE DrainFails
    BY <2>5 DEF DrainFails, AbandonDrain, agentVars, diskVars, coreVars, histVars
  <2>6. CASE DrainDone
    BY <2>6 DEF DrainDone, agentVars, diskVars, coreVars, histVars
  <2> QED
    BY <1>2, <2>1, <2>2, <2>3, <2>4, <2>5, <2>6 DEF DrainStep
<1>3. CASE LiveStep
  <2>1. ASSUME NEW b \in Batches, Collect(b) PROVE NoSilentLoss'
    BY <2>1 DEF Collect, agentVars, diskVars, coreVars, histVars
  <2>2. CASE CollectFails
    BY <2>2 DEF CollectFails, agentVars, diskVars, coreVars, histVars
  <2>3. CASE Attempt
    BY <2>3 DEF Attempt, agentVars, diskVars, coreVars, histVars
  <2>4. CASE LiveAck
    BY <2>4 DEF LiveAck, agentVars, diskVars, coreVars, histVars
  <2>5. CASE LiveFails
    BY <2>5 DEF LiveFails, agentVars, diskVars, coreVars, histVars
  <2> QED
    BY <1>3, <2>1, <2>2, <2>3, <2>4, <2>5 DEF LiveStep
<1>4. CASE SpoolStep
  BY <1>4 DEF SpoolStep, SpoolWrite, SpoolRename, SpoolFails, PruneOldest,
     PruneDone, agentVars, diskVars, coreVars, histVars
<1>5. CASE CoreStep
  BY <1>5 DEF CoreStep, CoreVerify, CoreAppend, CoreRefuse, Revoke, LateVerify,
     LateAppend, LateDrop, AppendBatch, agentVars, diskVars, coreVars, histVars
<1>6. CASE EnvStep
  BY <1>6 DEF EnvStep, DeadlinePasses, Crash, PowerCut, WriteBack, Die,
     agentVars, diskVars, coreVars, histVars
<1>7. CASE UNCHANGED vars
  BY <1>7 DEF vars, agentVars, diskVars, coreVars, histVars
<1> QED
  BY <1>1, <1>2, <1>3, <1>4, <1>5, <1>6, <1>7 DEF Next

\* Alive and with a working disk, only Prune drops a batch.
LEMMA PruneLossStep ==
    /\ TypeOK /\ HandOfPc /\ CallOfPc /\ RowsAgree
    /\ AnswerIsTrue /\ DrainedHasFile /\ NothingTorn /\ OnlyPruneLoses
    /\ [Next]_vars
    => OnlyPruneLoses'
<1> SUFFICES ASSUME TypeOK, HandOfPc, CallOfPc, RowsAgree, AnswerIsTrue,
                    DrainedHasFile, NothingTorn, OnlyPruneLoses, [Next]_vars
             PROVE  OnlyPruneLoses'
  OBVIOUS
<1> USE DeliveryAssumption
    DEF TypeOK, AgentTypeOK, DiskTypeOK, CoreTypeOK, HistTypeOK, HandOfPc, CallOfPc,
       HoldsBatch, RowsAgree, AnswerIsTrue, DrainedHasFile, NothingTorn,
       OnlyPruneLoses, InMemoryOnly
<1>1. CASE Start \/ TickStart
  BY <1>1 DEF Start, TickStart, agentVars, diskVars, coreVars, histVars
<1>2. CASE DrainStep
  <2>1. ASSUME NEW b \in Batches, DrainSend(b) PROVE OnlyPruneLoses'
    BY <2>1 DEF DrainSend, AbandonDrain, agentVars, diskVars, coreVars, histVars
  <2>2. ASSUME NEW b \in Batches, DrainQuarantine(b) PROVE OnlyPruneLoses'
    BY <2>2 DEF DrainQuarantine, agentVars, diskVars, coreVars, histVars
  <2>3. CASE DrainReadFails
    BY <2>3 DEF DrainReadFails, AbandonDrain, agentVars, diskVars, coreVars, histVars
  <2>4. CASE DrainAck
    BY <2>4 DEF DrainAck, AbandonDrain, agentVars, diskVars, coreVars, histVars
  <2>5. CASE DrainFails
    BY <2>5 DEF DrainFails, AbandonDrain, agentVars, diskVars, coreVars, histVars
  <2>6. CASE DrainDone
    BY <2>6 DEF DrainDone, agentVars, diskVars, coreVars, histVars
  <2> QED
    BY <1>2, <2>1, <2>2, <2>3, <2>4, <2>5, <2>6 DEF DrainStep
<1>3. CASE LiveStep
  <2>1. ASSUME NEW b \in Batches, Collect(b) PROVE OnlyPruneLoses'
    BY <2>1 DEF Collect, agentVars, diskVars, coreVars, histVars
  <2>2. CASE CollectFails
    BY <2>2 DEF CollectFails, agentVars, diskVars, coreVars, histVars
  <2>3. CASE Attempt
    BY <2>3 DEF Attempt, agentVars, diskVars, coreVars, histVars
  <2>4. CASE LiveAck
    BY <2>4 DEF LiveAck, agentVars, diskVars, coreVars, histVars
  <2>5. CASE LiveFails
    BY <2>5 DEF LiveFails, agentVars, diskVars, coreVars, histVars
  <2> QED
    BY <1>3, <2>1, <2>2, <2>3, <2>4, <2>5 DEF LiveStep
<1>4. CASE SpoolStep
  BY <1>4 DEF SpoolStep, SpoolWrite, SpoolRename, SpoolFails, PruneOldest,
     PruneDone, agentVars, diskVars, coreVars, histVars
<1>5. CASE CoreStep
  BY <1>5 DEF CoreStep, CoreVerify, CoreAppend, CoreRefuse, Revoke, LateVerify,
     LateAppend, LateDrop, AppendBatch, agentVars, diskVars, coreVars, histVars
<1>6. CASE EnvStep
  BY <1>6 DEF EnvStep, DeadlinePasses, Crash, PowerCut, WriteBack, Die,
     agentVars, diskVars, coreVars, histVars
<1>7. CASE UNCHANGED vars
  BY <1>7 DEF vars, agentVars, diskVars, coreVars, histVars
<1> QED
  BY <1>1, <1>2, <1>3, <1>4, <1>5, <1>6, <1>7 DEF Next

----------------------------------------------------------------------------
IInv == TypeOK /\ SafetyInv /\ LossInv

\* The strengthened invariant holds in every state of every behaviour.
THEOREM Invariance == Spec => []IInv
<1>1. Init => IInv
  <2> SUFFICES ASSUME Init PROVE IInv
    OBVIOUS
  <2>1. TypeOK
    BY TypeInit
  <2>2. SafetyInv
    BY DeliveryAssumption DEF Init, SafetyInv, HandOfPc, HoldsBatch, CallOfPc,
       RowsAgree, AnswerIsTrue, AckedRecorded, KnownBatches
  <2>3. LossInv
    BY DEF Init, LossInv, DrainedHasFile, NoSilentLoss, NothingTorn, OnlyPruneLoses
  <2> QED
    BY <2>1, <2>2, <2>3 DEF IInv
<1>2. IInv /\ [Next]_vars => IInv'
  <2> SUFFICES ASSUME IInv, [Next]_vars PROVE IInv'
    OBVIOUS
  <2>1. TypeOK'
    BY AgentTypes, FlagTypes, DiskTypes, CoreTypes, HistTypes
       DEF IInv, SafetyInv, TypeOK
  <2>2. SafetyInv'
    BY HandStep, CallStep, RowsStep, AnswerStep, AckedStep, KnownStep
       DEF IInv, SafetyInv
  <2>3. LossInv'
    BY DrainedStep, TornStep, LossStep, PruneLossStep DEF IInv, SafetyInv, LossInv
  <2> QED
    BY <2>1, <2>2, <2>3 DEF IInv
<1> QED
  BY <1>1, <1>2, PTL DEF Spec

\* Type correctness of the delivery protocol.
THEOREM TypeCorrect == Spec => []TypeOK
  BY Invariance, PTL DEF IInv

\* However often a batch is sent, resent after a restart or executed by the
\* core after its sender gave up, AppendBatch inserts its findings once.
THEOREM BatchStoredOnce == Spec => []StoredOnce
<1>1. IInv => StoredOnce
  BY DEF IInv, SafetyInv, RowsAgree, StoredOnce
<1> QED
  BY <1>1, Invariance, PTL

\* A batch the agent was told is received has its findings in the store.
THEOREM AcknowledgedIsStored == Spec => []AckedMeansStored
<1>1. IInv => AckedMeansStored
  BY DEF IInv, SafetyInv, RowsAgree, AckedRecorded, AckedMeansStored, TypeOK,
     HistTypeOK
<1> QED
  BY <1>1, Invariance, PTL

\* The agent's tick, Spool, Drain and Prune never drop a batch unnoticed.
THEOREM NoBatchVanishes == Spec => []NoSilentLoss
  BY Invariance, PTL DEF IInv, LossInv

\* With the process alive and the disk working, only Prune drops a batch.
THEOREM PruneIsOnlyLoss == Spec => []OnlyPruneLoses
  BY Invariance, PTL DEF IInv, LossInv

----------------------------------------------------------------------------
(* The directory total.  Total is a fold over a set; these lemmas take it  *)
(* apart far enough to compare the totals of two listings.  A smallest     *)
(* counterexample, which exists because < is well-founded on cardinalities, *)
(* stands in for induction over the set.                                   *)

First(s) == CHOOSE b \in s : TRUE

\* One round of the fold over the subsets of D.
Round(g, D) ==
    [s \in SUBSET D |->
       IF s = {} THEN 0 ELSE Size[First(s)] + g[s \ {First(s)}]]

Sums(D) == CHOOSE g : g = Round(g, D)

\* The fold behind Total, written out.
LEMMA TotalUnfolds == \A S : Total(S) = Sums(S)[S]
  BY Zenon DEF Total, MapThenSumSet, MapThenFoldSet, Sums, Round, First

\* First picks a member.
LEMMA FirstIsMember == ASSUME NEW S, S # {} PROVE First(S) \in S
  BY DEF First

\* A family of sets of batches has a member that contains no other.
LEMMA SmallestSet ==
    ASSUME NEW U \in SUBSET (SUBSET Batches), U # {}
    PROVE  \E s \in U : \A t \in U : t \subseteq s => t = s
<1> DEFINE R == OpToRel(<, Nat)
           K == {Cardinality(s) : s \in U}
<1>1. IsWellFoundedOn(R, Nat)
  BY NatLessThanWellFounded, Zenon
<1>2. \A x, y \in Nat : <<y, x>> \notin R => x <= y
  BY DEF OpToRel
<1>3. \A s \in U : IsFiniteSet(s) /\ Cardinality(s) \in Nat
  BY DeliveryAssumption, FS_Subset, FS_CardinalityType
<1>4. K \subseteq Nat /\ K # {}
  BY <1>3
<1> HIDE DEF R, K
<1>5. \E x \in K : \A y \in K : <<y, x>> \notin R
  BY <1>1, <1>4, WFMin
<1>6. PICK x \in K : \A y \in K : x <= y
  BY <1>2, <1>4, <1>5
<1>7. PICK s \in U : Cardinality(s) = x
  BY <1>6 DEF K
<1>8. ASSUME NEW t \in U, t \subseteq s PROVE t = s
  <2>1. Cardinality(t) <= Cardinality(s) /\ (Cardinality(s) = Cardinality(t) => s = t)
    BY <1>3, <1>8, FS_Subset
  <2>2. Cardinality(t) \in K
    BY DEF K
  <2> QED
    BY <1>3, <1>6, <1>7, <2>1, <2>2
<1> QED
  BY <1>8

\* Two folds agree on the sets both of them reach.
LEMMA SumsAgree ==
    ASSUME NEW D \in SUBSET Batches, NEW E \in SUBSET Batches, NEW g, NEW h,
           g = Round(g, D), h = Round(h, E),
           NEW s \in SUBSET (D \cap E)
    PROVE  g[s] = h[s]
<1> DEFINE U == {t \in SUBSET (D \cap E) : g[t] # h[t]}
<1> SUFFICES ASSUME U # {} PROVE FALSE
  OBVIOUS
<1>1. PICK t \in U : \A u \in U : u \subseteq t => u = t
  <2>1. U \in SUBSET (SUBSET Batches)
    OBVIOUS
  <2> HIDE DEF U
  <2> QED
    BY <2>1, SmallestSet
<1>2. g[t] = IF t = {} THEN 0 ELSE Size[First(t)] + g[t \ {First(t)}]
  BY <1>1 DEF Round
<1>3. h[t] = IF t = {} THEN 0 ELSE Size[First(t)] + h[t \ {First(t)}]
  BY <1>1 DEF Round
<1>4. t # {} => g[t \ {First(t)}] = h[t \ {First(t)}]
  BY <1>1, FirstIsMember
<1> QED
  BY <1>1, <1>2, <1>3, <1>4

\* The fold is defined on every set of batches.
LEMMA SumsExist ==
    ASSUME NEW D \in SUBSET Batches
    PROVE  Sums(D) = Round(Sums(D), D)
<1> DEFINE U == {t \in SUBSET Batches : Sums(t) # Round(Sums(t), t)}
<1> SUFFICES ASSUME U # {} PROVE FALSE
  OBVIOUS
<1>1. PICK t \in U : \A u \in U : u \subseteq t => u = t
  <2>1. U \in SUBSET (SUBSET Batches)
    OBVIOUS
  <2> HIDE DEF U
  <2> QED
    BY <2>1, SmallestSet
<1>2. \A u \in SUBSET t : u # t => Sums(u) = Round(Sums(u), u)
  BY <1>1
<1> DEFINE g == [s \in SUBSET t |->
                   IF s = {} THEN 0 ELSE Size[First(s)] + Total(s \ {First(s)})]
<1>3. ASSUME NEW u \in SUBSET t, u # t PROVE g[u] = Total(u)
  <2>1. Sums(u) = Round(Sums(u), u)
    BY <1>2, <1>3
  <2>2. Sums(u)[u] = IF u = {} THEN 0 ELSE Size[First(u)] + Sums(u)[u \ {First(u)}]
    BY <2>1 DEF Round
  <2>3. ASSUME u # {} PROVE Sums(u)[u \ {First(u)}] = Total(u \ {First(u)})
    <3> DEFINE v == u \ {First(u)}
    <3>1. Sums(v) = Round(Sums(v), v)
      BY <1>2, <1>3, <2>3, FirstIsMember
    <3>2. Sums(u)[v] = Sums(v)[v]
      BY <2>1, <3>1, <1>1, SumsAgree
    <3> QED
      BY <3>2, TotalUnfolds
  <2> QED
    BY <2>2, <2>3, TotalUnfolds
<1>4. \A s \in SUBSET t : s # {} => g[s \ {First(s)}] = Total(s \ {First(s)})
  BY <1>3, FirstIsMember
<1>5. g = Round(g, t)
  BY <1>4 DEF Round
<1>6. Sums(t) = Round(Sums(t), t)
  <2> HIDE DEF g
  <2>1. \E f : f = Round(f, t)
    BY <1>5
  <2> QED
    BY <2>1, Zenon DEF Sums
<1> QED
  BY <1>1, <1>6

\* The total of a directory, by the file that is counted first.
LEMMA TotalByFirst ==
    ASSUME NEW S \in SUBSET Batches
    PROVE  Total(S) = IF S = {} THEN 0 ELSE Size[First(S)] + Total(S \ {First(S)})
<1>1. Sums(S) = Round(Sums(S), S)
  BY SumsExist
<1>2. Sums(S)[S] = IF S = {} THEN 0 ELSE Size[First(S)] + Sums(S)[S \ {First(S)}]
  BY <1>1 DEF Round
<1>3. Sums(S)[S \ {First(S)}] = Total(S \ {First(S)})
  <2> DEFINE v == S \ {First(S)}
  <2>1. Sums(v) = Round(Sums(v), v)
    BY SumsExist
  <2>2. Sums(S)[v] = Sums(v)[v]
    BY <1>1, <2>1, SumsAgree
  <2> QED
    BY <2>2, TotalUnfolds
<1> QED
  BY <1>2, <1>3, TotalUnfolds

\* A total is a number of bytes.
LEMMA TotalType == ASSUME NEW S \in SUBSET Batches PROVE Total(S) \in Nat
<1> DEFINE U == {t \in SUBSET Batches : Total(t) \notin Nat}
<1> SUFFICES ASSUME U # {} PROVE FALSE
  OBVIOUS
<1>1. PICK t \in U : \A u \in U : u \subseteq t => u = t
  <2>1. U \in SUBSET (SUBSET Batches)
    OBVIOUS
  <2> HIDE DEF U
  <2> QED
    BY <2>1, SmallestSet
<1>2. t # {} => Total(t \ {First(t)}) \in Nat /\ Size[First(t)] \in Nat
  BY <1>1, FirstIsMember, DeliveryAssumption
<1>3. Total(t) = IF t = {} THEN 0 ELSE Size[First(t)] + Total(t \ {First(t)})
  BY <1>1, TotalByFirst
<1>4. Total(t) \in Nat
  BY <1>2, <1>3
<1> QED
  BY <1>1, <1>4

\* One more file adds its size, whichever is counted first.
LEMMA TotalOfOneMore ==
    ASSUME NEW S \in SUBSET Batches, NEW x \in Batches \ S
    PROVE  Total(S \cup {x}) = Total(S) + Size[x]
<1> DEFINE U == {t \in SUBSET Batches : \E y \in Batches \ t :
                    Total(t \cup {y}) # Total(t) + Size[y]}
<1> SUFFICES ASSUME U # {} PROVE FALSE
  OBVIOUS
<1>1. PICK t \in U : \A u \in U : u \subseteq t => u = t
  <2>1. U \in SUBSET (SUBSET Batches)
    OBVIOUS
  <2> HIDE DEF U
  <2> QED
    BY <2>1, SmallestSet
<1>2. PICK y \in Batches \ t : Total(t \cup {y}) # Total(t) + Size[y]
  BY <1>1
<1> DEFINE p == First(t \cup {y})
           v == t \ {p}
<1>3. p \in t \cup {y}
  BY FirstIsMember
<1>4. Total(t \cup {y}) = Size[p] + Total((t \cup {y}) \ {p})
  BY <1>1, <1>2, TotalByFirst
<1>5. Total(t) \in Nat /\ Total(v) \in Nat /\ Size[y] \in Nat /\ Size[p] \in Nat
  BY <1>1, <1>2, <1>3, TotalType, DeliveryAssumption
<1>6. CASE p = y
  <2>1. (t \cup {y}) \ {p} = t
    BY <1>2, <1>6
  <2> HIDE DEF p
  <2> QED
    BY <1>2, <1>4, <1>5, <1>6, <2>1
<1>7. CASE p # y
  <2>1. p \in t /\ (t \cup {y}) \ {p} = v \cup {y} /\ v \cup {p} = t
    BY <1>2, <1>3, <1>7
  <2>2. v \in SUBSET Batches /\ v \notin U /\ p \in Batches \ v /\ y \in Batches \ v
    BY <1>1, <1>2, <2>1
  <2>3. Total(v \cup {y}) = Total(v) + Size[y] /\ Total(v \cup {p}) = Total(v) + Size[p]
    BY <2>2
  <2> HIDE DEF p, v
  <2> QED
    BY <1>2, <1>4, <1>5, <2>1, <2>3
<1> QED
  BY <1>6, <1>7

\* Fewer files are no more bytes.
LEMMA TotalOfFewer ==
    ASSUME NEW S \in SUBSET Batches, NEW T \in SUBSET S
    PROVE  Total(T) <= Total(S)
<1> DEFINE U == {t \in SUBSET Batches : T \subseteq t /\ ~(Total(T) <= Total(t))}
<1> SUFFICES ASSUME U # {} PROVE FALSE
  OBVIOUS
<1>1. PICK t \in U : \A u \in U : u \subseteq t => u = t
  <2>1. U \in SUBSET (SUBSET Batches)
    OBVIOUS
  <2> HIDE DEF U
  <2> QED
    BY <2>1, SmallestSet
<1>2. Total(T) \in Nat /\ Total(t) \in Nat
  BY <1>1, TotalType
<1>3. PICK x \in t : x \notin T
  <2>1. T # t
    BY <1>1, <1>2
  <2> QED
    BY <1>1, <2>1
<1>4. Total(T) <= Total(t \ {x}) /\ Total(t \ {x}) \in Nat
  BY <1>1, <1>3, TotalType
<1>5. Total(t) = Total(t \ {x}) + Size[x]
  <2>1. t \ {x} \in SUBSET Batches /\ x \in Batches \ (t \ {x}) /\ (t \ {x}) \cup {x} = t
    BY <1>1, <1>3
  <2> QED
    BY <2>1, TotalOfOneMore
<1>6. Size[x] \in Nat
  BY <1>1, <1>3, DeliveryAssumption
<1> QED
  BY <1>1, <1>2, <1>4, <1>5, <1>6

\* The largest batch is at least as large as any.
LEMMA LargestIsLargest ==
    LargestSize \in Nat /\ \A b \in Batches : Size[b] <= LargestSize
<1> DEFINE N == {Size[b] : b \in Batches} \cup {0}
           n == Total(Batches)
           K == {n - k : k \in N}
           R == OpToRel(<, Nat)
<1>1. n \in Nat /\ N \subseteq Nat /\ N # {}
  BY TotalType, DeliveryAssumption
<1>2. \A k \in N : k <= n
  <2>1. ASSUME NEW b \in Batches PROVE Size[b] <= n
    <3>1. Total({}) = 0
      BY TotalByFirst
    <3>2. {} \cup {b} = {b} /\ {b} \in SUBSET Batches /\ b \in Batches \ {}
      OBVIOUS
    <3>3. Total({b}) = Size[b]
      BY <3>1, <3>2, TotalOfOneMore, DeliveryAssumption
    <3>4. Total({b}) <= Total(Batches)
      BY <3>2, TotalOfFewer
    <3> QED
      BY <3>3, <3>4
  <2> QED
    BY <1>1, <2>1
<1> HIDE DEF n, N
<1>3. K \subseteq Nat /\ K # {}
  <2>1. \A k \in N : n - k \in Nat
    BY <1>1, <1>2
  <2> QED
    BY <1>1, <2>1
<1>4. IsWellFoundedOn(R, Nat)
  BY NatLessThanWellFounded, Zenon
<1>5. \A x, y \in Nat : <<y, x>> \notin R => x <= y
  BY DEF OpToRel
<1>6. PICK x \in K : \A y \in K : x <= y
  <2> HIDE DEF K, R
  <2>1. \E x \in K : \A y \in K : <<y, x>> \notin R
    BY <1>3, <1>4, WFMin
  <2> QED
    BY <1>3, <1>5, <2>1
<1>7. PICK m \in N : x = n - m
  BY <1>6
<1>8. \A k \in N : m >= k
  <2> SUFFICES ASSUME NEW k \in N PROVE m >= k
    OBVIOUS
  <2>1. n - k \in K
    OBVIOUS
  <2>2. n - m <= n - k
    BY <1>6, <1>7, <2>1
  <2> QED
    BY <1>1, <2>2
<1>9. Max(N) \in N /\ \A k \in N : Max(N) >= k
  BY <1>8 DEF Max
<1>10. LargestSize = Max(N)
  BY DEF LargestSize, N
<1>11. \A b \in Batches : Size[b] \in N
  BY DEF N
<1> QED
  BY <1>1, <1>9, <1>10, <1>11

\* The room the outbox may take: over the limit by the batch that was just
\* written, and by one more for each process death.
Excess(n) == n * LargestSize

\* Room grows with the deaths.
LEMMA ExcessGrows ==
    ASSUME NEW n \in Nat
    PROVE  Excess(n) \in Nat /\ Excess(n + 1) = Excess(n) + LargestSize
  BY LargestIsLargest DEF Excess

Deaths(c, at) == c + (IF at = "prune" THEN 1 ELSE 0)

\* A Prune under way counts as one.
LEMMA DeathsAreCounted == ASSUME NEW c \in Nat, NEW at PROVE Deaths(c, at) \in Nat
  BY DEF Deaths

\* The bound is kept by whatever lists no new file and forgets no death.
LEMMA ShrinkingOutbox ==
    ASSUME OutboxBounded, TypeOK, crashes' \in Nat,
           Listed' \subseteq Listed,
           Deaths(crashes', pc') \in {Deaths(crashes, pc), Deaths(crashes, pc) + 1}
    PROVE  OutboxBounded'
<1> SUFFICES ASSUME ~DiskFaults, ~PowerCuts
             PROVE  Total(Listed') <= MaxBytes + Excess(Deaths(crashes', pc'))
  BY DEF OutboxBounded, Excess, Deaths
<1>1. Deaths(crashes, pc) \in Nat
  BY DEF Deaths, TypeOK, HistTypeOK
<1>2. Total(Listed) <= MaxBytes + Excess(Deaths(crashes, pc))
  BY DEF OutboxBounded, Excess, Deaths
<1>3. Listed \in SUBSET Batches /\ Listed' \in SUBSET Batches
  BY DEF Listed
<1>4. Total(Listed) \in Nat /\ Total(Listed') \in Nat /\ Total(Listed') <= Total(Listed)
  BY <1>3, TotalType, TotalOfFewer
<1>5. /\ Excess(Deaths(crashes, pc)) \in Nat
      /\ Excess(Deaths(crashes, pc) + 1) = Excess(Deaths(crashes, pc)) + LargestSize
  BY <1>1, ExcessGrows
<1> QED
  BY <1>2, <1>4, <1>5, LargestIsLargest, DeliveryAssumption

\* No step lets the outbox outgrow its bound: Spool adds one file and then
\* owes a Prune, and Prune ends, or the process dies, before the next one.
LEMMA OutboxStep == IInv /\ OutboxBounded /\ [Next]_vars => OutboxBounded'
<1> SUFFICES ASSUME IInv, OutboxBounded, [Next]_vars PROVE OutboxBounded'
  OBVIOUS
<1>0. TypeOK /\ TypeOK' /\ HandOfPc
  BY AgentTypes, FlagTypes, DiskTypes, CoreTypes, HistTypes
     DEF IInv, SafetyInv, TypeOK
<1>1. crashes \in Nat /\ crashes' \in Nat
  BY <1>0 DEF TypeOK, HistTypeOK
<1>2. file \in [Batches -> FileStates]
  BY <1>0 DEF TypeOK, DiskTypeOK
<1> USE DEF Deaths
<1>3. CASE Start \/ TickStart
  <2>1. Listed' = Listed
    BY <1>3 DEF Start, TickStart, diskVars, Listed
  <2> QED
    BY <1>0, <1>1, <1>3, <2>1, ShrinkingOutbox DEF Start, TickStart, histVars
<1>4. CASE DrainStep
  <2>1. Listed' \subseteq Listed
    BY <1>2, <1>4 DEF DrainStep, DrainSend, DrainQuarantine, DrainReadFails,
       DrainAck, DrainFails, DrainDone, diskVars, Listed, FileStates
  <2>2. crashes' = crashes /\ pc # "prune" /\ pc' # "prune"
    BY <1>4 DEF DrainStep, DrainSend, DrainQuarantine, DrainReadFails,
       DrainAck, DrainFails, DrainDone, AbandonDrain, histVars
  <2> QED
    BY <1>0, <1>1, <2>1, <2>2, ShrinkingOutbox
<1>5. CASE LiveStep
  <2>1. Listed' = Listed
    BY <1>5 DEF LiveStep, Collect, CollectFails, Attempt, LiveAck, LiveFails,
       diskVars, Listed
  <2>2. crashes' = crashes /\ pc # "prune" /\ pc' # "prune"
    BY <1>5 DEF LiveStep, Collect, CollectFails, Attempt, LiveAck, LiveFails,
       histVars
  <2> QED
    BY <1>0, <1>1, <2>1, <2>2, ShrinkingOutbox
<1>6. CASE SpoolWrite \/ SpoolFails
  <2>1. Listed' \subseteq Listed
    BY <1>2, <1>6 DEF SpoolWrite, SpoolFails, Listed, FileStates
  <2>2. crashes' = crashes /\ pc # "prune" /\ pc' # "prune"
    BY <1>6 DEF SpoolWrite, SpoolFails, histVars
  <2> QED
    BY <1>0, <1>1, <2>1, <2>2, ShrinkingOutbox
<1>7. CASE SpoolRename
  <2> SUFFICES ASSUME ~DiskFaults, ~PowerCuts
               PROVE  Total(Listed') <= MaxBytes + Excess(Deaths(crashes', pc'))
    BY DEF OutboxBounded, Excess
  <2>1. hand \in Batches
    BY <1>0, <1>7 DEF SpoolRename, HandOfPc, HoldsBatch, TypeOK, AgentTypeOK
  <2>2. Listed \in SUBSET Batches /\ Listed' = Listed \cup {hand}
    BY <1>2, <1>7, <2>1 DEF SpoolRename, Listed, FileStates
  <2>3. Deaths(crashes', pc') = Deaths(crashes, pc) + 1 /\ Deaths(crashes, pc) \in Nat
    BY <1>1, <1>7 DEF SpoolRename, histVars
  <2>4. Total(Listed) <= MaxBytes + Excess(Deaths(crashes, pc))
    BY DEF OutboxBounded, Excess
  <2>5. Total(Listed') <= Total(Listed) + Size[hand] /\ Total(Listed') \in Nat
    <3>1. CASE hand \in Listed
      <4>1. Listed' = Listed
        BY <2>2, <3>1
      <4> QED
        BY <2>1, <2>2, <4>1, TotalType, DeliveryAssumption
    <3>2. CASE hand \notin Listed
      BY <2>1, <2>2, <3>2, TotalOfOneMore, TotalType, DeliveryAssumption
    <3> QED
      BY <3>1, <3>2
  <2>6. /\ Excess(Deaths(crashes, pc)) \in Nat
        /\ Excess(Deaths(crashes', pc')) = Excess(Deaths(crashes, pc)) + LargestSize
    BY <2>3, ExcessGrows
  <2>7. Total(Listed) \in Nat /\ Size[hand] \in Nat /\ Size[hand] <= LargestSize
    BY <2>1, <2>2, TotalType, LargestIsLargest, DeliveryAssumption
  <2> QED
    BY <2>4, <2>5, <2>6, <2>7, LargestIsLargest, DeliveryAssumption
<1>8. CASE \E b \in Batches : PruneOldest(b)
  <2>1. Listed' \subseteq Listed
    BY <1>2, <1>8 DEF PruneOldest, Listed, FileStates
  <2>2. crashes' = crashes /\ pc' = pc
    BY <1>8 DEF PruneOldest, agentVars
  <2> QED
    BY <1>0, <1>1, <2>1, <2>2, ShrinkingOutbox
<1>9. CASE PruneDone
  <2> SUFFICES ASSUME ~DiskFaults, ~PowerCuts
               PROVE  Total(Listed') <= MaxBytes + Excess(Deaths(crashes', pc'))
    BY DEF OutboxBounded, Excess
  <2>1. Listed' = Listed /\ Total(Listed) <= MaxBytes
    BY <1>9 DEF PruneDone, diskVars, Listed
  <2>2. Deaths(crashes', pc') \in Nat
    BY <1>1, DeathsAreCounted
  <2>3. Excess(Deaths(crashes', pc')) \in Nat
    BY <2>2, ExcessGrows
  <2>4. Total(Listed) \in Nat
    BY TotalType DEF Listed
  <2> QED
    BY <2>1, <2>3, <2>4, DeliveryAssumption
<1>10. CASE CoreStep
  <2>1. Listed' = Listed
    BY <1>10 DEF CoreStep, CoreVerify, CoreAppend, CoreRefuse, Revoke, LateVerify,
       LateAppend, LateDrop, diskVars, Listed
  <2>2. crashes' = crashes /\ pc' = pc
    BY <1>10 DEF CoreStep, CoreVerify, CoreAppend, CoreRefuse, Revoke, LateVerify,
       LateAppend, LateDrop, agentVars, histVars
  <2> QED
    BY <1>0, <1>1, <2>1, <2>2, ShrinkingOutbox
<1>11. CASE Crash
  <2>1. Listed' = Listed
    BY <1>11 DEF Crash, Listed
  <2>2. crashes' = crashes + 1 /\ pc' = "down"
    BY <1>11 DEF Crash, Die
  <2> QED
    BY <1>0, <1>1, <2>1, <2>2, ShrinkingOutbox
<1>12. CASE PowerCut
  BY <1>12 DEF PowerCut, OutboxBounded
<1>13. CASE DeadlinePasses \/ (\E b \in Batches : WriteBack(b)) \/ UNCHANGED vars
  <2>1. Listed' = Listed
    BY <1>13 DEF DeadlinePasses, WriteBack, diskVars, vars, Listed
  <2>2. crashes' = crashes /\ pc' = pc
    BY <1>13 DEF DeadlinePasses, WriteBack, agentVars, histVars, vars
  <2> QED
    BY <1>0, <1>1, <2>1, <2>2, ShrinkingOutbox
<1> QED
  BY <1>3, <1>4, <1>5, <1>6, <1>7, <1>8, <1>9, <1>10, <1>11, <1>12, <1>13
     DEF Next, SpoolStep, EnvStep

\* Prune keeps the outbox within its limit (outbox.go), but for the batch that
\* was just written and one more for every process death before its Prune.
THEOREM OutboxStaysBounded == Spec => []OutboxBounded
<1>1. Init => OutboxBounded
  <2> SUFFICES ASSUME Init PROVE Total(Listed) <= MaxBytes + Excess(Deaths(crashes, pc))
    BY DEF OutboxBounded, Excess, Deaths
  <2>1. Listed = {}
    BY DEF Init, Listed
  <2>2. Total(Listed) = 0
    BY <2>1, TotalByFirst
  <2>3. Excess(Deaths(crashes, pc)) \in Nat
    <3>1. Deaths(crashes, pc) \in Nat
      BY DEF Init, Deaths
    <3> QED
      BY <3>1, ExcessGrows
  <2> QED
    BY <2>2, <2>3, DeliveryAssumption
<1> QED
  BY <1>1, OutboxStep, Invariance, PTL DEF Spec

----------------------------------------------------------------------------
(* The protocol implements the ledger.                                     *)

\* Every step of the protocol mints, stores or acknowledges one batch, or
\* leaves the ledger alone.
LEMMA LedgerStep ==
    IInv /\ [Next]_vars => [Ledger!LedgerNext]_(Ledger!ledgerVars)
<1> SUFFICES ASSUME IInv, [Next]_vars
             PROVE  [Ledger!LedgerNext]_(Ledger!ledgerVars)
  OBVIOUS
<1> USE DEF IInv, TypeOK, AgentTypeOK, CoreTypeOK, HistTypeOK, SafetyInv,
        Ledger!LedgerNext, Ledger!ledgerVars, Ledger!Mint, Ledger!Store,
        Ledger!Acknowledge
<1>0. pc \in HoldsBatch => hand \in Batches
  BY DEF HandOfPc, HoldsBatch
<1>1. CASE Start \/ TickStart
  BY <1>1 DEF Start, TickStart, coreVars, histVars
<1>2. CASE DrainStep
  BY <1>2, <1>0 DEF DrainStep, DrainSend, DrainQuarantine, DrainReadFails,
     DrainAck, DrainFails, DrainDone, HoldsBatch, AnswerIsTrue, RowsAgree,
     coreVars, histVars
<1>3. CASE LiveStep
  BY <1>3, <1>0 DEF LiveStep, Collect, CollectFails, Attempt, LiveAck,
     LiveFails, HoldsBatch, AnswerIsTrue, RowsAgree, coreVars, histVars
<1>4. CASE SpoolStep
  BY <1>4 DEF SpoolStep, SpoolWrite, SpoolRename, SpoolFails, PruneOldest,
     PruneDone, coreVars, histVars
<1>5. CASE CoreStep
  <2>1. ASSUME NEW b \in Batches, b \in minted, AppendBatch(b),
               UNCHANGED <<minted, acked>>
        PROVE  [Ledger!LedgerNext]_(Ledger!ledgerVars)
    BY <2>1 DEF AppendBatch, RowsAgree
  <2>2. CASE CoreAppend
    <3>1. hand \in Batches /\ hand \in minted
      BY <2>2, <1>0 DEF CoreAppend, CallOfPc, HoldsBatch, KnownBatches, HandOfPc
    <3> QED
      BY <2>2, <3>1, <2>1 DEF CoreAppend, histVars
  <2>3. ASSUME NEW b \in Batches, LateAppend(b)
        PROVE  [Ledger!LedgerNext]_(Ledger!ledgerVars)
    <3>1. b \in minted
      BY <2>3 DEF LateAppend, KnownBatches
    <3> QED
      BY <2>3, <3>1, <2>1 DEF LateAppend, histVars
  <2> QED
    BY <1>5, <2>2, <2>3 DEF CoreStep, CoreVerify, CoreRefuse, Revoke,
       LateVerify, LateDrop, coreVars, histVars
<1>6. CASE EnvStep
  BY <1>6 DEF EnvStep, DeadlinePasses, Crash, PowerCut, WriteBack, Die, coreVars,
     histVars
<1>7. CASE UNCHANGED vars
  BY <1>7 DEF vars, coreVars, histVars
<1> QED
  BY <1>1, <1>2, <1>3, <1>4, <1>5, <1>6, <1>7 DEF Next

\* The agent, the outbox, the network and the ingest route together
\* implement the ledger.
THEOREM ImplementsLedger == Spec => LedgerSpec
<1>1. Init => Ledger!LedgerInit
  BY DEF Init, Ledger!LedgerInit
<1> QED
  BY <1>1, LedgerStep, Invariance, PTL DEF Spec, LedgerSpec, Ledger!LedgerSpec
=============================================================================
