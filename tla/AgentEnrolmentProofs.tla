----------------------- MODULE AgentEnrolmentProofs -----------------------
(***************************************************************************)
(* Proofs about AgentEnrolment, for any machines, names, tokens and keys.  *)
(***************************************************************************)
EXTENDS AgentEnrolment, TLAPS

(***************************************************************************)
(* The inductive invariant.  Tokens: a name has a key exactly when a token *)
(* enrolled it, and a token is used exactly when it enrolled a name.       *)
(* Keys: whatever a machine holds is the key of its name, and one machine  *)
(* at most holds it.  The answer on its way counts as held.  Places: where *)
(* the agent process is tells in which of the three places a key can be.   *)
(***************************************************************************)
Holds(m, k) == k = reply[m] \/ k = key[m] \/ k = file[m]

TokenInv ==
    /\ TokenEnrolsOne /\ TokenSpentBySuccess
    /\ \A n \in Names : row[n] = NoKey <=> enrolledBy[n] = NoToken

RowInv == \A n \in Names : row[n] \in drawn \cup {NoKey}

HoldInv ==
    /\ \A m \in Machines, k \in Keys : Holds(m, k) => k = row[HostOf[m]]
    /\ \A m1, m2 \in Machines, k \in Keys :
          Holds(m1, k) /\ Holds(m2, k) => m1 = m2

CallInv ==
    \A m \in Machines :
        /\ call[m] = "sent" => pc[m] = "exchange" /\ conf[m] \in Tokens
        /\ call[m] = "ok" => pc[m] = "exchange" /\ reply[m] \in Keys
        /\ pc[m] = "exchange" => conf[m] \in Tokens
        /\ pc[m] \in {"write", "running"} => key[m] # NoKey

PlaceInv ==
    \A m \in Machines :
        /\ call[m] # "ok" => reply[m] = NoKey
        /\ pc[m] \in {"down", "exchange"} => key[m] = NoKey
        /\ pc[m] \in {"exchange", "write"} => file[m] = NoKey
        /\ pc[m] = "running" => file[m] = key[m]

EnrolInv == TokenInv /\ RowInv /\ HoldInv /\ CallInv /\ PlaceInv

----------------------------------------------------------------------------
\* A committed enrolment keeps the core's types.
LEMMA EnrolType ==
    ASSUME CoreTypeOK, NEW n \in Names, NEW t \in Tokens, NEW k \in Keys,
           EnrolAgent(n, t, k), late' \in SUBSET (Names \X Tokens)
    PROVE  CoreTypeOK'
  BY DEF CoreTypeOK, EnrolAgent

\* Abandoning a call keeps the types.
LEMMA AbandonType ==
    ASSUME TypeOK, CallInv, NEW m \in Machines, Abandon(m)
    PROVE  /\ call' \in [Machines -> {"none", "sent", "ok", "err"}]
           /\ reply' \in [Machines -> Keys \cup {NoKey}]
           /\ late' \in SUBSET (Names \X Tokens)
<1>1. call' \in [Machines -> {"none", "sent", "ok", "err"}]
  BY DEF TypeOK, MachineTypeOK, Abandon
<1>2. reply' \in [Machines -> Keys \cup {NoKey}]
  BY DEF TypeOK, MachineTypeOK, Abandon
<1>3. late' \in SUBSET (Names \X Tokens)
  <2>1. late \in SUBSET (Names \X Tokens)
    BY DEF TypeOK, CoreTypeOK
  <2>2. CASE UNCHANGED late
    BY <2>1, <2>2
  <2>3. CASE call[m] = "sent" /\ late' = late \cup {<<HostOf[m], conf[m]>>}
    <3>1. conf[m] \in Tokens /\ HostOf[m] \in Names
      BY <2>3, EnrolmentAssumption DEF CallInv
    <3>2. <<HostOf[m], conf[m]>> \in Names \X Tokens
      BY <3>1
    <3> QED
      BY <2>1, <2>3, <3>2
  <2> QED
    BY <2>2, <2>3 DEF Abandon
<1> QED
  BY <1>1, <1>2, <1>3

\* Every action keeps the types.
LEMMA TypeStep == TypeOK /\ CallInv /\ [Next]_vars => TypeOK'
<1> SUFFICES ASSUME TypeOK, CallInv, [Next]_vars PROVE TypeOK'
  OBVIOUS
<1> USE EnrolmentAssumption DEF TypeOK, CoreTypeOK, MachineTypeOK, coreVars, agentVars
<1>1. CASE OperatorStep
  BY <1>1 DEF OperatorStep, CreateEnrolmentToken, Expire, Configure, RevokeAgent
<1>2. ASSUME NEW n \in Names, NEW t \in Tokens, NEW k \in Keys, LateEnrols(n, t, k)
      PROVE  TypeOK'
  <2>1. late' \in SUBSET (Names \X Tokens)
    BY <1>2 DEF LateEnrols
  <2>2. CoreTypeOK'
    BY <1>2, <2>1, EnrolType DEF LateEnrols
  <2> QED
    BY <1>2, <2>2 DEF LateEnrols
<1>3. ASSUME NEW n \in Names, NEW t \in Tokens, LateDropped(n, t) PROVE TypeOK'
  BY <1>3 DEF LateDropped
<1>4. ASSUME NEW m \in Machines, NEW k \in Keys, CoreEnrols(m, k) PROVE TypeOK'
  <2>1. CoreTypeOK'
    BY <1>4, EnrolType DEF CoreEnrols, CallInv
  <2> QED
    BY <1>4, <2>1 DEF CoreEnrols
<1>5. ASSUME NEW m \in Machines, CoreRefuses(m) PROVE TypeOK'
  BY <1>5 DEF CoreRefuses
<1>6. ASSUME NEW m \in Machines, StartWithFile(m) \/ StartWithToken(m) PROVE TypeOK'
  BY <1>6 DEF StartWithFile, StartWithToken
<1>7. ASSUME NEW m \in Machines, ExchangeSucceeds(m) PROVE TypeOK'
  BY <1>7 DEF ExchangeSucceeds
<1>8. ASSUME NEW m \in Machines, ExchangeFails(m) PROVE TypeOK'
  BY <1>8, AbandonType DEF ExchangeFails
<1>9. ASSUME NEW m \in Machines, WriteKey(m) PROVE TypeOK'
  BY <1>9 DEF WriteKey
<1>10. ASSUME NEW m \in Machines, Die(m) PROVE TypeOK'
  BY <1>10, AbandonType DEF Die
<1>11. CASE UNCHANGED vars
  BY <1>11 DEF vars
<1> QED
  BY <1>1, <1>2, <1>3, <1>4, <1>5, <1>6, <1>7, <1>8, <1>9, <1>10, <1>11
     DEF Next, LateStep, MachineStep, CoreStep

\* A committed enrolment keeps what is known of tokens and rows.
LEMMA EnrolTokens ==
    ASSUME TypeOK, TokenInv, RowInv,
           NEW n \in Names, NEW t \in Tokens, NEW k \in Keys, EnrolAgent(n, t, k)
    PROVE  TokenInv' /\ RowInv'
<1> USE EnrolmentAssumption DEF TypeOK, CoreTypeOK
<1>1. /\ token[t] = "open" /\ row[n] = NoKey /\ enrolledBy[n] = NoToken
      /\ \A o \in Names : enrolledBy[o] # t
  BY DEF EnrolAgent, Redeemable, TokenInv, TokenSpentBySuccess
<1>2. /\ enrolledBy'[n] = t /\ row'[n] = k /\ token'[t] = "used"
      /\ \A o \in Names \ {n} : enrolledBy'[o] = enrolledBy[o] /\ row'[o] = row[o]
      /\ \A u \in Tokens \ {t} : token'[u] = token[u]
      /\ drawn' = drawn \cup {k}
  BY DEF EnrolAgent
<1>3. TokenEnrolsOne'
  BY <1>1, <1>2 DEF TokenInv, TokenEnrolsOne
<1>4. TokenSpentBySuccess'
  BY <1>1, <1>2 DEF TokenInv, TokenSpentBySuccess
<1>5. \A o \in Names : row'[o] = NoKey <=> enrolledBy'[o] = NoToken
  BY <1>1, <1>2 DEF TokenInv
<1>6. RowInv'
  BY <1>2 DEF RowInv
<1> QED
  BY <1>3, <1>4, <1>5, <1>6 DEF TokenInv

\* Every action keeps what is known of tokens and rows.
LEMMA TokenStep ==
    TypeOK /\ CallInv /\ TokenInv /\ RowInv /\ [Next]_vars => TokenInv' /\ RowInv'
<1> SUFFICES ASSUME TypeOK, CallInv, TokenInv, RowInv, [Next]_vars
             PROVE  TokenInv' /\ RowInv'
  OBVIOUS
<1>a. ASSUME UNCHANGED <<row, drawn, enrolledBy>>,
             \A t \in Tokens : token'[t] = "used" <=> token[t] = "used"
      PROVE  TokenInv' /\ RowInv'
  BY <1>a DEF TokenInv, RowInv, TokenEnrolsOne, TokenSpentBySuccess
<1>1. CASE OperatorStep
  BY <1>1, <1>a DEF OperatorStep, CreateEnrolmentToken, Expire, Configure, RevokeAgent,
     TypeOK, CoreTypeOK, coreVars
<1>2. ASSUME NEW n \in Names, NEW t \in Tokens, NEW k \in Keys, LateEnrols(n, t, k)
      PROVE  TokenInv' /\ RowInv'
  BY <1>2, EnrolTokens DEF LateEnrols
<1>3. ASSUME NEW m \in Machines, NEW k \in Keys, CoreEnrols(m, k)
      PROVE  TokenInv' /\ RowInv'
  BY <1>3, EnrolTokens, EnrolmentAssumption DEF CoreEnrols, CallInv
<1>4. CASE UNCHANGED coreVars
  BY <1>4, <1>a DEF coreVars
<1> QED
  BY <1>1, <1>2, <1>3, <1>4 DEF Next, LateStep, MachineStep, CoreStep, LateDropped,
     CoreRefuses, StartWithFile, StartWithToken, ExchangeSucceeds, ExchangeFails,
     WriteKey, Die, vars

\* Every action keeps the calls in step with the agent.
LEMMA CallStep == TypeOK /\ CallInv /\ [Next]_vars => CallInv'
<1> SUFFICES ASSUME TypeOK, CallInv, [Next]_vars PROVE CallInv'
  OBVIOUS
<1> USE EnrolmentAssumption DEF TypeOK, MachineTypeOK, CallInv, agentVars
<1>1. CASE OperatorStep
  BY <1>1 DEF OperatorStep, CreateEnrolmentToken, Expire, Configure, RevokeAgent
<1>2. ASSUME NEW m \in Machines, NEW k \in Keys, CoreEnrols(m, k) PROVE CallInv'
  BY <1>2 DEF CoreEnrols
<1>3. ASSUME NEW m \in Machines, CoreRefuses(m) PROVE CallInv'
  BY <1>3 DEF CoreRefuses
<1>4. ASSUME NEW m \in Machines, StartWithFile(m) \/ StartWithToken(m) PROVE CallInv'
  BY <1>4 DEF StartWithFile, StartWithToken
<1>5. ASSUME NEW m \in Machines, ExchangeSucceeds(m) PROVE CallInv'
  BY <1>5 DEF ExchangeSucceeds
<1>6. ASSUME NEW m \in Machines, ExchangeFails(m) PROVE CallInv'
  BY <1>6 DEF ExchangeFails, Abandon
<1>7. ASSUME NEW m \in Machines, WriteKey(m) PROVE CallInv'
  BY <1>7 DEF WriteKey
<1>8. ASSUME NEW m \in Machines, Die(m) PROVE CallInv'
  BY <1>8 DEF Die, Abandon
<1>9. CASE UNCHANGED <<conf, agentVars>>
  BY <1>9
<1> QED
  BY <1>1, <1>2, <1>3, <1>4, <1>5, <1>6, <1>7, <1>8, <1>9
     DEF Next, LateStep, LateEnrols, LateDropped, MachineStep, CoreStep, vars

\* Every action keeps keys where the agent process says they are.
LEMMA PlaceStep == TypeOK /\ CallInv /\ PlaceInv /\ [Next]_vars => PlaceInv'
<1> SUFFICES ASSUME TypeOK, CallInv, PlaceInv, [Next]_vars PROVE PlaceInv'
  OBVIOUS
<1> USE EnrolmentAssumption DEF TypeOK, MachineTypeOK, CallInv, PlaceInv, agentVars
<1>1. CASE OperatorStep
  BY <1>1 DEF OperatorStep, CreateEnrolmentToken, Expire, Configure, RevokeAgent
<1>2. ASSUME NEW m \in Machines, NEW k \in Keys, CoreEnrols(m, k) PROVE PlaceInv'
  BY <1>2 DEF CoreEnrols
<1>3. ASSUME NEW m \in Machines, CoreRefuses(m) PROVE PlaceInv'
  BY <1>3 DEF CoreRefuses
<1>4. ASSUME NEW m \in Machines, StartWithFile(m) \/ StartWithToken(m) PROVE PlaceInv'
  BY <1>4 DEF StartWithFile, StartWithToken
<1>5. ASSUME NEW m \in Machines, ExchangeSucceeds(m) PROVE PlaceInv'
  BY <1>5 DEF ExchangeSucceeds
<1>6. ASSUME NEW m \in Machines, ExchangeFails(m) PROVE PlaceInv'
  BY <1>6 DEF ExchangeFails, Abandon
<1>7. ASSUME NEW m \in Machines, WriteKey(m) PROVE PlaceInv'
  BY <1>7 DEF WriteKey
<1>8. ASSUME NEW m \in Machines, Die(m) PROVE PlaceInv'
  BY <1>8 DEF Die, Abandon
<1>9. CASE UNCHANGED <<agentVars, file>>
  BY <1>9
<1> QED
  BY <1>1, <1>2, <1>3, <1>4, <1>5, <1>6, <1>7, <1>8, <1>9
     DEF Next, LateStep, LateEnrols, LateDropped, MachineStep, CoreStep, vars

\* A machine may forget a key or move it between answer, memory and file;
\* while the rows stand, that keeps HoldInv.
LEMMA HoldsLess ==
    ASSUME HoldInv, \A m \in Machines, k \in Keys : Holds(m, k)' => Holds(m, k),
           \A m \in Machines : row[HostOf[m]] # NoKey =>
                                 row'[HostOf[m]] = row[HostOf[m]]
    PROVE  HoldInv'
<1>1. NoKey \notin Keys
  BY EnrolmentAssumption
<1> QED
  BY <1>1 DEF HoldInv

\* Every action keeps keys with their owners.
LEMMA HoldStep ==
    TypeOK /\ CallInv /\ RowInv /\ HoldInv /\ [Next]_vars => HoldInv'
<1> SUFFICES ASSUME TypeOK, CallInv, RowInv, HoldInv, [Next]_vars PROVE HoldInv'
  OBVIOUS
<1> USE EnrolmentAssumption DEF TypeOK, MachineTypeOK, CoreTypeOK
<1>a. ASSUME UNCHANGED <<row, agentVars, file>> PROVE HoldInv'
  BY <1>a, HoldsLess DEF Holds, agentVars
<1>1. CASE OperatorStep
  BY <1>1, <1>a DEF OperatorStep, CreateEnrolmentToken, Expire, Configure, RevokeAgent,
     coreVars
<1>2. ASSUME NEW n \in Names, NEW t \in Tokens, NEW k \in Keys, LateEnrols(n, t, k)
      PROVE  HoldInv'
  <2>1. UNCHANGED <<reply, key, file>>
    BY <1>2 DEF LateEnrols, agentVars
  <2>2. \A o \in Names : row[o] # NoKey => row'[o] = row[o]
    BY <1>2 DEF LateEnrols, EnrolAgent
  <2> QED
    BY <2>1, <2>2, HoldsLess DEF Holds
<1>3. ASSUME NEW m \in Machines, NEW k \in Keys, CoreEnrols(m, k) PROVE HoldInv'
  <2>1. /\ k \notin drawn /\ row[HostOf[m]] = NoKey
        /\ row'[HostOf[m]] = k
        /\ \A o \in Names \ {HostOf[m]} : row'[o] = row[o]
    BY <1>3 DEF CoreEnrols, EnrolAgent
  <2>2. /\ reply'[m] = k /\ \A o \in Machines \ {m} : reply'[o] = reply[o]
        /\ UNCHANGED <<key, file>>
    BY <1>3 DEF CoreEnrols
  <2>3. \A o \in Machines : ~Holds(o, k)
    BY <2>1 DEF HoldInv, RowInv
  <2>4. \A o \in Machines, l \in Keys :
           HostOf[o] = HostOf[m] => ~Holds(o, l)
    BY <2>1 DEF HoldInv
  <2>5. \A o \in Machines, l \in Keys :
           Holds(o, l)' => Holds(o, l) \/ (o = m /\ l = k)
    BY <2>2 DEF Holds
  <2> QED
    BY <2>1, <2>3, <2>4, <2>5 DEF HoldInv
<1>4. ASSUME NEW m \in Machines, StartWithFile(m) PROVE HoldInv'
  BY <1>4, HoldsLess DEF StartWithFile, Holds, coreVars
<1>5. ASSUME NEW m \in Machines, StartWithToken(m) PROVE HoldInv'
  BY <1>5, HoldsLess DEF StartWithToken, Holds, coreVars
<1>6. ASSUME NEW m \in Machines, ExchangeSucceeds(m) PROVE HoldInv'
  BY <1>6, HoldsLess DEF ExchangeSucceeds, Holds, coreVars
<1>7. ASSUME NEW m \in Machines, ExchangeFails(m) PROVE HoldInv'
  BY <1>7, HoldsLess DEF ExchangeFails, Abandon, Holds, coreVars
<1>8. ASSUME NEW m \in Machines, WriteKey(m) PROVE HoldInv'
  BY <1>8, HoldsLess DEF WriteKey, Holds, coreVars
<1>9. ASSUME NEW m \in Machines, Die(m) PROVE HoldInv'
  BY <1>9, HoldsLess DEF Die, Abandon, Holds, coreVars
<1>10. ASSUME NEW m \in Machines, CoreRefuses(m) PROVE HoldInv'
  BY <1>10, HoldsLess DEF CoreRefuses, Holds, coreVars
<1>11. CASE UNCHANGED vars
  BY <1>11, <1>a DEF vars, coreVars
<1>12. ASSUME NEW n \in Names, NEW t \in Tokens, LateDropped(n, t) PROVE HoldInv'
  BY <1>12, <1>a DEF LateDropped, coreVars
<1> QED
  BY <1>1, <1>2, <1>3, <1>4, <1>5, <1>6, <1>7, <1>8, <1>9, <1>10, <1>11, <1>12
     DEF Next, LateStep, MachineStep, CoreStep

\* Every reachable state satisfies the invariant.
THEOREM Invariance == Spec => [](TypeOK /\ EnrolInv)
<1>1. Init => TypeOK /\ EnrolInv
  <2> SUFFICES ASSUME Init PROVE TypeOK /\ EnrolInv
    OBVIOUS
  <2> USE EnrolmentAssumption DEF Init
  <2>1. TypeOK
    BY DEF TypeOK, CoreTypeOK, MachineTypeOK
  <2>2. TokenInv /\ RowInv
    BY DEF TokenInv, RowInv, TokenEnrolsOne, TokenSpentBySuccess
  <2>3. HoldInv /\ CallInv /\ PlaceInv
    BY DEF HoldInv, Holds, CallInv, PlaceInv
  <2> QED
    BY <2>1, <2>2, <2>3 DEF EnrolInv
<1>2. TypeOK /\ EnrolInv /\ [Next]_vars => (TypeOK /\ EnrolInv)'
  BY TypeStep, TokenStep, CallStep, HoldStep, PlaceStep DEF EnrolInv
<1> QED
  BY <1>1, <1>2, PTL DEF Spec

\* The variables keep their types.
THEOREM TypeCorrect == Spec => []TypeOK
  BY Invariance, PTL

\* A token enrols one hostname at most, whatever requests race for it.
THEOREM TokenIsSingleUse == Spec => []TokenEnrolsOne
  BY Invariance, PTL DEF EnrolInv, TokenInv

\* A token is spent exactly by the enrolment it bought.
THEOREM TokenSpentOnlyBySuccess == Spec => []TokenSpentBySuccess
  BY Invariance, PTL DEF EnrolInv, TokenInv

\* No two machines hold one key.
THEOREM KeysArePrivate == Spec => []KeyIsPrivate
<1>1. HoldInv => KeyIsPrivate
  BY DEF HoldInv, Holds, KeyIsPrivate
<1> QED
  BY <1>1, Invariance, PTL DEF EnrolInv

\* A running agent signs with the key the core verifies it with, unless the
\* write of its key file was cut short.
THEOREM RunningAgentsAreAccepted == Spec => []RunningKeyWorks
<1>1. ASSUME TypeOK, EnrolInv PROVE RunningKeyWorks
  <2> SUFFICES ASSUME NEW m \in Machines, pc[m] = "running", key[m] # Torn
               PROVE  key[m] = row[HostOf[m]]
    BY DEF RunningKeyWorks
  <2>1. key[m] \in Keys
    BY <1>1, EnrolmentAssumption DEF EnrolInv, CallInv, TypeOK, MachineTypeOK
  <2> QED
    BY <1>1, <2>1 DEF EnrolInv, HoldInv, Holds
<1>2. TypeOK /\ EnrolInv => RunningKeyWorks
  BY <1>1
<1> QED
  BY <1>2, Invariance, PTL

\* A step loses a key only on a machine that was waiting for it or writing it
\* down, and that is down afterwards.
LEMMA LossStep ==
    ASSUME TypeOK, CallInv, PlaceInv, [Next]_vars, NEW k \in Keys,
           Reachable(k), ~Reachable(k)'
    PROVE  \E m \in Machines : /\ k \in {reply[m], key[m]}
                               /\ pc[m] \in {"exchange", "write"} /\ pc'[m] = "down"
<1> DEFINE Lost == \E m \in Machines : /\ k \in {reply[m], key[m]}
                                       /\ pc[m] \in {"exchange", "write"}
                                       /\ pc'[m] = "down"
<1> SUFFICES Lost
  OBVIOUS
<1> PICK h \in Machines : k = reply[h] \/ k = key[h] \/ k = file[h]
  BY DEF Reachable
<1>a. \A m \in Machines : k # reply'[m] /\ k # key'[m] /\ k # file'[m]
  BY DEF Reachable
<1>b. k # NoKey /\ k # Torn
  BY EnrolmentAssumption
<1> USE DEF TypeOK, MachineTypeOK, CallInv, PlaceInv, agentVars
<1>1. CASE OperatorStep
  BY <1>1, <1>a DEF OperatorStep, CreateEnrolmentToken, Expire, Configure, RevokeAgent
<1>2. ASSUME NEW m \in Machines, NEW l \in Keys, CoreEnrols(m, l) PROVE Lost
  BY <1>2, <1>a, <1>b DEF CoreEnrols
<1>3. ASSUME NEW m \in Machines, CoreRefuses(m) PROVE Lost
  BY <1>3, <1>a DEF CoreRefuses
<1>4. ASSUME NEW m \in Machines, StartWithFile(m) \/ StartWithToken(m) PROVE Lost
  BY <1>4, <1>a, <1>b DEF StartWithFile, StartWithToken
<1>5. ASSUME NEW m \in Machines, ExchangeSucceeds(m) PROVE Lost
  BY <1>5, <1>a, <1>b DEF ExchangeSucceeds
<1>6. ASSUME NEW m \in Machines, ExchangeFails(m) PROVE Lost
  BY <1>6, <1>a, <1>b DEF ExchangeFails, Abandon
<1>7. ASSUME NEW m \in Machines, WriteKey(m) PROVE Lost
  BY <1>7, <1>a, <1>b DEF WriteKey
<1>8. ASSUME NEW m \in Machines, Die(m) PROVE Lost
  BY <1>8, <1>a, <1>b DEF Die, Abandon
<1>9. CASE UNCHANGED <<agentVars, file>>
  BY <1>9, <1>a
<1> QED
  BY <1>1, <1>2, <1>3, <1>4, <1>5, <1>6, <1>7, <1>8, <1>9
     DEF Next, LateStep, LateEnrols, LateDropped, MachineStep, CoreStep, vars

\* A key the core gave away is lost in the exchange or not at all.
THEOREM KeysSurviveRestarts == Spec => KeyLostOnlyInExchange
<1> DEFINE Loss == \A k \in Keys : Reachable(k) /\ ~Reachable(k)' =>
         \E m \in Machines :
            /\ k \in {reply[m], key[m]}
            /\ pc[m] \in {"exchange", "write"} /\ pc'[m] = "down"
<1>1. TypeOK /\ EnrolInv /\ [Next]_vars => [Loss]_vars
  BY LossStep DEF EnrolInv
<1> QED
  BY <1>1, Invariance, PTL DEF Spec, KeyLostOnlyInExchange
=============================================================================
