---------------------------- MODULE BatchLedger ----------------------------
(***************************************************************************)
(* What the delivery protocol between a host agent and the core promises,  *)
(* with the outbox, the network, the retries and the crashes left out: a   *)
(* batch of findings is minted once, its findings enter the store at most  *)
(* once and never before it was minted, and the agent is only told that a  *)
(* batch was received when its findings are in the store.                  *)
(***************************************************************************)
EXTENDS Naturals

CONSTANT Batches        \* the batch identifiers agents draw from

VARIABLES
    minted,             \* identifiers handed out by NewBatchID
    copies,             \* copies[b]: how often b's findings were inserted
    acked               \* batches the agent holds a 2xx answer for

ledgerVars == <<minted, copies, acked>>

LedgerInit ==
    /\ minted = {}
    /\ copies = [b \in Batches |-> 0]
    /\ acked = {}

Mint(b) ==
    /\ b \notin minted
    /\ minted' = minted \cup {b}
    /\ UNCHANGED <<copies, acked>>

Store(b) ==
    /\ b \in minted
    /\ copies[b] = 0
    /\ copies' = [copies EXCEPT ![b] = 1]
    /\ UNCHANGED <<minted, acked>>

Acknowledge(b) ==
    /\ copies[b] = 1
    /\ acked' = acked \cup {b}
    /\ UNCHANGED <<minted, copies>>

LedgerNext == \E b \in Batches : Mint(b) \/ Store(b) \/ Acknowledge(b)

LedgerSpec == LedgerInit /\ [][LedgerNext]_ledgerVars
=============================================================================
