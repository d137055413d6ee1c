-------------------------- MODULE MCAgentDelivery --------------------------
(***************************************************************************)
(* Instances of AgentDelivery for TLC.                                     *)
(***************************************************************************)
EXTENDS AgentDelivery, TLC

CONSTANTS b1, b2, b3

\* Sizes against MaxBytes = 3: one batch always fits, two sometimes do.
SizesOfTwo == (b1 :> 2) @@ (b2 :> 2)
TwoAlike == Permutations({b1, b2})
SizesOfThree == (b1 :> 1) @@ (b2 :> 2) @@ (b3 :> 2)
=============================================================================
