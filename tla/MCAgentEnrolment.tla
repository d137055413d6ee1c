------------------------- MODULE MCAgentEnrolment -------------------------
(* Machines of AgentEnrolment for TLC: "a" and "b" have names of their own, *)
(* "c" was set up with the name of "a".                                     *)
EXTENDS AgentEnrolment

SharedName == [m \in Machines |-> IF m = "c" THEN "a" ELSE m]
=============================================================================
