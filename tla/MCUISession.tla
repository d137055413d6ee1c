---------------------------- MODULE MCUISession ----------------------------
(* Sets of UISession for TLC.  Request slots, login attempts and session    *)
(* identifiers are interchangeable: no action or property tells two of them *)
(* apart, and no liveness property is checked.                              *)
EXTENDS UISession, TLC

Interchangeable ==
    Permutations(Requests)
      \cup Permutations(Flows) \cup Permutations(Sids)
============================================================================
