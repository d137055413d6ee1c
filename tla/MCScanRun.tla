----------------------------- MODULE MCScanRun -----------------------------
(***************************************************************************)
(* Instances of ScanRun for TLC.                                           *)
(***************************************************************************)
EXTENDS ScanRun

\* Mail routing and the NS-holder lookups read what dns found, the origin
\* map what http found.
ThreeSteps == <<"mailrouting", "originmap", "nsholder">>
ThreeFeeds == [s \in {"mailrouting", "originmap", "nsholder"} |->
                 IF s = "originmap" THEN "http" ELSE "dns"]
=============================================================================
