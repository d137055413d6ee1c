-------------------------- MODULE MCScanHistory --------------------------
(***************************************************************************)
(* ScanHistory for TLC: two ticks and two import requests with one file.   *)
(***************************************************************************)
EXTENDS ScanHistory, TLC

CONSTANTS j1, j2, i1, i2

SameFile == [i \in Imports |-> "file"]
WebResults == [f \in {"file"} |-> {"web"}]

Scene(overlap, facets, requests, turns) ==
    [overlap |-> overlap, facets |-> facets, imports |-> requests, changes |-> turns]

\* Everyone at once, without a look at what the scans see; two ticks at once
\* while the domain changes; two ticks in turn that look at two facets; and two
\* ticks and an import in turn.
AllScenes == {Scene(TRUE, {}, 2, 0), Scene(TRUE, {"mx"}, 0, 1),
              Scene(FALSE, {"mx", "issuer"}, 0, 1), Scene(FALSE, {"mx"}, 1, 1)}
TwoRequests == {Scene(TRUE, {}, 2, 0)}

\* Two ticks, or two requests with the same file, can be exchanged.
Alike == Permutations(Jobs) \cup Permutations(Imports)
=============================================================================
