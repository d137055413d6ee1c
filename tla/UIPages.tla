------------------------------ MODULE UIPages ------------------------------
(***************************************************************************)
(* What the pages of the web UI compute (internal/ui: flows.go, answer.go, *)
(* fleet_score.go, fleet_delta.go, fleet_grid.go, fleet_ring.go,           *)
(* aggregate.go), as operators on rows of the store.                       *)
(*                                                                         *)
(* An assessment is a record [framework, rules]; rules is the set of       *)
(* [id, dim, res] that the assessor engine judged.  A list of assessments  *)
(* is a sequence in the order the caller has it.  A snapshot is a record   *)
(* [target, status, assessments] of a target's most recent scan;           *)
(* assessments maps a framework to one assessment.  A flow is named by its *)
(* rule; the wording of verdicts and the geometry of charts are left out.  *)
(***************************************************************************)
EXTENDS Assessor

Scores == {Soeverein, Voldoende, Afhankelijk, Onbekend}

flowRules == <<"apex_ip_eea", "mx_vendor_jurisdiction",
               "ns_vendor_jurisdiction", "cert_issuer_eea",
               "transit_eu_path", "no_us_hyperscaler", "third_parties_eea">>

----------------------------------------------------------------------------
(* The seven flows of one scan.                                            *)

\* Entries of the list that judged the flow; its rule is a wand rule.
Judged(list, id) ==
    {k \in DOMAIN list : /\ list[k].framework = "wand"
                         /\ \E r \in list[k].rules : r.id = id}

\* byRule: an entry replaces those before it in the list.
byRule(list, id) ==
    CHOOSE r \in list[Max(Judged(list, id))].rules : r.id = id

\* The scores of the flows, without those no assessment has a rationale for.
\* The order of the list is the one of flowRules.
JudgedFlows(list) == {id \in ToSet(flowRules) : Judged(list, id) # {}}

SovereigntyFlows(list) ==
    [id \in JudgedFlows(list) |-> RationaleScore(byRule(list, id).res)]

Scoring(flows, score) == {id \in DOMAIN flows : flows[id] = score}

\* heaviest is the first of the dependent flows, "" when there is none.
classifyFlows(flows) ==
    LET dependent == Scoring(flows, Afhankelijk)
        unknown == Scoring(flows, Onbekend)
        places == {k \in DOMAIN flowRules : flowRules[k] \in dependent}
    IN  [afhankelijk |-> Cardinality(dependent),
         unanswered  |-> Cardinality(unknown),
         answered    |-> Cardinality(DOMAIN flows \ (dependent \cup unknown)),
         heaviest    |-> IF places = {} THEN "" ELSE flowRules[Min(places)]]

\* x questions answered well out of n that could be answered, and the
\* heaviest finding.
BuildFleetScore(list) ==
    LET c == classifyFlows(SovereigntyFlows(list))
    IN  [X          |-> c.answered,
         N          |-> c.answered + c.afhankelijk,
         Unanswered |-> c.unanswered,
         WorstFlow  |-> c.heaviest]

\* The sentence on the answer page.
BuildAnswerVerdict(list) ==
    LET c == classifyFlows(SovereigntyFlows(list))
    IN  [Verdict |-> IF c.afhankelijk > 0 THEN "nee"
                     ELSE IF c.answered > 0 THEN "ja" ELSE "onbekend",
         Unanswered |-> c.unanswered, DecidingFlow |-> c.heaviest]

\* The rows under it: a rule without evidence has not answered.
BuildFlowStates(list, done) ==
    [k \in DOMAIN flowRules |->
       LET id == flowRules[k]
           evidenced == Judged(list, id) # {} /\ byRule(list, id).res.ev # {}
       IN  [label |-> id,
            state |-> IF evidenced THEN "beantwoord"
                      ELSE IF done THEN "niet_gemeten" ELSE "bezig",
            score |-> IF evidenced THEN RationaleScore(byRule(list, id).res)
                      ELSE ""]]

\* The answer on a sheet: not applicable for a structural reason, unknown for
\* any other, else yes or no.
accountabilityOutcome(res) ==
    IF res.reason \in ReasonStructural THEN "nvt"
    ELSE CASE RationaleScore(res) \in {Soeverein, Voldoende} -> "ja"
           [] RationaleScore(res) = Afhankelijk -> "nee"
           [] OTHER -> "onbekend"

\* The answer-sheet rows of the assessment page, one per judged flow.
BuildFlowAnswers(list) ==
    [id \in JudgedFlows(list) |->
       LET res == byRule(list, id).res
       IN  [score |-> RationaleScore(res), answer |-> accountabilityOutcome(res),
            remedy |-> RationaleScore(res) = Afhankelijk, evidence |-> res.ev]]

\* The answer sheet of the accountability dimension.
BuildAccountabilityAnswers(rules) ==
    {[rule |-> r.id, answer |-> accountabilityOutcome(r.res)] :
       r \in OfDim(rules, "accountability")}

\* Change since the previous scan; a flow flips when it enters or leaves
\* afhankelijk.
BuildFleetDelta(hasPrevious, prev, curr) ==
    LET p == BuildFleetScore(prev)
        c == BuildFleetScore(curr)
        was == SovereigntyFlows(prev)
        now == SovereigntyFlows(curr)
    IN  IF ~hasPrevious
        THEN [HasPrevious |-> FALSE, XDelta |-> 0, NDelta |-> 0,
              FlippedFlows |-> {}]
        ELSE [HasPrevious |-> TRUE,
              XDelta |-> c.X - p.X, NDelta |-> c.N - p.N,
              FlippedFlows |-> {id \in DOMAIN was \cap DOMAIN now :
                 (was[id] = Afhankelijk) # (now[id] = Afhankelijk)}]

\* One cell per flow of the domain grid.
gridCellsForDomain(list) ==
    [k \in DOMAIN flowRules |->
       LET id == flowRules[k]
       IN  IF Judged(list, id) = {} THEN "-"
           ELSE CASE RationaleScore(byRule(list, id).res) = Soeverein -> "S"
                  [] RationaleScore(byRule(list, id).res) = Voldoende -> "V"
                  [] RationaleScore(byRule(list, id).res) = Afhankelijk -> "N"
                  [] OTHER -> "?"]

\* Segments of the ring; the share of each part is its count.
BuildFleetRing(x, n, unanswered) ==
    [soeverein |-> x, afhankelijk |-> n - x, onbekend |-> unanswered]
=============================================================================
