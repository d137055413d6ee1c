----------------------------- MODULE FleetPages -----------------------------
(***************************************************************************)
(* The pages that speak of many targets at once: the door with its fleet   *)
(* score, bars and concerns, and Trends with its matrix, catalogue and     *)
(* verdicts (fleet_score.go, the second half of flows.go, aggregate.go).   *)
(* All work on a set of snapshots.  Go visits maps in any order; every     *)
(* result here is a set or a count, so the order does not show.            *)
(***************************************************************************)
EXTENDS UIPages

\* A snapshot keeps one assessment per framework; only wand has flows.
ListOf(s) == SetToSeq({s.assessments[fw] : fw \in DOMAIN s.assessments})

\* "Voltooid": the gate that the summary and the door share.
Voltooid(s) == s.status \in {"complete", "partial"}

----------------------------------------------------------------------------
(* The door.                                                               *)

FlowScore(s, id) == RationaleScore(byRule(ListOf(s), id).res)

\* scoreSeverity: unlike Rank, the higher the worse.
scoreSeverity(score) == CASE score = Afhankelijk -> 3 [] score = Voldoende -> 2
                          [] score = Soeverein -> 1 [] OTHER -> 0

\* Per flow, over the targets that have it judged.
SovereigntyFlowRollup(snaps) ==
    LET On(id) == {s \in snaps : Judged(ListOf(s), id) # {}}
        At(id, score) == {s \in On(id) : FlowScore(s, id) = score}
        Known(id) == {FlowScore(s, id) : s \in On(id)} \ {Onbekend}
    IN  [id \in {f \in ToSet(flowRules) : On(f) # {}} |->
           [Total       |-> Cardinality(On(id)),
            Afhankelijk |-> Cardinality(At(id, Afhankelijk)),
            Onbekend    |-> Cardinality(At(id, Onbekend)),
            Worst       |-> IF Known(id) = {} THEN ""
                            ELSE CHOOSE w \in Known(id) : \A k \in Known(id) :
                                   scoreSeverity(k) <= scoreSeverity(w)]]

\* The three segments of a flow's bar.
BuildFlowBars(rollup) ==
    [id \in DOMAIN rollup |->
       [inEEA   |-> rollup[id].Total - rollup[id].Afhankelijk
                      - rollup[id].Onbekend,
        outside |-> rollup[id].Afhankelijk,
        unknown |-> rollup[id].Onbekend]]

reportingFrameworkRank(fw) == CASE fw = "wand" -> 0 [] fw = "eucsf" -> 1
                                [] OTHER -> 2

\* Rules of two packs that ask the same question are one concern.
concernTopic(fw, id) ==
    IF <<fw, id>> \in {<<"wand", "cert_issuer_eea">>,
                       <<"eucsf", "cert_issuer_eu">>}
    THEN <<"topic", "cert_issuer_jurisdiction">> ELSE <<fw, id>>

\* The rules that cost the most targets, at most maxRows; order lists the
\* rules alphabetically, which decides between rules that cost the same.
TopConcerns(snaps, order, maxRows) ==
    LET Refs(s) == UNION {{<<fw, r>> : r \in s.assessments[fw].rules} :
                            fw \in DOMAIN s.assessments}
        On(t) == {s \in snaps : \E ref \in Refs(s) :
                     concernTopic(ref[1], ref[2].id) = t}
        Hit(t) == {s \in snaps : \E ref \in Refs(s) :
                     /\ concernTopic(ref[1], ref[2].id) = t
                     /\ RationaleScore(ref[2].res) = Afhankelijk}
        Names(t) == {n \in {<<ref[1], ref[2].id>> :
                              ref \in UNION {Refs(s) : s \in snaps}} :
                       concernTopic(n[1], n[2]) = t}
        Primary(t) == CHOOSE n \in Names(t) : \A m \in Names(t) :
                        reportingFrameworkRank(n[1]) <= reportingFrameworkRank(m[1])
        Topics == {t \in {concernTopic(ref[1], ref[2].id) :
                            ref \in UNION {Refs(s) : s \in snaps}} : Hit(t) # {}}
        Row(t) == [Rule |-> Primary(t), TargetCount |-> Cardinality(Hit(t)),
                   Total |-> Cardinality(On(t)),
                   Frameworks |-> {n[1] : n \in Names(t)}]
        Place(row) == CHOOSE k \in DOMAIN order : order[k] = row.Rule
        Beats(a, b) == \/ a.TargetCount > b.TargetCount
                       \/ /\ a.TargetCount = b.TargetCount
                          /\ Place(a) < Place(b)
        All == {Row(t) : t \in Topics}
    IN  {row \in All : Cardinality({o \in All : Beats(o, row)}) < maxRows}

\* Mutant: a domain that answers one question well is not counted as failing.
BuildFleetSummaryMild(snaps) ==
    LET scored == {s \in snaps : Voltooid(s)}
        Score(s) == BuildFleetScore(ListOf(s))
    IN  [X |-> SumFunction([s \in scored |-> Score(s).X]),
         N |-> SumFunction([s \in scored |-> Score(s).N]),
         Unanswered |-> SumFunction([s \in scored |-> Score(s).Unanswered]),
         DomainsWithoutScan |-> Cardinality(snaps \ scored),
         NotSovereign |-> Cardinality({s \in scored : Score(s).X = 0}),
         Flows |-> SovereigntyFlowRollup(scored)]

BuildFleetSummary(snaps) ==
    LET scored == {s \in snaps : Voltooid(s)}
        Score(s) == BuildFleetScore(ListOf(s))
    IN  [X |-> SumFunction([s \in scored |-> Score(s).X]),
         N |-> SumFunction([s \in scored |-> Score(s).N]),
         Unanswered |-> SumFunction([s \in scored |-> Score(s).Unanswered]),
         DomainsWithoutScan |-> Cardinality(snaps \ scored),
         NotSovereign |-> Cardinality({s \in scored : Score(s).WorstFlow # ""}),
         Flows |-> SovereigntyFlowRollup(scored)]

\* A target without a completed scan carries no score.
doorDomainView(s) ==
    [target   |-> s.target,
     HasScore |-> Voltooid(s),
     score    |-> BuildFleetScore(IF Voltooid(s) THEN ListOf(s) ELSE <<>>),
     Grid     |-> gridCellsForDomain(IF Voltooid(s) THEN ListOf(s) ELSE <<>>)]

\* One row per target.
buildDoorDomains(snaps) == {doorDomainView(s) : s \in snaps}

----------------------------------------------------------------------------
(* Trends.                                                                 *)

Dims(a) == [dim \in {r.dim : r \in a.rules} |-> scoreDimension(a.rules, dim)]

\* The worst score over the dimensions that have one, and which those are.
WorstScoreCovering(dims) ==
    LET covered == {d \in DOMAIN dims : Rank(dims[d].score) > 0}
    IN  [covered |-> covered,
         score |-> IF covered = {} THEN Onbekend
                   ELSE dims[CHOOSE d \in covered : \A e \in covered :
                               Rank(dims[d].score) <= Rank(dims[e].score)].score]

\* Per framework the worst score of any target, and how many are there.
WorstByFramework(snaps) ==
    LET With(fw) == {s \in snaps : fw \in DOMAIN s.assessments}
        Score(s, fw) == WorstScoreCovering(Dims(s.assessments[fw])).score
        Ranked(fw) == {s \in With(fw) : Rank(Score(s, fw)) > 0}
        Worst0(fw) == IF Ranked(fw) = {} THEN Onbekend
                      ELSE Score(CHOOSE s \in Ranked(fw) : \A t \in Ranked(fw) :
                                   Rank(Score(s, fw)) <= Rank(Score(t, fw)), fw)
    IN  [fw \in UNION {DOMAIN s.assessments : s \in snaps} |->
           [Score |-> Worst0(fw),
            TargetsAtWorst |-> Cardinality({s \in With(fw) :
                                              Score(s, fw) = Worst0(fw)}),
            TotalAssessed |-> Cardinality(With(fw))]]

\* The matrix: per rule, how many targets reached each score.
RuleSummary(snaps) ==
    LET Keys == UNION {UNION {{<<fw, r.id>> : r \in s.assessments[fw].rules} :
                                fw \in DOMAIN s.assessments} : s \in snaps}
        At(k, score) == {s \in snaps :
            /\ k[1] \in DOMAIN s.assessments
            /\ \E r \in s.assessments[k[1]].rules :
                  r.id = k[2] /\ RationaleScore(r.res) = score}
    IN  [k \in Keys |-> [score \in Scores |-> Cardinality(At(k, score))]]

\* The page of one rule: a row per target that has it judged.
RuleTargetRows(snaps, fw, id) ==
    UNION {{[target |-> s.target, score |-> RationaleScore(r.res)] :
              r \in {q \in s.assessments[fw].rules : q.id = id}} :
           s \in {t \in snaps : fw \in DOMAIN t.assessments}}

\* The catalogue's status of a rule.
WorstScoreFromCounts(counts) ==
    LET fired == {score \in Scores : counts[score] > 0 /\ Rank(score) > 0}
        worst == IF fired = {} THEN Onbekend
                 ELSE CHOOSE w \in fired : \A f \in fired : Rank(w) <= Rank(f)
    IN  [worst |-> worst, atWorst |-> counts[worst],
         total |-> SumFunction(counts)]

AccountabilityPill(dims) ==
    IF "accountability" \notin DOMAIN dims THEN "unassessed"
    ELSE IF dims["accountability"].notApplicable THEN "nvt"
    ELSE dims["accountability"].score

\* A verdict per target: from wand, else from any framework there is.
buildFleetRows(snaps) ==
    LET Preferred(s) == IF "wand" \in DOMAIN s.assessments THEN {"wand"}
                        ELSE DOMAIN s.assessments
        DimsOf(s) == IF Preferred(s) = {} THEN <<>>
                     ELSE Dims(s.assessments[CHOOSE fw \in Preferred(s) : TRUE])
    IN  {[target  |-> s.target,
          verdict |-> IF DimsOf(s) = <<>> THEN ""
                      ELSE WorstScoreCovering(DimsOf(s)).score,
          pill    |-> AccountabilityPill(DimsOf(s))] : s \in snaps}

\* The target list: per framework the worst dimension that has a score.
lastAssessmentsForScan(assessments) ==
    [fw \in DOMAIN assessments |->
       LET dims == Dims(assessments[fw])
           ranked == {dims[d].score : d \in DOMAIN dims} \ {Onbekend}
       IN  IF ranked = {} THEN Onbekend
           ELSE CHOOSE w \in ranked : \A k \in ranked : Rank(w) <= Rank(k)]
=============================================================================
