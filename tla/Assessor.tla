------------------------------ MODULE Assessor ------------------------------
(***************************************************************************)
(* The assessor engine (internal/assessor): from the rule results of one   *)
(* pack to one score per dimension, plus the vocabulary that every rule    *)
(* uses.                                                                   *)
(*                                                                         *)
(* A finding is a record [probe, subject, attrs]; attrs is itself a record *)
(* that holds only the attributes a rule reads, in the form they have      *)
(* after the JSON round trip through the store.  A rule is an operator     *)
(* from a sequence of findings, in stored order, to a result:              *)
(*   score   one of the four values,                                       *)
(*   ev      the positions in the sequence the rationale cites,            *)
(*   reason  a reason code or "",                                          *)
(*   lead    the operators the verdict names ("hosted at ..."), the only   *)
(*           part of the verdict's wording that is kept.                   *)
(***************************************************************************)
EXTENDS Integers, Sequences, FiniteSets, FiniteSetsExt, SequencesExt

Soeverein   == "soeverein"
Voldoende   == "voldoende"
Afhankelijk == "afhankelijk"
Onbekend    == "onbekend"

\* Score.Rank: the higher the better, unknown lowest.
Rank(s) == CASE s = Soeverein -> 3 [] s = Voldoende -> 2
             [] s = Afhankelijk -> 1 [] OTHER -> 0

Finding(p, s, a) == [probe |-> p, subject |-> s, attrs |-> a]

\* stringFromAttr: the attribute, or "" when it is missing.
Attr(f, k) == IF k \in DOMAIN f.attrs THEN f.attrs[k] ELSE ""

\* attributes.(bool): FALSE when it is missing.
Flag(f, k) == k \in DOMAIN f.attrs /\ f.attrs[k] = TRUE

\* The list attributes, as sets: no rule looks at their order.
Strs(f, k) == IF k \in DOMAIN f.attrs THEN f.attrs[k] ELSE {}

\* A row that carries a real signal, not an error, a "no answer" or a
\* probe that was unavailable.
IsEvidenceLike(f) ==
  /\ Attr(f, "error") = ""
  /\ ~Flag(f, "no_answer")
  /\ ~Flag(f, "unavailable")

\* Positions of the rows a probe wrote.
Rows(fs, p) == {i \in DOMAIN fs : fs[i].probe = p}
Has(fs, p)  == Rows(fs, p) # {}
FirstRow(S) == Min(S)
LastRow(S)  == Max(S)

\* The members of S by ascending key; the positions of S by ascending number.
InOrder(S, key) == CHOOSE s \in SetToSeqs(S) :
                     \A i, j \in DOMAIN s : i < j => key[s[i]] <= key[s[j]]
Ascending(I) == InOrder(I, [i \in I |-> i])

ReasonStructural == {"registry_redacted", "not_published_by_registry",
                     "scanner_no_ipv6"}
ReasonGap        == {"probe_unavailable", "scanner_unreadable_output",
                     "not_measured", "measurement_stale"}

Result(score, ev, reason) ==
  [score |-> score, ev |-> ev, reason |-> reason, lead |-> <<>>]
Scored(score, ev) == Result(score, ev, "")
NoEvidence        == Scored(Onbekend, {})
Unavailable(ev)   == Result(Onbekend, ev, "probe_unavailable")

\* The three-way verdict most rules share: all, some or none of the rows
\* are on the good side.
Share(good, all) == IF good = all THEN Soeverein
                    ELSE IF good # {} THEN Voldoende ELSE Afhankelijk

(***************************************************************************)
(* scoreDimension.  R is the set of [id, dim, res] of one pack; the engine *)
(* sorts by id, which only orders the rationale.                           *)
(***************************************************************************)
OfDim(R, dim)    == {r \in R : r.dim = dim}
Structural(R)    == {r \in R : r.res.reason \in ReasonStructural}
Counted(R)       == R \ Structural(R)
Evidenced(R)     == {r \in Counted(R) : r.res.ev # {}}

\* The score a rationale shows: a reason or an empty evidence list forces
\* onbekend.
RationaleScore(res) ==
  IF res.reason # "" \/ res.ev = {} THEN Onbekend ELSE res.score

\* The worst score is taken over the results' own scores, before a reason
\* overrides them.
Worst(E) == LET worst == CHOOSE r \in E : \A q \in E :
                           Rank(r.res.score) <= Rank(q.res.score)
            IN  worst.res.score

scoreDimension(R, dim) ==
  LET D == OfDim(R, dim)
      E == Evidenced(D)
  IN  [score         |-> IF E = {} THEN Onbekend ELSE Worst(E),
       completeness  |-> IF E = {} THEN "incomplete"
                         ELSE IF E = Counted(D) THEN "complete"
                         ELSE "partial",
       notApplicable |-> D # {} /\ Structural(D) = D]

WandDimensions == {"juridisch", "technologie", "data_ai", "operationeel",
                   "mens", "accountability", "standards"}

Assess(R) == [dim \in WandDimensions |-> scoreDimension(R, dim)]
=============================================================================
