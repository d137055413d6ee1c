----------------------------- MODULE MCUIFleet -----------------------------
(***************************************************************************)
(* UIFleet for TLC.  Outcomes are vectors of rule results: nothing found,  *)
(* the flows in order, and mail abroad with the network path unknown.      *)
(***************************************************************************)
EXTENDS UIFleet

Verdict(id, dim, score, ev) ==
    [id |-> id, dim |-> dim, res |-> Scored(score, ev)]

FlowDim == [id \in ToSet(flowRules) |->
              IF id \in {"no_us_hyperscaler", "third_parties_eea"}
              THEN "technologie" ELSE "juridisch"]

OutcomesDef == {"nothing", "inEEA", "abroad"}

FlowOutcome(o, id) ==
    CASE o = "nothing" -> Verdict(id, FlowDim[id], Onbekend, {})
      [] o = "abroad" /\ id = "mx_vendor_jurisdiction" ->
           Verdict(id, FlowDim[id], Afhankelijk, {1})
      [] o = "abroad" /\ id = "transit_eu_path" ->
           Verdict(id, FlowDim[id], Onbekend, {})
      [] o = "abroad" /\ id = "cert_issuer_eea" ->
           Verdict(id, FlowDim[id], Voldoende, {2})
      [] OTHER -> Verdict(id, FlowDim[id], Soeverein, {1})

\* Abroad, whois did not answer, and the row that says so is cited.
Registrant(o) ==
    [id |-> "registrant_identifiable", dim |-> "accountability",
     res |-> CASE o = "nothing" -> NoEvidence
               [] o = "inEEA" -> Result(Onbekend, {3}, "registry_redacted")
               [] OTHER -> Unavailable({3})]

SoaRname(o) ==
    [id |-> "soa_rname", dim |-> "accountability",
     res |-> IF o = "nothing" THEN NoEvidence ELSE Scored(Afhankelijk, {4})]

CertIssuerEU(o) ==
    CASE o = "nothing" -> Verdict("cert_issuer_eu", "juridisch", Onbekend, {})
      [] o = "inEEA" -> Verdict("cert_issuer_eu", "juridisch", Soeverein, {2})
      [] OTHER -> Verdict("cert_issuer_eu", "juridisch", Afhankelijk, {2})

SaysDef ==
    [fw \in {"wand", "eucsf"} |-> [o \in OutcomesDef |->
       IF fw = "wand"
       THEN {FlowOutcome(o, id) : id \in ToSet(flowRules)} \cup
            {Registrant(o), SoaRname(o)}
       ELSE {CertIssuerEU(o)}]]

Bound(ad, rm, f, s, as, u) ==
    [add |-> ad, remove |-> rm, fault |-> f, scan |-> s, assess |-> as,
     upset |-> u]

BudgetsDef == {Bound(3, 2, 1, 0, 0, 0), Bound(1, 1, 0, 1, 0, 1),
               Bound(0, 1, 0, 2, 0, 0), Bound(0, 0, 0, 2, 1, 0),
               Bound(0, 0, 0, 2, 0, 1)}

OrderDef == <<<<"wand", "apex_ip_eea">>, <<"wand", "cert_issuer_eea">>,
              <<"eucsf", "cert_issuer_eu">>,
              <<"wand", "mx_vendor_jurisdiction">>,
              <<"wand", "no_us_hyperscaler">>,
              <<"wand", "ns_vendor_jurisdiction">>,
              <<"wand", "registrant_identifiable">>, <<"wand", "soa_rname">>,
              <<"wand", "third_parties_eea">>, <<"wand", "transit_eu_path">>>>
=============================================================================
