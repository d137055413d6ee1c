----------------------------- MODULE EucsfRules -----------------------------
(***************************************************************************)
(* The EU Cloud Sovereignty Framework pack (internal/assessor/eucsf) over  *)
(* the perimeter findings.  It reads the rows the wand pack reads, asks    *)
(* about the EU and not the EEA, and looks at no row without a country.    *)
(***************************************************************************)
EXTENDS WandRules

euCountries == EUCountries

\* SealLevel.ToScore.
ToScore(seal) == CASE seal = 4 -> Soeverein [] seal = 3 -> Voldoende
                   [] seal \in {1, 2} -> Afhankelijk [] OTHER -> Onbekend

\* Mutant: one location inside the EU is enough for the highest level.
SealShareAny(good, all) == IF good # {} THEN 4 ELSE 1

SealShare(good, all) == IF good = all THEN 4 ELSE IF good # {} THEN 3 ELSE 1

emit(seal, ev) == Scored(ToScore(seal), ev)

SealJurisdiction(fs, hosts, also) ==
  LET seen == WithCountry(fs, AsnRows(fs, hosts))
      inEU == {i \in seen : Attr(fs[i], "country") \in euCountries}
  IN  IF hosts = {} \/ seen = {} THEN NoEvidence
      ELSE emit(SealShare(inEU, seen), seen \cup also)

certIssuerEU(fs) ==
  LET I == {i \in Rows(fs, "tls.issuer") : Strs(fs[i], "issuer_country") # {}}
      i == FirstRow(I)
      C == Strs(fs[i], "issuer_country")
  IN  IF I = {} THEN NoEvidence ELSE emit(SealShare(C \cap euCountries, C), {i})

apexJurisdiction(fs) ==
  SealJurisdiction(fs, IF Apex(fs) = "" THEN {} ELSE {Apex(fs)}, {})

mxJurisdiction(fs) ==
  LET H == HostRows(fs, "dns.mx")
  IN  SealJurisdiction(fs, HostsOf(fs, H), LastPerHost(fs, H))

operationalEU(fs) ==
  LET T == Rows(fs, "http.third_party")
      last == {i \in T : \A j \in T : fs[j].subject = fs[i].subject => j <= i}
  IN  SealJurisdiction(fs, {fs[i].subject : i \in T}, last)

eucsfNoUSHyperscaler(fs) ==
  LET I == Rows(fs, "ip.asn")
      matched == {i \in I : usHyperscalerOrg(Attr(fs[i], "organisation"))}
  IN  IF I = {} THEN NoEvidence
      ELSE IF matched = {} THEN emit(4, {FirstRow(I)})
      ELSE emit(1, matched)
=============================================================================
