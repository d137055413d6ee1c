--------------------------- MODULE PostureProofs ---------------------------
(***************************************************************************)
(* Proofs about the rule packs and the engine for any stored rows, and     *)
(* about what the verdicts of a scan are worth.                            *)
(*                                                                         *)
(* PacksNeverContradict needs no invariant on the rows: both packs are     *)
(* functions of the same sequence, and the agreement is proved for every   *)
(* sequence of findings, rule by rule.                                     *)
(*                                                                         *)
(* BlameDeserved, PraiseEarned and LeadsAreTrue rest on IInv: every row is *)
(* true of the world (RowTrue), the name servers and the hops are stored   *)
(* all or not at all (Faithful), and the verdict is that of the stored     *)
(* rows.  The proof goes probe by probe (DnsTrue .. VariantsTrue), then    *)
(* synthesis by synthesis, then rule by rule.                              *)
(*                                                                         *)
(* VerdictsAreTrue needs the converse as well: that nothing is missed when *)
(* no lookup fails (NothingMissed).  That takes the walk of the variants   *)
(* probe (WalksExact), what each probe leaves behind (ProbeSeen), the      *)
(* hosts that reach the second pass (RelatedSeen, IpSeen), and what each   *)
(* rule makes of rows that are true and complete (VerdictsTold).           *)
(***************************************************************************)
EXTENDS Posture, FiniteSetTheorems, WellFoundedInduction, TLAPS

(***************************************************************************)
(* Finding a rule in a pack.                                               *)
(***************************************************************************)
\* The fields of a registered rule are the ones it was registered with.
LEMMA RuledFields ==
  ASSUME NEW a, NEW b, NEW c
  PROVE  Ruled(a, b, c).id = a /\ Ruled(a, b, c).res = c
BY DEF Ruled

\* The ids standardsRules registers.
LEMMA StandardIds ==
  ASSUME NEW fs, NEW day, NEW q \in standardsRules(fs, day)
  PROVE  q.id \in {"dnssec", "mail_auth", "starttls_dane", "ipv6", "rpki", "tls_config"}
<1>1. DOMAIN standardsCategoriesFor
        = {"dnssec", "mail_auth", "starttls_dane", "ipv6", "rpki", "tls_config"}
  BY DEF standardsCategoriesFor
<1>2. PICK r \in DOMAIN standardsCategoriesFor :
        q = Ruled(r, "standards", scoreStandardsCategory(fs, r, day))
  BY DEF standardsRules
<1>3. q.id = r
  BY <1>2, RuledFields
<1> QED
  BY <1>1, <1>2, <1>3

\* An id that one rule of a pack carries picks that rule's result.
LEMMA ResultIs ==
  ASSUME NEW R, NEW id, NEW dim, NEW res, Ruled(id, dim, res) \in R,
         \A q \in R : q.id = id => q = Ruled(id, dim, res)
  PROVE  ResultOf(R, id) = res
<1> DEFINE r == CHOOSE q \in R : q.id = id
<1>1. r \in R /\ r.id = id
  BY RuledFields
<1>2. r = Ruled(id, dim, res)
  BY <1>1
<1> QED
  BY <1>2, RuledFields DEF ResultOf

\* The wand rules that have a counterpart, by id.
LEMMA WandResults ==
  ASSUME NEW fs, NEW day
  PROVE  LET R == wandDefaultRules(fs, day)
         IN  /\ ResultOf(R, "cert_issuer_eea") = certIssuerEEA(fs)
             /\ ResultOf(R, "apex_ip_eea") = apexIPInEEA(fs)
             /\ ResultOf(R, "mx_vendor_jurisdiction") = mxVendorJurisdiction(fs)
             /\ ResultOf(R, "third_parties_eea") = thirdPartiesEEA(fs)
             /\ ResultOf(R, "no_us_hyperscaler") = noUSHyperscaler(fs)
             /\ ResultOf(R, "us_telemetry_packages") = hostNoUSTelemetryPackages(fs)
             /\ ResultOf(R, "us_telemetry_services") = hostNoUSTelemetryServices(fs)
             /\ ResultOf(R, "images_us_registry") = dockerImagesUSRegistry(fs)
             /\ ResultOf(R, "containers_us_registry") = dockerContainersUSRegistry(fs)
<1> DEFINE R == wandDefaultRules(fs, day)
<1>1. ResultOf(R, "cert_issuer_eea") = certIssuerEEA(fs)
  <2>1. Ruled("cert_issuer_eea", "juridisch", certIssuerEEA(fs)) \in R
    BY DEF wandDefaultRules
  <2>2. \A q \in R : q.id = "cert_issuer_eea"
                       => q = Ruled("cert_issuer_eea", "juridisch", certIssuerEEA(fs))
    BY RuledFields, StandardIds DEF wandDefaultRules, accountabilityRules
  <2> QED
    BY <2>1, <2>2, ResultIs
<1>2. ResultOf(R, "apex_ip_eea") = apexIPInEEA(fs)
  <2>1. Ruled("apex_ip_eea", "juridisch", apexIPInEEA(fs)) \in R
    BY DEF wandDefaultRules
  <2>2. \A q \in R : q.id = "apex_ip_eea"
                       => q = Ruled("apex_ip_eea", "juridisch", apexIPInEEA(fs))
    BY RuledFields, StandardIds DEF wandDefaultRules, accountabilityRules
  <2> QED
    BY <2>1, <2>2, ResultIs
<1>3. ResultOf(R, "mx_vendor_jurisdiction") = mxVendorJurisdiction(fs)
  <2>1. Ruled("mx_vendor_jurisdiction", "juridisch", mxVendorJurisdiction(fs)) \in R
    BY DEF wandDefaultRules
  <2>2. \A q \in R : q.id = "mx_vendor_jurisdiction"
                       => q = Ruled("mx_vendor_jurisdiction", "juridisch", mxVendorJurisdiction(fs))
    BY RuledFields, StandardIds DEF wandDefaultRules, accountabilityRules
  <2> QED
    BY <2>1, <2>2, ResultIs
<1>4. ResultOf(R, "third_parties_eea") = thirdPartiesEEA(fs)
  <2>1. Ruled("third_parties_eea", "technologie", thirdPartiesEEA(fs)) \in R
    BY DEF wandDefaultRules
  <2>2. \A q \in R : q.id = "third_parties_eea"
                       => q = Ruled("third_parties_eea", "technologie", thirdPartiesEEA(fs))
    BY RuledFields, StandardIds DEF wandDefaultRules, accountabilityRules
  <2> QED
    BY <2>1, <2>2, ResultIs
<1>5. ResultOf(R, "no_us_hyperscaler") = noUSHyperscaler(fs)
  <2>1. Ruled("no_us_hyperscaler", "technologie", noUSHyperscaler(fs)) \in R
    BY DEF wandDefaultRules
  <2>2. \A q \in R : q.id = "no_us_hyperscaler"
                       => q = Ruled("no_us_hyperscaler", "technologie", noUSHyperscaler(fs))
    BY RuledFields, StandardIds DEF wandDefaultRules, accountabilityRules
  <2> QED
    BY <2>1, <2>2, ResultIs
<1>6. ResultOf(R, "us_telemetry_packages") = hostNoUSTelemetryPackages(fs)
  <2>1. Ruled("us_telemetry_packages", "technologie", hostNoUSTelemetryPackages(fs)) \in R
    BY DEF wandDefaultRules
  <2>2. \A q \in R : q.id = "us_telemetry_packages"
                       => q = Ruled("us_telemetry_packages", "technologie", hostNoUSTelemetryPackages(fs))
    BY RuledFields, StandardIds DEF wandDefaultRules, accountabilityRules
  <2> QED
    BY <2>1, <2>2, ResultIs
<1>7. ResultOf(R, "us_telemetry_services") = hostNoUSTelemetryServices(fs)
  <2>1. Ruled("us_telemetry_services", "technologie", hostNoUSTelemetryServices(fs)) \in R
    BY DEF wandDefaultRules
  <2>2. \A q \in R : q.id = "us_telemetry_services"
                       => q = Ruled("us_telemetry_services", "technologie", hostNoUSTelemetryServices(fs))
    BY RuledFields, StandardIds DEF wandDefaultRules, accountabilityRules
  <2> QED
    BY <2>1, <2>2, ResultIs
<1>8. ResultOf(R, "images_us_registry") = dockerImagesUSRegistry(fs)
  <2>1. Ruled("images_us_registry", "technologie", dockerImagesUSRegistry(fs)) \in R
    BY DEF wandDefaultRules
  <2>2. \A q \in R : q.id = "images_us_registry"
                       => q = Ruled("images_us_registry", "technologie", dockerImagesUSRegistry(fs))
    BY RuledFields, StandardIds DEF wandDefaultRules, accountabilityRules
  <2> QED
    BY <2>1, <2>2, ResultIs
<1>9. ResultOf(R, "containers_us_registry") = dockerContainersUSRegistry(fs)
  <2>1. Ruled("containers_us_registry", "technologie", dockerContainersUSRegistry(fs)) \in R
    BY DEF wandDefaultRules
  <2>2. \A q \in R : q.id = "containers_us_registry"
                       => q = Ruled("containers_us_registry", "technologie", dockerContainersUSRegistry(fs))
    BY RuledFields, StandardIds DEF wandDefaultRules, accountabilityRules
  <2> QED
    BY <2>1, <2>2, ResultIs
<1> QED
  BY <1>1, <1>2, <1>3, <1>4, <1>5, <1>6, <1>7, <1>8, <1>9

\* The eucsf rules that have a counterpart, by id.
LEMMA EucsfResults ==
  ASSUME NEW fs
  PROVE  LET R == eucsfDefaultRules(fs)
         IN  /\ ResultOf(R, "cert_issuer_eu") = certIssuerEU(fs)
             /\ ResultOf(R, "apex_jurisdiction") = apexJurisdiction(fs)
             /\ ResultOf(R, "mx_jurisdiction") = mxJurisdiction(fs)
             /\ ResultOf(R, "operational_eu") = operationalEU(fs)
             /\ ResultOf(R, "no_us_hyperscaler") = eucsfNoUSHyperscaler(fs)
             /\ ResultOf(R, "host_no_us_telemetry") = eucsfHostNoUSTelemetry(fs)
             /\ ResultOf(R, "container_supply_chain") = containerSupplyChain(fs)
<1> DEFINE R == eucsfDefaultRules(fs)
<1>1. ResultOf(R, "cert_issuer_eu") = certIssuerEU(fs)
  <2>1. Ruled("cert_issuer_eu", "juridisch", certIssuerEU(fs)) \in R
    BY DEF eucsfDefaultRules
  <2>2. \A q \in R : q.id = "cert_issuer_eu"
                       => q = Ruled("cert_issuer_eu", "juridisch", certIssuerEU(fs))
    BY RuledFields DEF eucsfDefaultRules
  <2> QED
    BY <2>1, <2>2, ResultIs
<1>2. ResultOf(R, "apex_jurisdiction") = apexJurisdiction(fs)
  <2>1. Ruled("apex_jurisdiction", "juridisch", apexJurisdiction(fs)) \in R
    BY DEF eucsfDefaultRules
  <2>2. \A q \in R : q.id = "apex_jurisdiction"
                       => q = Ruled("apex_jurisdiction", "juridisch", apexJurisdiction(fs))
    BY RuledFields DEF eucsfDefaultRules
  <2> QED
    BY <2>1, <2>2, ResultIs
<1>3. ResultOf(R, "mx_jurisdiction") = mxJurisdiction(fs)
  <2>1. Ruled("mx_jurisdiction", "data_ai", mxJurisdiction(fs)) \in R
    BY DEF eucsfDefaultRules
  <2>2. \A q \in R : q.id = "mx_jurisdiction"
                       => q = Ruled("mx_jurisdiction", "data_ai", mxJurisdiction(fs))
    BY RuledFields DEF eucsfDefaultRules
  <2> QED
    BY <2>1, <2>2, ResultIs
<1>4. ResultOf(R, "operational_eu") = operationalEU(fs)
  <2>1. Ruled("operational_eu", "technologie", operationalEU(fs)) \in R
    BY DEF eucsfDefaultRules
  <2>2. \A q \in R : q.id = "operational_eu"
                       => q = Ruled("operational_eu", "technologie", operationalEU(fs))
    BY RuledFields DEF eucsfDefaultRules
  <2> QED
    BY <2>1, <2>2, ResultIs
<1>5. ResultOf(R, "no_us_hyperscaler") = eucsfNoUSHyperscaler(fs)
  <2>1. Ruled("no_us_hyperscaler", "technologie", eucsfNoUSHyperscaler(fs)) \in R
    BY DEF eucsfDefaultRules
  <2>2. \A q \in R : q.id = "no_us_hyperscaler"
                       => q = Ruled("no_us_hyperscaler", "technologie", eucsfNoUSHyperscaler(fs))
    BY RuledFields DEF eucsfDefaultRules
  <2> QED
    BY <2>1, <2>2, ResultIs
<1>6. ResultOf(R, "host_no_us_telemetry") = eucsfHostNoUSTelemetry(fs)
  <2>1. Ruled("host_no_us_telemetry", "technologie", eucsfHostNoUSTelemetry(fs)) \in R
    BY DEF eucsfDefaultRules
  <2>2. \A q \in R : q.id = "host_no_us_telemetry"
                       => q = Ruled("host_no_us_telemetry", "technologie", eucsfHostNoUSTelemetry(fs))
    BY RuledFields DEF eucsfDefaultRules
  <2> QED
    BY <2>1, <2>2, ResultIs
<1>7. ResultOf(R, "container_supply_chain") = containerSupplyChain(fs)
  <2>1. Ruled("container_supply_chain", "technologie", containerSupplyChain(fs)) \in R
    BY DEF eucsfDefaultRules
  <2>2. \A q \in R : q.id = "container_supply_chain"
                       => q = Ruled("container_supply_chain", "technologie", containerSupplyChain(fs))
    BY RuledFields DEF eucsfDefaultRules
  <2> QED
    BY <2>1, <2>2, ResultIs
<1> QED
  BY <1>1, <1>2, <1>3, <1>4, <1>5, <1>6, <1>7

(***************************************************************************)
(* Agreement, rule by rule, on any sequence of findings.                   *)
(***************************************************************************)
\* Every EU country is an EEA country.
LEMMA EUInEEA == euCountries \subseteq eeaCountries
BY DEF euCountries, eeaCountries

\* The score shown for a result without a reason.
LEMMA ShownScore ==
  ASSUME NEW s, NEW ev
  PROVE  /\ Scored(s, ev).score = s /\ Scored(s, ev).ev = ev
         /\ RationaleScore(Scored(s, ev)) = IF ev = {} THEN Onbekend ELSE s
BY DEF Scored, Result, RationaleScore

\* A sovereign result that cites something is shown as such, whether or
\* not it names operators.
LEMMA ShownSoeverein ==
  ASSUME NEW ev, ev # {}
  PROVE  /\ RationaleScore(Scored(Soeverein, ev)) = Soeverein
         /\ \A names : RationaleScore([Scored(Soeverein, ev) EXCEPT !.lead = names]) = Soeverein
BY DEF Scored, Result, RationaleScore

\* A seal level maps to soeverein only at the top of the scale.
LEMMA SealTop ==
  ASSUME NEW good, NEW all, NEW ev,
         RationaleScore(emit(SealShare(good, all), ev)) = Soeverein
  PROVE  good = all /\ ev # {}
BY DEF emit, SealShare, ToScore, Scored, Result, RationaleScore,
       Soeverein, Voldoende, Afhankelijk, Onbekend

\* cert_issuer_eu soeverein implies cert_issuer_eea soeverein.
LEMMA CertAgrees ==
  ASSUME NEW fs, RationaleScore(certIssuerEU(fs)) = Soeverein
  PROVE  RationaleScore(certIssuerEEA(fs)) = Soeverein
<1> DEFINE I == {i \in Rows(fs, "tls.issuer") : Strs(fs[i], "issuer_country") # {}}
           C == Strs(fs[FirstRow(I)], "issuer_country")
           ch == Rows(fs, "tls.chain_geography")
           ca == IF ch = {} THEN "" ELSE Attr(fs[FirstRow(ch)], "ca")
           names == IF ca = "" THEN <<>> ELSE <<ca>>
<1> HIDE DEF names
<1>1. RationaleScore(NoEvidence) # Soeverein
  BY DEF NoEvidence, Scored, Result, RationaleScore, Onbekend, Soeverein
<1>2. I # {}
  BY <1>1 DEF certIssuerEU
<1>3. RationaleScore(emit(SealShare(C \cap euCountries, C), {FirstRow(I)})) = Soeverein
  BY <1>2 DEF certIssuerEU
<1>4. C \cap euCountries = C
  BY <1>3, SealTop
<1>5. C \cap eeaCountries = C
  BY <1>4, EUInEEA
<1>6. certIssuerEEA(fs)
        = [Scored(Share(C \cap eeaCountries, C), {FirstRow(I)}) EXCEPT !.lead = names]
  BY <1>2 DEF certIssuerEEA, names
<1>7. Share(C \cap eeaCountries, C) = Soeverein
  BY <1>5 DEF Share
<1>8. certIssuerEEA(fs) = [Scored(Soeverein, {FirstRow(I)}) EXCEPT !.lead = names]
  BY <1>6, <1>7
<1>9. {FirstRow(I)} # {}
  OBVIOUS
<1> HIDE DEF I
<1> QED
  BY <1>8, <1>9, ShownSoeverein

\* Locations that are all in the EU make the highest seal level and the
\* highest wand score.
LEMMA TallyAgrees ==
  ASSUME NEW fs, NEW hosts, NEW also, NEW more,
         RationaleScore(SealJurisdiction(fs, hosts, also)) = Soeverein
  PROVE  LET I == AsnRows(fs, hosts)
         IN  /\ hosts # {} /\ WithCountry(fs, I) # {}
             /\ jurisdictionTally(fs, I, more)
                  = Scored(Soeverein, WithCountry(fs, I) \cup more)
<1> DEFINE I == AsnRows(fs, hosts)
           seen == WithCountry(fs, I)
           inEU == {i \in seen : Attr(fs[i], "country") \in euCountries}
<1> HIDE DEF I
<1>1. RationaleScore(NoEvidence) # Soeverein
  BY DEF NoEvidence, Scored, Result, RationaleScore, Onbekend, Soeverein
<1>2. hosts # {} /\ seen # {}
  BY <1>1 DEF SealJurisdiction, I
<1>3. RationaleScore(emit(SealShare(inEU, seen), seen \cup also)) = Soeverein
  BY <1>2 DEF SealJurisdiction, I
<1>4. inEU = seen
  BY <1>3, SealTop
<1>5. InEEA(fs, seen) = seen
  BY <1>4, EUInEEA DEF InEEA
<1>6. jurisdictionTally(fs, I, more) = Scored(Soeverein, seen \cup more)
  BY <1>2, <1>5 DEF jurisdictionTally, Share
<1> QED
  BY <1>2, <1>6 DEF I

\* apex_jurisdiction soeverein implies apex_ip_eea soeverein.
LEMMA ApexAgrees ==
  ASSUME NEW fs, RationaleScore(apexJurisdiction(fs)) = Soeverein
  PROVE  RationaleScore(apexIPInEEA(fs)) = Soeverein
<1> DEFINE hosts == IF Apex(fs) = "" THEN {} ELSE {Apex(fs)}
           I == AsnRows(fs, {Apex(fs)})
           names == observedOperators(fs, "ip.hosting")
           ev == WithCountry(fs, I) \cup {}
<1>1. RationaleScore(SealJurisdiction(fs, hosts, {})) = Soeverein
  BY DEF apexJurisdiction
<1>2. hosts # {}
  BY <1>1, TallyAgrees
<1>3. Apex(fs) # "" /\ hosts = {Apex(fs)}
  BY <1>2
<1>4. RationaleScore(SealJurisdiction(fs, {Apex(fs)}, {})) = Soeverein
  BY <1>1, <1>3
<1> HIDE DEF hosts
<1>5. /\ WithCountry(fs, I) # {}
      /\ jurisdictionTally(fs, I, {}) = Scored(Soeverein, ev)
  BY <1>4, TallyAgrees
<1>6. apexIPInEEA(fs) = [Scored(Soeverein, ev) EXCEPT !.lead = names]
  BY <1>3, <1>5 DEF apexIPInEEA, LedBy
<1>7. ev # {}
  BY <1>5
<1> HIDE DEF ev, names
<1> QED
  BY <1>6, <1>7, ShownSoeverein

\* mx_jurisdiction soeverein implies mx_vendor_jurisdiction soeverein.
LEMMA MailAgrees ==
  ASSUME NEW fs, RationaleScore(mxJurisdiction(fs)) = Soeverein
  PROVE  RationaleScore(mxVendorJurisdiction(fs)) = Soeverein
<1> DEFINE H == HostRows(fs, "dns.mx")
           I == AsnRows(fs, HostsOf(fs, H))
           names == observedOperators(fs, "dns.mx_routing")
           ev == WithCountry(fs, I) \cup LastPerHost(fs, H)
<1>1. RationaleScore(SealJurisdiction(fs, HostsOf(fs, H), LastPerHost(fs, H))) = Soeverein
  BY DEF mxJurisdiction
<1>2. /\ HostsOf(fs, H) # {} /\ WithCountry(fs, I) # {}
      /\ jurisdictionTally(fs, I, LastPerHost(fs, H)) = Scored(Soeverein, ev)
  BY <1>1, TallyAgrees
<1>3. H # {}
  BY <1>2 DEF HostsOf
<1>4. mxVendorJurisdiction(fs) = [Scored(Soeverein, ev) EXCEPT !.lead = names]
  BY <1>2, <1>3 DEF mxVendorJurisdiction, HostVendorJurisdiction, LedBy
<1>5. ev # {}
  BY <1>2
<1> HIDE DEF ev, names
<1> QED
  BY <1>4, <1>5, ShownSoeverein

\* operational_eu soeverein implies third_parties_eea soeverein.
LEMMA ThirdPartiesAgree ==
  ASSUME NEW fs, RationaleScore(operationalEU(fs)) = Soeverein
  PROVE  RationaleScore(thirdPartiesEEA(fs)) = Soeverein
<1> DEFINE T == Rows(fs, "http.third_party")
           hosts == {fs[i].subject : i \in T}
           last == {i \in T : \A j \in T : fs[j].subject = fs[i].subject => j <= i}
           I == AsnRows(fs, hosts)
           ev == WithCountry(fs, I) \cup last
<1>1. RationaleScore(SealJurisdiction(fs, hosts, last)) = Soeverein
  BY DEF operationalEU
<1> HIDE DEF hosts, last
<1>2. /\ hosts # {} /\ WithCountry(fs, I) # {}
      /\ jurisdictionTally(fs, I, last) = Scored(Soeverein, ev)
  BY <1>1, TallyAgrees
<1>3. T # {}
  BY <1>2 DEF hosts
<1>4. thirdPartiesEEA(fs) = Scored(Soeverein, ev)
  BY <1>2, <1>3, ShownScore DEF thirdPartiesEEA, hosts, last
<1>5. ev # {}
  BY <1>2
<1> HIDE DEF ev
<1> QED
  BY <1>4, <1>5, ShownSoeverein

\* Both packs cite the same rows for American operators.
LEMMA HyperscalersAgree ==
  ASSUME NEW fs
  PROVE  eucsfNoUSHyperscaler(fs).ev = noUSHyperscaler(fs).ev
BY DEF eucsfNoUSHyperscaler, noUSHyperscaler, emit, NoEvidence, Scored, Result

\* A rule that looks for a hit blames exactly when there is one.
LEMMA HitBlames ==
  ASSUME NEW inspected, NEW hits, hits \subseteq inspected
  PROVE  (RationaleScore(HitRule(inspected, hits)) = Afhankelijk) <=> hits # {}
BY DEF HitRule, NoEvidence, Scored, Result, RationaleScore,
       Soeverein, Afhankelijk, Onbekend

\* One verdict over packages and services blames when one of two does.
LEMMA TelemetryAgrees ==
  ASSUME NEW fs
  PROVE  (RationaleScore(eucsfHostNoUSTelemetry(fs)) = Afhankelijk)
           <=> \/ RationaleScore(hostNoUSTelemetryPackages(fs)) = Afhankelijk
               \/ RationaleScore(hostNoUSTelemetryServices(fs)) = Afhankelijk
<1> DEFINE Hits(probes) == {i \in Inspected(fs, probes) : HostTelemetryMatch(fs[i].subject)}
<1>1. \A probes : (RationaleScore(hostNoUSTelemetry(fs, probes)) = Afhankelijk)
                    <=> Hits(probes) # {}
  BY HitBlames DEF hostNoUSTelemetry
<1>2. Hits(PackageProbes \cup ServiceProbes) = Hits(PackageProbes) \cup Hits(ServiceProbes)
  BY DEF Inspected
<1> QED
  BY <1>1, <1>2 DEF eucsfHostNoUSTelemetry, hostNoUSTelemetryPackages,
                    hostNoUSTelemetryServices

\* One verdict over images and containers blames when one of two does.
LEMMA RegistriesAgree ==
  ASSUME NEW fs
  PROVE  (RationaleScore(containerSupplyChain(fs)) = Afhankelijk)
           <=> \/ RationaleScore(dockerImagesUSRegistry(fs)) = Afhankelijk
               \/ RationaleScore(dockerContainersUSRegistry(fs)) = Afhankelijk
<1> DEFINE Hits(probes) == {i \in Inspected(fs, probes) :
                              \E r \in ImageRefs(fs[i]) : ContainerRegistryMatch(r)}
<1>1. \A probes : (RationaleScore(dockerRegistryMatch(fs, probes)) = Afhankelijk)
                    <=> Hits(probes) # {}
  BY HitBlames DEF dockerRegistryMatch
<1>2. Hits(ImageProbes \cup ContainerProbes) = Hits(ImageProbes) \cup Hits(ContainerProbes)
  BY DEF Inspected
<1> QED
  BY <1>1, <1>2 DEF containerSupplyChain, dockerImagesUSRegistry,
                    dockerContainersUSRegistry

\* The packs agree on every sequence of findings and every day.
LEMMA AgreementOnRows ==
  ASSUME NEW fs, NEW day
  PROVE  Agreement(wandDefaultRules(fs, day), eucsfDefaultRules(fs))
BY WandResults, EucsfResults, CertAgrees, ApexAgrees, MailAgrees, ThirdPartiesAgree,
   HyperscalersAgree, TelemetryAgrees, RegistriesAgree DEF Agreement, ScoreOf

(***************************************************************************)
(* Theorems.                                                               *)
(***************************************************************************)
\* Whatever the world, the failing lookups and the order of the probes, the
\* two assessments of one scan do not contradict each other.
THEOREM PacksNeverContradict == Spec => []PacksAgree
<1>1. Init => PacksAgree
  BY DEF Init, NoVerdict, PacksAgree, Assessed
<1>2. PacksAgree /\ [Next]_vars => PacksAgree'
  <2> SUFFICES ASSUME PacksAgree, [Next]_vars PROVE PacksAgree'
    OBVIOUS
  <2>1. CASE UNCHANGED verdict
    BY <2>1 DEF PacksAgree, Assessed
  <2>2. CASE \E day \in Days : AssessScan(day)
    <3>1. PICK day \in Days : AssessScan(day)
      BY <2>2
    <3>2. PICK fs : /\ verdict'.wand = wandDefaultRules(fs, day)
                    /\ verdict'.eucsf = eucsfDefaultRules(fs)
      BY <3>1 DEF AssessScan
    <3> QED
      BY <3>2, AgreementOnRows DEF PacksAgree
  <2> QED
    BY <2>1, <2>2 DEF Next, vars, FinishProbe, SecondPass, Synthesise, HolderLookups,
                      InspectHost
<1> QED
  BY <1>1, <1>2, PTL DEF Spec

\* scoreDimension: the score of a dimension is the score of one of the rules
\* that count, and no rule that counts scored worse.
THEOREM DimensionIsWorstRule ==
  ASSUME NEW R, NEW dim, Evidenced(OfDim(R, dim)) # {}
  PROVE  LET E == Evidenced(OfDim(R, dim))
             s == scoreDimension(R, dim).score
         IN  /\ \E r \in E : r.res.score = s
             /\ \A r \in E : Rank(s) <= Rank(r.res.score)
<1> DEFINE E == Evidenced(OfDim(R, dim))
<1> HIDE DEF E
<1>1. \A s : Rank(s) \in 0 .. 3
  BY DEF Rank
<1>2. \E r \in E : \A q \in E : Rank(r.res.score) <= Rank(q.res.score)
  <2>1. CASE \E r \in E : Rank(r.res.score) = 0
    BY <2>1, <1>1
  <2>2. CASE (\A r \in E : Rank(r.res.score) >= 1) /\ \E r \in E : Rank(r.res.score) = 1
    BY <2>2, <1>1
  <2>3. CASE (\A r \in E : Rank(r.res.score) >= 2) /\ \E r \in E : Rank(r.res.score) = 2
    BY <2>3, <1>1
  <2>4. CASE \A r \in E : Rank(r.res.score) >= 3
    <3>1. PICK r \in E : TRUE
      BY DEF E
    <3> QED
      BY <3>1, <2>4, <1>1
  <2> QED
    BY <2>1, <2>2, <2>3, <2>4, <1>1
<1> DEFINE r == CHOOSE x \in E : \A q \in E : Rank(x.res.score) <= Rank(q.res.score)
<1>3. r \in E /\ \A q \in E : Rank(r.res.score) <= Rank(q.res.score)
  BY <1>2
<1>4. scoreDimension(R, dim).score = r.res.score
  BY DEF scoreDimension, Worst, E
<1> QED
  BY <1>3, <1>4 DEF E

(***************************************************************************)
(* What a row says, against the world it was written about.                *)
(***************************************************************************)
nsFinding(x, h) == Finding("dns.ns", x.domain, [host |-> h])

SaysOf(f, g) == Attr(f, "organisation") = g.org /\ Attr(f, "country") = g.country

\* The rows the first pass writes about names and addresses.
NameTrue(x, f) ==
  /\ f.probe \in {"dns.a", "dns.aaaa"} => f.subject = x.domain
  /\ f.probe = "dns.mx" => Attr(f, "host") \in {m.host : m \in x.mx} \cup {""}
  /\ f.probe = "dns.ns" => Attr(f, "host") = "" \/ \E h \in x.ns : f = nsFinding(x, h)
  /\ f.probe = "dns.caa" /\ "no_answer" \in DOMAIN f.attrs
       => \A k \in DOMAIN x.caa : x.caa[k] = {}
  /\ f.probe = "dns.subdomain"
       => f.subject \in x.ct \cup (IF Wildcard(x) THEN {} ELSE x.subs)
  /\ f.probe = "http.third_party" => f.subject \in x.http.third
  /\ f.probe = "ip.asn" => /\ f.subject \in HostsAsked(x, "no_us_hyperscaler")
                           /\ \E g \in ToSet(Resolve(x, f.subject)) : SaysOf(f, g)

\* The rows about the site and its certificate.
SiteTrue(x, f) ==
  /\ f.probe = "tls.issuer" => Strs(f, "issuer_country") = x.cert.countries
  /\ f.probe = "tls.validity" =>
       /\ Flag(f, "expired") <=> x.cert.left < 0
       /\ Flag(f, "expiring_soon") <=> x.cert.left \in 0 .. expiringSoonThresholdDays - 1
  /\ f.probe = "http.securitytxt" => f.attrs = x.sectxt
  /\ f.probe = "http.security_headers" =>
       Strs(f, "missing") \in {x.http.missing, x.http.missingPlain}
  /\ f.probe = "transit.hop" => \E k \in DOMAIN x.hops : f = hopFinding(x, k)

PathTrue(x, q) == \E p \in Open(x) : q.scheme = p.scheme /\ q.final \in Destination(x, p)

ReachedPaths(f) == {k \in DOMAIN f.attrs.paths : f.attrs.paths[k].status = "reachable"}

\* When a path is reported to reach an origin, one does lead where it is said to.
DoorsTrue(x, f) ==
  f.probe = "http.variants" =>
    /\ HasDoors(x)
    /\ ReachedPaths(f) # {} => \E k \in ReachedPaths(f) : PathTrue(x, f.attrs.paths[k])

\* The rows about who answers for the domain.
HolderTrue(c, f) ==
  LET x == c.world
  IN  /\ f.probe = "whois.reseller" => (Flag(f, "present") <=> x.rdap.reseller)
      /\ f.probe = "whois.expiry" => /\ Flag(f, "present") <=> x.rdap.expiry # <<>>
                                     /\ f.attrs.date = x.rdap.expiry
      /\ f.probe = "whois.registrant_identity" =>
           f.attrs.name = IF x.rdap.name = <<>> THEN <<"absent">> ELSE x.rdap.name
      /\ f.probe = "config.expected_registrant" => Strs(f, "expected_registrant") = c.expected
      /\ f.probe = "dns.soa" =>
           /\ Flag(f, "mailbox_domain_resolves") => Resolve(x, x.soa.mailbox) # <<>>
           /\ Flag(f, "mailbox_domain_has_mx") => x.soa.mx
      /\ f.probe = "whois.ns_holder" =>
           /\ f.subject \in DOMAIN x.holder
           /\ Attr(f, "registrant") = "present" <=> x.holder[f.subject] = "named"

\* The operators the syntheses name.
OutsideVendors(x) ==
  UNION {{h} \cup {operatorBySuffix(h, thirdPartyVendorSuffixes, g.org) :
            g \in {y \in ToSet(Resolve(x, h)) : OutsideEEA(y)}} : h \in x.http.third}

RoutesAmong(f, S) ==
  /\ IsList(f.attrs.routes)
  /\ \A k \in DOMAIN f.attrs.routes : f.attrs.routes[k].operator \in S \cup {""}

SynthesisTrue(x, f) ==
  /\ f.probe = "dns.mx_routing" =>
       RoutesAmong(f, OperatorsOf(x, "mx_vendor_jurisdiction", mailOperatorSuffixes))
  /\ f.probe = "dns.ns_hosting" =>
       RoutesAmong(f, OperatorsOf(x, "ns_vendor_jurisdiction", dnsOperatorSuffixes))
  /\ f.probe = "ip.hosting" =>
       RoutesAmong(f, {hostingOperator(g.org) : g \in Geos(x, "apex_ip_eea")})
  /\ f.probe = "http.origin_map" =>
       /\ IsList(f.attrs.vendors)
       /\ \A k \in DOMAIN f.attrs.vendors :
            f.attrs.vendors[k].country \notin eeaCountries \cup {""}
              => f.attrs.vendors[k].vendor \in OutsideVendors(x)

RowTrue(c, f) ==
  /\ NameTrue(c.world, f)
  /\ SiteTrue(c.world, f)
  /\ DoorsTrue(c.world, f)
  /\ HolderTrue(c, f)
  /\ SynthesisTrue(c.world, f)
  /\ f.probe # "internetnl"

\* A set of rows: each is true, and of the name servers and the hops either
\* all are there or none is.
Faithful(c, S) ==
  /\ \A f \in S : RowTrue(c, f)
  /\ (\E f \in S : f.probe = "dns.ns" /\ Attr(f, "host") # "")
       => \A h \in c.world.ns : nsFinding(c.world, h) \in S
  /\ (\E f \in S : f.probe = "transit.hop")
       => \A k \in DOMAIN c.world.hops : hopFinding(c.world, k) \in S

FaithfulList(c, s) == IsList(s) /\ Faithful(c, ToSet(s))

(***************************************************************************)
(* The inductive invariant: what a perimeter scan has in memory and in the *)
(* store is true of the world, and the verdict is that of the stored rows. *)
(***************************************************************************)
RowsAreTrue ==
  case.kind = "perimeter" =>
    /\ case \in Cases
    /\ pending \subseteq case.probes
    /\ FaithfulList(case, rows)
    /\ mem = [p \in ToSet(Registered) \cup {"ip"} |-> mem[p]]
    /\ \A p \in DOMAIN mem : FaithfulList(case, mem[p])

VerdictIsOfRows ==
  Perimeter => /\ phase = "done"
               /\ now \in Days
               /\ verdict.wand = wandDefaultRules(FindingsForAssessment(rows, w), now)

IInv == RowsAreTrue /\ VerdictIsOfRows

(***************************************************************************)
(* Numbers, lists and sets as lists.                                       *)
(***************************************************************************)
\* A set of naturals has a least member.
LEMMA LeastPicked ==
  ASSUME NEW S \in SUBSET Nat, S # {}
  PROVE  Min(S) \in S /\ \A y \in S : Min(S) <= y
<1> DEFINE R == OpToRel(<, Nat)
<1>1. IsWellFoundedOn(R, Nat)
  BY NatLessThanWellFounded, Zenon
<1>2. \A x, y \in Nat : <<y, x>> \notin R => x <= y
  BY DEF OpToRel
<1> HIDE DEF R
<1>3. \E x \in S : \A y \in S : <<y, x>> \notin R
  BY <1>1, WFMin
<1>4. \E x \in S : \A y \in S : x <= y
  BY <1>2, <1>3
<1> QED
  BY <1>4 DEF Min

\* A bounded one has a greatest.
LEMMA GreatestPicked ==
  ASSUME NEW n \in Nat, NEW S \in SUBSET (0 .. n), S # {}
  PROVE  Max(S) \in S /\ \A y \in S : y <= Max(S)
<1> DEFINE D == {n - s : s \in S}
<1>0. \A s \in S : s \in 0 .. n /\ n - s \in Nat
  OBVIOUS
<1>1. D \in SUBSET Nat /\ D # {}
  BY <1>0
<1>2. Min(D) \in D /\ \A y \in D : Min(D) <= y
  <2> HIDE DEF D
  <2> QED
    BY <1>1, LeastPicked
<1>3. PICK s \in S : n - s = Min(D)
  BY <1>2
<1>4. \A y \in S : n - s <= n - y
  BY <1>2, <1>3
<1>5. \E x \in S : \A y \in S : x >= y
  BY <1>4, <1>0
<1> QED
  BY <1>5 DEF Max

\* The positions of a list, and its members.
LEMMA ListDomain ==
  ASSUME NEW s, IsList(s)
  PROVE  /\ Len(s) \in Nat /\ DOMAIN s = 1 .. Len(s)
         /\ \A i \in DOMAIN s : s[i] \in ToSet(s)
         /\ \A f \in ToSet(s) : \E i \in DOMAIN s : s[i] = f
<1>1. s \in Seq(ToSet(s))
  BY DEF IsList
<1>2. \A i \in DOMAIN s : s[i] \in ToSet(s)
  BY DEF ToSet
<1>3. \A f \in ToSet(s) : \E i \in DOMAIN s : s[i] = f
  BY DEF ToSet
<1> HIDE DEF IsList
<1> QED
  BY <1>1, <1>2, <1>3

\* A function on 1 .. n is a list.
LEMMA ListOf ==
  ASSUME NEW n \in Nat, NEW s, s = [i \in 1 .. n |-> s[i]]
  PROVE  IsList(s) /\ DOMAIN s = 1 .. n /\ Len(s) = n
<1>1. DOMAIN s = 1 .. n
  OBVIOUS
<1> DEFINE T == ToSet(s)
<1>2. \A i \in 1 .. n : s[i] \in T
  BY <1>1 DEF ToSet
<1> HIDE DEF T
<1>3. s \in [1 .. n -> T]
  BY <1>2
<1>4. s \in Seq(T)
  BY <1>3
<1> QED
  BY <1>1, <1>4 DEF IsList, T

\* The empty list.
LEMMA NoList == IsList(<<>>) /\ ToSet(<<>>) = {}
<1>1. ToSet(<<>>) = {}
  BY DEF ToSet
<1> QED
  BY <1>1 DEF IsList

\* A list of one.
LEMMA OneList ==
  ASSUME NEW a
  PROVE  IsList(<<a>>) /\ ToSet(<<a>>) = {a}
<1>1. ToSet(<<a>>) = {a}
  BY DEF ToSet
<1> QED
  BY <1>1 DEF IsList

\* Two lists, one after the other.
LEMMA Concat ==
  ASSUME NEW s, NEW t, IsList(s), IsList(t)
  PROVE  IsList(s \o t) /\ ToSet(s \o t) = ToSet(s) \cup ToSet(t)
<1> DEFINE S == ToSet(s)
           T == ToSet(t)
           u == s \o t
<1>1. /\ s \in Seq(S) /\ t \in Seq(T)
      /\ Len(s) \in Nat /\ DOMAIN s = 1 .. Len(s) /\ \A i \in 1 .. Len(s) : s[i] \in S
      /\ Len(t) \in Nat /\ DOMAIN t = 1 .. Len(t) /\ \A i \in 1 .. Len(t) : t[i] \in T
      /\ \A f \in S : \E i \in DOMAIN s : s[i] = f
      /\ \A f \in T : \E i \in DOMAIN t : t[i] = f
  BY ListDomain DEF IsList
<1> HIDE DEF S, T
<1>2. s \in Seq(S \cup T) /\ t \in Seq(S \cup T)
  BY <1>1
<1>3. /\ Len(u) = Len(s) + Len(t)
      /\ \A i \in 1 .. Len(u) : u[i] = IF i <= Len(s) THEN s[i] ELSE t[i - Len(s)]
      /\ DOMAIN u = 1 .. Len(u)
      /\ u \in Seq(S \cup T)
  BY <1>1, <1>2
<1> HIDE DEF u
<1>4. \A i \in DOMAIN u : u[i] \in S \cup T
  BY <1>3, <1>1
<1>5. ASSUME NEW f \in S PROVE \E i \in DOMAIN u : u[i] = f
  <2>1. PICK i \in 1 .. Len(s) : s[i] = f
    BY <1>1, Zenon
  <2>2. i \in 1 .. Len(u) /\ i <= Len(s)
    BY <2>1, <1>1, <1>3
  <2> QED
    BY <2>1, <2>2, <1>3, Zenon
<1>6. ASSUME NEW f \in T PROVE \E i \in DOMAIN u : u[i] = f
  <2>1. PICK i \in 1 .. Len(t) : t[i] = f
    BY <1>1, Zenon
  <2>2. i + Len(s) \in 1 .. Len(u) /\ ~(i + Len(s) <= Len(s)) /\ (i + Len(s)) - Len(s) = i
    BY <2>1, <1>1, <1>3
  <2>3. u[i + Len(s)] = t[(i + Len(s)) - Len(s)]
    BY <2>2, <1>3, Zenon
  <2> QED
    BY <2>1, <2>2, <2>3, <1>3, Zenon
<1>7. ToSet(u) = S \cup T
  BY <1>4, <1>5, <1>6 DEF ToSet
<1> QED
  BY <1>3, <1>7 DEF IsList, u, S, T

\* A finite set as a list, in the order of SetToSeq.
LEMMA SortedList ==
  ASSUME NEW S, IsFiniteSet(S)
  PROVE  IsList(Sorted(S)) /\ ToSet(Sorted(S)) = S
<1> DEFINE n == Cardinality(S)
           f == SetToSeq(S)
<1>1. n \in Nat /\ ExistsBijection(1 .. n, S)
  BY FS_CardinalityType
<1>2. \E g \in [1 .. n -> S] : IsInjective(g)
  BY <1>1 DEF ExistsBijection, Bijection, Injection, IsInjective
<1>3. f \in [1 .. n -> S] /\ IsInjective(f)
  BY <1>2 DEF SetToSeq
<1>4. f \in Injection(1 .. n, S)
  BY <1>3 DEF Injection
<1> HIDE DEF f
<1>5. Cardinality(1 .. n) = n
  BY <1>1, FS_Interval
<1>6. f \in Surjection(1 .. n, S)
  BY <1>4, <1>5, FS_Injection
<1>7. ToSet(f) = S
  BY <1>3, <1>6 DEF Surjection, ToSet
<1>8. IsList(f)
  BY <1>3, <1>1, ListOf
<1> QED
  BY <1>7, <1>8 DEF Sorted, f

\* Any order Go's maps may be read in lists the set.
LEMMA AnyOrderList ==
  ASSUME NEW S, IsFiniteSet(S), NEW s \in AnyOrder(S)
  PROVE  IsList(s) /\ ToSet(s) \subseteq S
<1> DEFINE n == Cardinality(S)
<1>1. n \in Nat
  BY FS_CardinalityType
<1>2. s \in [1 .. n -> S]
  BY DEF AnyOrder, SetToSeqs
<1> HIDE DEF n
<1>3. ToSet(s) \subseteq S
  BY <1>2 DEF ToSet
<1> QED
  BY <1>1, <1>2, <1>3, ListOf

\* Among subsets of a finite set one is smallest by inclusion.
LEMMA SmallestSet ==
  ASSUME NEW X, IsFiniteSet(X), NEW U \in SUBSET (SUBSET X), U # {}
  PROVE  \E s \in U : \A t \in U : t \subseteq s => t = s
<1> DEFINE K == {Cardinality(s) : s \in U}
<1>1. \A s \in U : IsFiniteSet(s) /\ Cardinality(s) \in Nat
  BY FS_Subset, FS_CardinalityType
<1>2. K \in SUBSET Nat /\ K # {}
  BY <1>1
<1>3. Min(K) \in K /\ \A y \in K : Min(K) <= y
  <2> HIDE DEF K
  <2> QED
    BY <1>2, LeastPicked
<1>4. PICK s \in U : Cardinality(s) = Min(K)
  BY <1>3
<1>5. ASSUME NEW t \in U, t \subseteq s PROVE t = s
  <2>1. /\ Cardinality(t) <= Cardinality(s)
        /\ Cardinality(s) = Cardinality(t) => s = t
    BY <1>1, <1>5, FS_Subset
  <2>2. Cardinality(s) <= Cardinality(t)
    BY <1>3, <1>4
  <2> QED
    BY <1>1, <2>1, <2>2
<1> QED
  BY <1>5

\* A member of a finite set with the largest key.
LEMMA LargestKey ==
  ASSUME NEW S, IsFiniteSet(S), S # {}, NEW key, \A m \in S : key[m] \in Int
  PROVE  \E m \in S : \A u \in S : key[u] <= key[m]
<1> DEFINE Has1(T) == \E m \in T : \A u \in T : key[u] <= key[m]
           U == {T \in SUBSET S : T # {} /\ ~Has1(T)}
<1>1. SUFFICES U = {}
  <2>1. S \notin U
    BY <1>1
  <2> QED
    BY <2>1
<1>2. SUFFICES ASSUME U # {} PROVE FALSE
  OBVIOUS
<1>3. PICK T \in U : \A t \in U : t \subseteq T => t = T
  <2>1. U \in SUBSET (SUBSET S)
    OBVIOUS
  <2> HIDE DEF U
  <2> QED
    BY <2>1, <1>2, SmallestSet
<1>4. PICK a \in T : TRUE
  OBVIOUS
<1>5. T \ {a} \notin U
  BY <1>3, <1>4
<1>6. CASE T \ {a} = {}
  <2>1. \A u \in T : u = a
    BY <1>6
  <2>2. key[a] \in Int
    BY <1>4
  <2>3. Has1(T)
    BY <2>1, <2>2, <1>4
  <2> QED
    BY <2>3
<1>7. CASE T \ {a} # {}
  <2>1. PICK b \in T \ {a} : \A u \in T \ {a} : key[u] <= key[b]
    BY <1>5, <1>7
  <2>2. /\ key[a] \in Int /\ key[b] \in Int
        /\ \A u \in T : key[u] \in Int
    BY <1>4, <2>1
  <2>3. Has1(T)
    <3>1. CASE key[a] <= key[b]
      <4>1. \A u \in T : key[u] <= key[b]
        BY <3>1, <2>1
      <4> QED
        BY <4>1, <2>1
    <3>2. CASE ~(key[a] <= key[b])
      <4>1. \A u \in T : key[u] <= key[a]
        BY <3>2, <2>1, <2>2
      <4> QED
        BY <4>1, <1>4
    <3> QED
      BY <3>1, <3>2
  <2> QED
    BY <2>3
<1> QED
  BY <1>6, <1>7

ByKey(s, key) == \A i, j \in DOMAIN s : i < j => key[s[i]] <= key[s[j]]

\* A finite set can be listed by ascending key.
LEMMA CanBeOrdered ==
  ASSUME NEW S, IsFiniteSet(S), NEW key, \A m \in S : key[m] \in Int
  PROVE  \E s \in SetToSeqs(S) : ByKey(s, key)
<1> DEFINE Ok(T) == \E s \in SetToSeqs(T) : ByKey(s, key)
           U == {T \in SUBSET S : ~Ok(T)}
<1>1. SUFFICES U = {}
  <2>1. S \notin U
    BY <1>1
  <2> QED
    BY <2>1
<1>2. SUFFICES ASSUME U # {} PROVE FALSE
  OBVIOUS
<1>3. PICK T \in U : \A t \in U : t \subseteq T => t = T
  <2>1. U \in SUBSET (SUBSET S)
    OBVIOUS
  <2> HIDE DEF U
  <2> QED
    BY <2>1, <1>2, SmallestSet
<1>4. ~Ok(T) /\ T \subseteq S /\ IsFiniteSet(T)
  BY <1>3, FS_Subset
<1>5. CASE T = {}
  <2>1. Cardinality(T) = 0
    BY <1>5, FS_EmptySet
  <2>2. <<>> \in [1 .. 0 -> T]
    OBVIOUS
  <2>3. <<>> \in SetToSeqs(T)
    BY <2>1, <2>2 DEF SetToSeqs
  <2>4. ByKey(<<>>, key)
    BY DEF ByKey
  <2> QED
    BY <2>3, <2>4, <1>4
<1>6. CASE T # {}
  <2>1. PICK m \in T : \A u \in T : key[u] <= key[m]
    BY <1>4, <1>6, LargestKey
  <2> DEFINE R == T \ {m}
             n == Cardinality(T)
  <2>2. Ok(R)
    BY <1>3, <2>1
  <2>3. n \in Nat /\ n >= 1 /\ Cardinality(R) = n - 1
    BY SMTT(40), <1>4, <1>6, <2>1, FS_RemoveElement, FS_CardinalityType, FS_EmptySet
  <2>4. PICK s \in SetToSeqs(R) : ByKey(s, key)
    BY <2>2
  <2> HIDE DEF n
  <2>5. /\ s \in [1 .. n - 1 -> R]
        /\ \A i, j \in 1 .. n - 1 : i # j => s[i] # s[j]
    BY <2>3, <2>4 DEF SetToSeqs
  <2> DEFINE t == [i \in 1 .. n |-> IF i < n THEN s[i] ELSE m]
  <2>6. \A i \in 1 .. n : i < n => i \in 1 .. n - 1
    BY <2>3
  <2>7. \A i \in 1 .. n : t[i] = (IF i < n THEN s[i] ELSE m)
    OBVIOUS
  <2>8. \A i \in 1 .. n : i < n => t[i] \in R /\ t[i] = s[i]
    BY <2>5, <2>6
  <2>9. \A i \in 1 .. n : t[i] \in T
    BY <2>8, <2>1
  <2>10. \A i \in 1 .. n : ~(i < n) => i = n
    BY <2>3
  <2>11. t \in [1 .. n -> T] /\ DOMAIN t = 1 .. n
    BY <2>9
  <2> HIDE DEF t, R
  <2>12. \A i \in 1 .. n : i < n => t[i] # m
    BY <2>8 DEF R
  <2>13. ASSUME NEW i \in 1 .. n, NEW j \in 1 .. n, i # j PROVE t[i] # t[j]
    BY <2>5, <2>6, <2>7, <2>8, <2>10, <2>12, <2>13
  <2>14. t \in SetToSeqs(T)
    BY <2>11, <2>13 DEF SetToSeqs, n
  <2>15. ASSUME NEW i \in 1 .. n, NEW j \in 1 .. n, i < j PROVE key[t[i]] <= key[t[j]]
    <3>1. i < n /\ i \in 1 .. n - 1
      BY <2>15, <2>3
    <3>2. CASE j < n
      BY <3>1, <3>2, <2>15, <2>4, <2>5, <2>6, <2>8 DEF ByKey
    <3>3. CASE ~(j < n)
      BY <3>3, <2>7, <2>1, <2>9
    <3> QED
      BY <3>2, <3>3
  <2>16. ByKey(t, key)
    BY <2>11, <2>15 DEF ByKey
  <2> QED
    BY <2>14, <2>16, <1>4
<1> QED
  BY <1>5, <1>6

\* InOrder lists members of the set.
LEMMA InOrderList ==
  ASSUME NEW S, IsFiniteSet(S), NEW key, \A m \in S : key[m] \in Int
  PROVE  IsList(InOrder(S, key)) /\ ToSet(InOrder(S, key)) \subseteq S
<1>1. \E s \in SetToSeqs(S) : \A i, j \in DOMAIN s : i < j => key[s[i]] <= key[s[j]]
  BY CanBeOrdered DEF ByKey
<1>2. InOrder(S, key) \in SetToSeqs(S)
  BY <1>1, Zenon DEF InOrder
<1> QED
  BY <1>2, AnyOrderList DEF AnyOrder

\* So does Ascending, for a bounded set of positions.
LEMMA AscendingList ==
  ASSUME NEW n \in Nat, NEW I \in SUBSET (1 .. n)
  PROVE  IsList(Ascending(I)) /\ ToSet(Ascending(I)) \subseteq I
<1>0. IsFiniteSet(1 .. n)
  BY FS_Interval
<1>1. IsFiniteSet(I)
  BY <1>0, FS_Subset
<1> DEFINE key == [i \in I |-> i]
<1>2. \A i \in I : key[i] \in Int
  OBVIOUS
<1> HIDE DEF key
<1>3. IsList(InOrder(I, key)) /\ ToSet(InOrder(I, key)) \subseteq I
  BY <1>1, <1>2, InOrderList
<1> QED
  BY <1>3 DEF Ascending, key

\* A function that is defined step by step exists.
StepsWithin(step, n, S) == \A k \in 1 .. n : \A v \in S : step[<<k, v>>] \in S
Steps(f, step, n, b) == f[0] = b /\ \A k \in 1 .. n : f[k] = step[<<k, f[k - 1]>>]

\* A step that stays within a set can be taken n times: the recursive
\* functions of the model have a value.
LEMMA Stepwise ==
  ASSUME NEW n \in Nat, NEW S, NEW b \in S, NEW step, StepsWithin(step, n, S)
  PROVE  \E f \in [0 .. n -> S] : Steps(f, step, n, b)
<1> USE DEF Steps, StepsWithin
<1> DEFINE Ok(m) == \E f \in [0 .. m -> S] :
                      f[0] = b /\ \A k \in 1 .. m : f[k] = step[<<k, f[k - 1]>>]
           U == {m \in 0 .. n : ~Ok(m)}
<1>1. SUFFICES ASSUME U # {} PROVE FALSE
  <2>1. n \in 0 .. n
    OBVIOUS
  <2>2. U = {} => Ok(n)
    BY <2>1
  <2> QED
    BY <2>2, <1>1
<1>2. PICK m \in U : \A y \in U : m <= y
  <2>1. U \in SUBSET Nat
    OBVIOUS
  <2> HIDE DEF U
  <2> QED
    BY <2>1, <1>1, LeastPicked
<1>3. CASE m = 0
  <2> DEFINE f == [k \in 0 .. 0 |-> b]
  <2>1. f \in [0 .. 0 -> S] /\ f[0] = b /\ \A k \in 1 .. 0 : f[k] = step[<<k, f[k - 1]>>]
    OBVIOUS
  <2>2. Ok(0)
    BY <2>1
  <2> QED
    BY <2>2, <1>3
<1>4. CASE m # 0
  <2>1. m \in 1 .. n /\ m - 1 \in 0 .. n /\ ~(m <= m - 1)
    BY <1>4
  <2>2. Ok(m - 1)
    BY <2>1, <1>2
  <2>3. PICK f \in [0 .. m - 1 -> S] :
          f[0] = b /\ \A k \in 1 .. m - 1 : f[k] = step[<<k, f[k - 1]>>]
    BY <2>2
  <2> DEFINE g == [k \in 0 .. m |-> IF k < m THEN f[k] ELSE step[<<m, f[m - 1]>>]]
  <2>4. /\ \A k \in 0 .. m : k < m => k \in 0 .. m - 1 /\ g[k] = f[k]
        /\ \A k \in 0 .. m : ~(k < m) => k = m
        /\ g[m] = step[<<m, f[m - 1]>>]
        /\ m - 1 \in 0 .. m - 1 /\ 0 \in 0 .. m /\ 0 < m
    BY <2>1
  <2>5. f[m - 1] \in S
    BY <2>3, <2>4
  <2>6. step[<<m, f[m - 1]>>] \in S
    BY <2>1, <2>5
  <2>7. \A k \in 0 .. m : g[k] \in S
    BY <2>3, <2>4, <2>6
  <2>8. g \in [0 .. m -> S]
    BY <2>7
  <2> HIDE DEF g
  <2>9. g[0] = b
    BY <2>4, <2>3
  <2>10. ASSUME NEW k \in 1 .. m PROVE g[k] = step[<<k, g[k - 1]>>]
    <3>1. k \in 0 .. m /\ k - 1 \in 0 .. m /\ k - 1 < m
      BY <2>1
    <3>2. g[k - 1] = f[k - 1]
      BY <3>1, <2>4
    <3>3. CASE k < m
      <4>1. k \in 1 .. m - 1
        BY <3>3, <2>1
      <4> QED
        BY <4>1, <3>1, <3>2, <3>3, <2>3, <2>4
    <3>4. CASE ~(k < m)
      BY <3>4, <3>1, <3>2, <2>4
    <3> QED
      BY <3>3, <3>4
  <2>11. Ok(m)
    BY <2>8, <2>9, <2>10
  <2> QED
    BY <2>11
<1> QED
  BY <1>3, <1>4

\* FlattenSeq: a list of lists as one list, with the members of all of them.
LEMMA FlattenList ==
  ASSUME NEW ss, IsList(ss), \A k \in DOMAIN ss : IsList(ss[k])
  PROVE  /\ IsList(FlattenSeq(ss))
         /\ ToSet(FlattenSeq(ss)) = UNION {ToSet(ss[k]) : k \in DOMAIN ss}
<1> DEFINE n == Len(ss)
           U(k) == UNION {ToSet(ss[j]) : j \in 1 .. k}
<1>1. n \in Nat /\ DOMAIN ss = 1 .. n
  BY ListDomain
<1>2. CASE n = 0
  <2>1. FlattenSeq(ss) = ss
    BY <1>2 DEF FlattenSeq
  <2>2. DOMAIN ss = {}
    BY <1>1, <1>2
  <2>3. ToSet(ss) = {}
    BY <2>2 DEF ToSet
  <2> QED
    BY <2>1, <2>2, <2>3
<1>3. CASE n # 0
  <2> DEFINE Def(g) == [i \in 1 .. n |-> IF i = 1 THEN ss[i] ELSE g[i - 1] \o ss[i]]
             F == CHOOSE g : g = Def(g)
  <2>1. FlattenSeq(ss) = F[n]
    BY <1>3, Zenon DEF FlattenSeq
  <2>2. \E g : g = Def(g)
    <3> DEFINE A == UNION {ToSet(ss[j]) : j \in 1 .. n}
               step == [p \in (1 .. n) \X Seq(A) |-> p[2] \o ss[p[1]]]
    <3>1. \A k \in 1 .. n : ss[k] \in Seq(A)
      <4> SUFFICES ASSUME NEW k \in 1 .. n PROVE ss[k] \in Seq(A)
        OBVIOUS
      <4>1. ss[k] \in Seq(ToSet(ss[k])) /\ ToSet(ss[k]) \subseteq A
        BY <1>1 DEF IsList
      <4> HIDE DEF A
      <4> QED
        BY <4>1
    <3> HIDE DEF A
    <3>0. \A k \in 1 .. n : \A v \in Seq(A) : step[<<k, v>>] = v \o ss[k]
      OBVIOUS
    <3> HIDE DEF step
    <3>2. \A k \in 1 .. n : \A v \in Seq(A) : v \o ss[k] \in Seq(A)
      BY <3>1
    <3>12. \A k \in 1 .. n : \A v \in Seq(A) : step[<<k, v>>] \in Seq(A)
      BY <3>0, <3>2
    <3>3. <<>> \in Seq(A)
      OBVIOUS
    <3>13. StepsWithin(step, n, Seq(A))
      BY <3>12 DEF StepsWithin
    <3>14. \E f \in [0 .. n -> Seq(A)] : Steps(f, step, n, <<>>)
      BY <1>1, <3>13, <3>3, Stepwise
    <3>4. PICK f \in [0 .. n -> Seq(A)] :
            f[0] = <<>> /\ \A k \in 1 .. n : f[k] = step[<<k, f[k - 1]>>]
      BY <3>14 DEF Steps
    <3>5. \A k \in 1 .. n : k - 1 \in 0 .. n /\ k \in 0 .. n
      BY <1>1
    <3>6. \A k \in 1 .. n : f[k] = f[k - 1] \o ss[k]
      BY <3>0, <3>4, <3>5
    <3>7. f[1] = ss[1] /\ 1 \in 1 .. n
      <4>1. 1 \in 1 .. n /\ 1 - 1 = 0
        BY <1>1, <1>3
      <4>2. f[1] = <<>> \o ss[1]
        BY <4>1, <3>4, <3>6
      <4> QED
        BY <4>1, <4>2, <3>1
    <3> DEFINE g == [k \in 1 .. n |-> f[k]]
    <3>8. \A k \in 1 .. n : k # 1 => g[k - 1] = f[k - 1]
      BY <1>1
    <3>9. \A i \in 1 .. n : g[i] = (IF i = 1 THEN ss[i] ELSE g[i - 1] \o ss[i])
      BY <3>6, <3>7, <3>8
    <3> HIDE DEF g
    <3>10. g = [k \in 1 .. n |-> g[k]]
      BY DEF g
    <3>11. g = Def(g)
      BY <3>9, <3>10
    <3> QED
      BY <3>11
  <2>3. F = Def(F)
    BY <2>2, ZenonT(60)
  <2>4. \A i \in 1 .. n : F[i] = (IF i = 1 THEN ss[i] ELSE F[i - 1] \o ss[i])
    BY Zenon, <2>3
  <2> HIDE DEF F, Def
  <2> DEFINE Ok(k) == IsList(F[k]) /\ ToSet(F[k]) = U(k)
             B == {k \in 1 .. n : ~Ok(k)}
  <2>5. B = {}
    <3> SUFFICES ASSUME B # {} PROVE FALSE
      OBVIOUS
    <3>1. PICK m \in B : \A y \in B : m <= y
      <4>1. B \in SUBSET Nat
        BY <1>1
      <4> HIDE DEF B
      <4> QED
        BY <4>1, LeastPicked
    <3>2. IsList(ss[m]) /\ m \in 1 .. n
      BY <1>1
    <3>3. CASE m = 1
      <4>1. F[m] = ss[m]
        BY <3>3, <3>2, <2>4
      <4>2. U(m) = ToSet(ss[m])
        BY <3>3
      <4> QED
        BY <4>1, <4>2, <3>2
    <3>4. CASE m # 1
      <4>1. m - 1 \in 1 .. n /\ ~(m <= m - 1)
        BY <3>4, <3>2, <1>1
      <4>2. Ok(m - 1)
        BY <4>1, <3>1
      <4>3. F[m] = F[m - 1] \o ss[m]
        BY <3>4, <3>2, <2>4
      <4>4. IsList(F[m]) /\ ToSet(F[m]) = ToSet(F[m - 1]) \cup ToSet(ss[m])
        BY <4>2, <4>3, <3>2, Concat
      <4>5. U(m) = U(m - 1) \cup ToSet(ss[m])
        <5>1. \A j \in 1 .. m : j = m \/ j \in 1 .. m - 1
          BY <3>2, <1>1
        <5>2. m \in 1 .. m /\ \A j \in 1 .. m - 1 : j \in 1 .. m
          BY <3>2, <1>1
        <5> QED
          BY <5>1, <5>2
      <4> QED
        BY <4>2, <4>4, <4>5
    <3> QED
      BY <3>3, <3>4
  <2>6. n \in 1 .. n
    BY <1>1, <1>3
  <2>7. Ok(n)
    BY <2>5, <2>6
  <2> QED
    BY <2>1, <2>7, <1>1
<1> QED
  BY <1>2, <1>3

(***************************************************************************)
(* Rows and lists of rows.                                                 *)
(***************************************************************************)
\* A row about neither the set of name servers nor the hops.
Alone(f) == f.probe # "transit.hop" /\ (f.probe = "dns.ns" => Attr(f, "host") = "")

\* Rows of these probes are what some property reads.
ReadProbes == {"dns.a", "dns.aaaa", "dns.mx", "dns.ns", "dns.caa", "dns.subdomain",
  "http.third_party", "ip.asn", "tls.issuer", "tls.validity", "http.securitytxt",
  "http.security_headers", "transit.hop", "http.variants", "whois.reseller", "whois.expiry",
  "whois.registrant_identity", "config.expected_registrant", "dns.soa", "whois.ns_holder",
  "dns.mx_routing", "dns.ns_hosting", "ip.hosting", "http.origin_map", "internetnl"}

\* The fields of a finding.
LEMMA FindingFields ==
  ASSUME NEW p, NEW s, NEW a
  PROVE  Finding(p, s, a).probe = p /\ Finding(p, s, a).subject = s /\ Finding(p, s, a).attrs = a
BY DEF Finding

\* A row no rule reads is true of every world, and stands alone.
LEMMA UnreadRow ==
  ASSUME NEW c, NEW f, f.probe \notin ReadProbes
  PROVE  RowTrue(c, f) /\ Alone(f)
BY DEF ReadProbes, RowTrue, NameTrue, SiteTrue, DoorsTrue, HolderTrue, SynthesisTrue, Alone

\* True rows stay true together.
LEMMA FaithfulUnion ==
  ASSUME NEW c, NEW S, NEW T, Faithful(c, S), Faithful(c, T)
  PROVE  Faithful(c, S \cup T)
BY Zenon DEF Faithful

\* Storing true rows behind true rows.
LEMMA FaithfulConcat ==
  ASSUME NEW c, NEW s, NEW t, FaithfulList(c, s), FaithfulList(c, t)
  PROVE  FaithfulList(c, s \o t)
BY Concat, FaithfulUnion DEF FaithfulList

\* Rows that stand alone.
LEMMA FaithfulAlone ==
  ASSUME NEW c, NEW s, IsList(s), \A f \in ToSet(s) : RowTrue(c, f) /\ Alone(f)
  PROVE  FaithfulList(c, s)
BY DEF FaithfulList, Faithful, Alone

\* No rows at all.
LEMMA FaithfulNone == \A c : FaithfulList(c, <<>>)
BY NoList, FaithfulAlone

\* One row that stands alone.
LEMMA FaithfulOne ==
  ASSUME NEW c, NEW f, RowTrue(c, f), Alone(f)
  PROVE  FaithfulList(c, <<f>>)
BY OneList, FaithfulAlone

\* Two rows that stand alone.
LEMMA FaithfulTwo ==
  ASSUME NEW c, NEW f, NEW g, RowTrue(c, f), Alone(f), RowTrue(c, g), Alone(g)
  PROVE  FaithfulList(c, <<f, g>>)
<1> DEFINE s == <<f, g>>
<1>1. DOMAIN s = 1 .. 2 /\ s[1] = f /\ s[2] = g /\ s = [i \in 1 .. 2 |-> s[i]]
  OBVIOUS
<1> HIDE DEF s
<1>2. IsList(s)
  BY <1>1, ListOf
<1>3. \A h \in ToSet(s) : h = f \/ h = g
  BY <1>1 DEF ToSet
<1> QED
  BY <1>2, <1>3, FaithfulAlone DEF s

\* A row that is only written when it is true.
LEMMA FaithfulOptional ==
  ASSUME NEW c, NEW f, NEW cond, cond => RowTrue(c, f) /\ Alone(f)
  PROVE  FaithfulList(c, Optional(cond, f))
BY FaithfulNone, FaithfulOne DEF Optional

\* A row per member of a list.
LEMMA EachList ==
  ASSUME NEW s, IsList(s), NEW t, t = [i \in DOMAIN s |-> t[i]]
  PROVE  /\ IsList(t)
         /\ \A f \in ToSet(t) : \E i \in DOMAIN s : s[i] \in ToSet(s) /\ f = t[i]
         /\ \A i \in DOMAIN s : t[i] \in ToSet(t)
<1>1. Len(s) \in Nat /\ DOMAIN s = 1 .. Len(s) /\ \A i \in DOMAIN s : s[i] \in ToSet(s)
  BY ListDomain
<1>2. IsList(t) /\ DOMAIN t = DOMAIN s
  BY <1>1, ListOf
<1> QED
  BY <1>1, <1>2 DEF ToSet

\* The image of a finite set.
LEMMA FiniteImage ==
  ASSUME NEW A, IsFiniteSet(A), NEW g, g = [a \in A |-> g[a]]
  PROVE  IsFiniteSet({g[a] : a \in A})
<1> DEFINE T == {g[a] : a \in A}
<1>1. g \in Surjection(A, T)
  BY DEF Surjection
<1> HIDE DEF T
<1>2. IsFiniteSet(T)
  BY <1>1, FS_Surjection
<1> QED
  BY <1>2 DEF T

\* What a name resolves to is a list.
LEMMA ResolveList ==
  ASSUME NEW x, IsWorld(x), NEW h
  PROVE  IsList(Resolve(x, h))
BY NoList DEF IsWorld, Resolve

(***************************************************************************)
(* dns                                                                     *)
(***************************************************************************)
\* A row that says a lookup failed or had no answer.
LEMMA ErrorRow ==
  ASSUME NEW c, NEW p \in {"dns.a", "dns.mx", "dns.ns", "dns.caa"}
  PROVE  FaithfulList(c, <<lookupError(c.world, p)>>)
<1> DEFINE f == lookupError(c.world, p)
<1>1. f.probe = p /\ f.subject = c.world.domain /\ f.attrs = [error |-> "failed"]
  BY FindingFields DEF lookupError
<1>2. DOMAIN f.attrs = {"error"}
  BY <1>1
<1>3. Attr(f, "host") = "" /\ "no_answer" \notin DOMAIN f.attrs
  BY <1>2 DEF Attr
<1> HIDE DEF f
<1>4. RowTrue(c, f) /\ Alone(f)
  BY <1>1, <1>3 DEF RowTrue, NameTrue, SiteTrue, DoorsTrue, HolderTrue, SynthesisTrue, Alone
<1> QED
  BY <1>4, FaithfulOne DEF f

\* The row of a lookup without an answer; for CAA it says that nothing
\* restricts the domain.
LEMMA NoAnswerRow ==
  ASSUME NEW c, NEW p \in {"dns.a", "dns.mx", "dns.caa"},
         p = "dns.caa" => \A k \in DOMAIN c.world.caa : c.world.caa[k] = {}
  PROVE  FaithfulList(c, <<noAnswer(c.world, p)>>)
<1> DEFINE f == noAnswer(c.world, p)
<1>1. f.probe = p /\ f.subject = c.world.domain /\ f.attrs = [no_answer |-> TRUE]
  BY FindingFields DEF noAnswer
<1>2. Attr(f, "host") = ""
  BY <1>1 DEF Attr
<1> HIDE DEF f
<1>4. RowTrue(c, f) /\ Alone(f)
  BY <1>1, <1>2 DEF RowTrue, NameTrue, SiteTrue, DoorsTrue, HolderTrue, SynthesisTrue, Alone
<1> QED
  BY <1>4, FaithfulOne DEF f

\* The address lookup of the dns probe.
LEMMA AddressRows ==
  ASSUME NEW c, IsWorld(c.world), NEW F
  PROVE  FaithfulList(c, addressFindings(c.world, F))
<1> DEFINE x == c.world
           addrs == Resolve(x, x.domain)
           Row(a) == Finding(IF a.v6 THEN "dns.aaaa" ELSE "dns.a", x.domain, [address |-> a.addr])
           t == [i \in DOMAIN addrs |-> Row(addrs[i])]
<1>1. \A a : RowTrue(c, Row(a)) /\ Alone(Row(a))
  <2> SUFFICES ASSUME NEW a PROVE RowTrue(c, Row(a)) /\ Alone(Row(a))
    OBVIOUS
  <2>1. Row(a).probe \in {"dns.a", "dns.aaaa"} /\ Row(a).subject = x.domain
    BY FindingFields
  <2> HIDE DEF Row
  <2> QED
    BY <2>1 DEF RowTrue, NameTrue, SiteTrue, DoorsTrue, HolderTrue, SynthesisTrue, Alone
<1>2. IsList(addrs)
  BY ResolveList
<1> HIDE DEF addrs, Row
<1>3. IsList(t) /\ \A f \in ToSet(t) : \E i \in DOMAIN addrs : f = t[i]
  BY <1>2, EachList
<1>4. FaithfulList(c, t)
  BY <1>1, <1>3, FaithfulAlone
<1> QED
  BY <1>4, ErrorRow, NoAnswerRow DEF addressFindings, Each, t, addrs, Row

\* The MX lookup of the dns probe, which orders its answers.
LEMMA MailRows ==
  ASSUME NEW c, IsWorld(c.world), NEW F
  PROVE  FaithfulList(c, mxFindings(c.world, F))
<1> DEFINE x == c.world
           Row(m) == Finding("dns.mx", x.domain, [host |-> m.host, preference |-> m.pref])
           s == InOrder(x.mx, [m \in x.mx |-> m.pref])
           t == [i \in DOMAIN s |-> Row(s[i])]
<1>1. ASSUME NEW m \in x.mx PROVE RowTrue(c, Row(m)) /\ Alone(Row(m))
  <2>1. Row(m).probe = "dns.mx" /\ Row(m).attrs = [host |-> m.host, preference |-> m.pref]
    BY FindingFields
  <2> HIDE DEF Row
  <2>3. "host" \in DOMAIN Row(m).attrs /\ Row(m).attrs["host"] = m.host
    BY <2>1
  <2>2. Attr(Row(m), "host") = m.host
    BY <2>3 DEF Attr
  <2> QED
    BY <2>1, <2>2 DEF RowTrue, NameTrue, SiteTrue, DoorsTrue, HolderTrue, SynthesisTrue, Alone
<1>2. IsList(s) /\ ToSet(s) \subseteq x.mx
  <2> DEFINE key == [m \in x.mx |-> m.pref]
  <2>1. IsFiniteSet(x.mx) /\ \A m \in x.mx : key[m] \in Int
    BY DEF IsWorld
  <2> HIDE DEF key
  <2>2. IsList(InOrder(x.mx, key)) /\ ToSet(InOrder(x.mx, key)) \subseteq x.mx
    BY <2>1, InOrderList
  <2> QED
    BY <2>2 DEF key
<1> HIDE DEF s, Row
<1>3. IsList(t) /\ \A f \in ToSet(t) : \E i \in DOMAIN s : s[i] \in ToSet(s) /\ f = t[i]
  BY <1>2, EachList
<1>4. FaithfulList(c, t)
  BY <1>1, <1>2, <1>3, FaithfulAlone
<1> QED
  BY <1>4, ErrorRow, NoAnswerRow DEF mxFindings, Each, t, s, Row

\* The NS lookup of the dns probe: all servers of the zone or none.
LEMMA NameServerRows ==
  ASSUME NEW c, IsWorld(c.world), NEW F
  PROVE  FaithfulList(c, nsFindings(c.world, F))
<1> DEFINE x == c.world
           s == Sorted(x.ns)
           t == [i \in DOMAIN s |-> nsFinding(x, s[i])]
<1>1. ASSUME NEW h \in x.ns
      PROVE  RowTrue(c, nsFinding(x, h)) /\ nsFinding(x, h).probe = "dns.ns"
  <2>1. nsFinding(x, h).probe = "dns.ns"
    BY FindingFields DEF nsFinding
  <2> QED
    BY <2>1 DEF RowTrue, NameTrue, SiteTrue, DoorsTrue, HolderTrue, SynthesisTrue
<1>2. IsList(s) /\ ToSet(s) = x.ns
  BY SortedList DEF IsWorld
<1>3. \A h \in x.ns : \E i \in DOMAIN s : s[i] = h
  BY <1>2, ListDomain
<1> HIDE DEF s
<1>4. /\ IsList(t)
      /\ \A f \in ToSet(t) : \E i \in DOMAIN s : s[i] \in ToSet(s) /\ f = t[i]
      /\ \A i \in DOMAIN s : t[i] \in ToSet(t)
  BY <1>2, EachList
<1>5. \A f \in ToSet(t) : RowTrue(c, f) /\ f.probe = "dns.ns"
  BY <1>1, <1>2, <1>4
<1>6. \A h \in x.ns : nsFinding(x, h) \in ToSet(t)
  BY <1>3, <1>4
<1>7. FaithfulList(c, t)
  <2> HIDE DEF t
  <2> QED
    BY <1>4, <1>5, <1>6 DEF FaithfulList, Faithful
<1> QED
  BY <1>7, ErrorRow DEF nsFindings, Each, t, s, nsFinding

\* The climb from the domain to its TLD that looks for CAA records.
LEMMA CaaRows ==
  ASSUME NEW c, IsWorld(c.world), NEW F
  PROVE  FaithfulList(c, caaFindings(c.world, F))
<1> DEFINE x == c.world
           stops == {k \in DOMAIN x.caa : x.caa[k] # {} \/ <<"caa", k>> \in F}
           k == Min(stops)
           Row(r) == Finding("dns.caa", x.domain, [tag |-> r.tag, value |-> r.value])
           s == Sorted(x.caa[k])
           t == [i \in DOMAIN s |-> Row(s[i])]
<1>1. \A r : RowTrue(c, Row(r)) /\ Alone(Row(r))
  <2> SUFFICES ASSUME NEW r PROVE RowTrue(c, Row(r)) /\ Alone(Row(r))
    OBVIOUS
  <2>1. Row(r).probe = "dns.caa" /\ Row(r).attrs = [tag |-> r.tag, value |-> r.value]
    BY FindingFields
  <2>2. "no_answer" \notin DOMAIN Row(r).attrs
    BY <2>1
  <2> HIDE DEF Row
  <2> QED
    BY <2>1, <2>2 DEF RowTrue, NameTrue, SiteTrue, DoorsTrue, HolderTrue, SynthesisTrue, Alone
<1>2. CASE stops = {}
  <2>1. \A j \in DOMAIN x.caa : x.caa[j] = {}
    BY <1>2
  <2>2. caaFindings(x, F) = <<noAnswer(x, "dns.caa")>>
    BY <1>2 DEF caaFindings
  <2> QED
    BY <2>1, <2>2, NoAnswerRow
<1>3. CASE stops # {}
  <2>1. IsList(x.caa)
    BY DEF IsWorld
  <2>2. stops \in SUBSET Nat
    BY <2>1, ListDomain
  <2>3. k \in DOMAIN x.caa
    <3> HIDE DEF stops
    <3>1. k \in stops
      BY <2>2, <1>3, LeastPicked
    <3> QED
      BY <3>1 DEF stops
  <2>4. IsList(s)
    BY <2>3, SortedList DEF IsWorld
  <2> HIDE DEF s, Row
  <2>5. IsList(t) /\ \A f \in ToSet(t) : \E i \in DOMAIN s : f = t[i]
    BY <2>4, EachList
  <2>6. FaithfulList(c, t)
    BY <1>1, <2>5, FaithfulAlone
  <2>7. caaFindings(x, F) = IF <<"caa", k>> \in F THEN <<lookupError(x, "dns.caa")>> ELSE t
    BY <1>3 DEF caaFindings, Each, s, Row
  <2> QED
    BY <2>6, <2>7, ErrorRow
<1> QED
  BY <1>2, <1>3

\* The subdomain sweep, which a wildcard silences.
LEMMA SweepRows ==
  ASSUME NEW c, IsWorld(c.world), NEW F
  PROVE  FaithfulList(c, subdomainSweep(c.world, F))
<1> DEFINE x == c.world
           hits == {h \in x.subs : Resolve(x, h) # <<>>}
           Row(h) == Finding("dns.subdomain", h, [source |-> "prefix_probe"])
           s == Sorted(hits)
           t == [i \in DOMAIN s |-> Row(s[i])]
<1>1. IsFiniteSet(hits)
  BY FS_Subset DEF IsWorld
<1>2. IsList(s) /\ ToSet(s) = hits
  BY <1>1, SortedList
<1>3. ASSUME ~Wildcard(x), NEW h \in hits PROVE RowTrue(c, Row(h)) /\ Alone(Row(h))
  <2>1. Row(h).probe = "dns.subdomain" /\ Row(h).subject = h /\ h \in x.subs
    BY FindingFields
  <2> HIDE DEF Row
  <2> QED
    BY <2>1, <1>3 DEF RowTrue, NameTrue, SiteTrue, DoorsTrue, HolderTrue, SynthesisTrue, Alone
<1>4. subdomainSweep(x, F) = IF <<"dns", "sweep">> \in F \/ Wildcard(x) THEN <<>> ELSE t
  BY DEF subdomainSweep, Wildcard, Each
<1> HIDE DEF s, Row
<1>5. IsList(t) /\ \A f \in ToSet(t) : \E i \in DOMAIN s : s[i] \in ToSet(s) /\ f = t[i]
  BY <1>2, EachList
<1>6. ~Wildcard(x) => FaithfulList(c, t)
  BY <1>2, <1>3, <1>5, FaithfulAlone
<1> QED
  BY <1>4, <1>6, FaithfulNone

\* The dns probe reports what is true, whatever fails.
LEMMA DnsTrue ==
  ASSUME NEW c, IsWorld(c.world), NEW F
  PROVE  FaithfulList(c, dnsRun(c.world, F))
BY AddressRows, MailRows, NameServerRows, CaaRows, SweepRows, FaithfulConcat DEF dnsRun

(***************************************************************************)
(* tls, whois, http, soa, transit                                          *)
(***************************************************************************)
\* The tls probe reports what is true, whatever fails.
LEMMA TlsTrue ==
  ASSUME NEW c, IsWorld(c.world), NEW F, NEW s \in tlsRun(c.world, F)
  PROVE  FaithfulList(c, s)
<1> DEFINE x == c.world
           validity == IF x.cert.left < 0 THEN [expired |-> TRUE]
                       ELSE IF x.cert.left < expiringSoonThresholdDays
                       THEN [expiring_soon |-> TRUE] ELSE [days_left |-> x.cert.left]
           issuer == [issuer_country |-> x.cert.countries, issuer_o |-> x.cert.org]
           I == Finding("tls.issuer", x.domain, issuer)
           V == Finding("tls.validity", x.domain, validity)
           Ct(h) == Finding("dns.subdomain", h, [source |-> "ct_log"])
<1>1. RowTrue(c, I) /\ Alone(I)
  <2>1. I.probe = "tls.issuer" /\ I.attrs = issuer
    BY FindingFields
  <2> HIDE DEF I
  <2>2. "issuer_country" \in DOMAIN I.attrs /\ I.attrs["issuer_country"] = x.cert.countries
    BY <2>1
  <2>3. Strs(I, "issuer_country") = x.cert.countries
    BY <2>2 DEF Strs
  <2> QED
    BY <2>1, <2>3 DEF RowTrue, NameTrue, SiteTrue, DoorsTrue, HolderTrue, SynthesisTrue, Alone
<1>2. RowTrue(c, V) /\ Alone(V)
  <2>1. V.probe = "tls.validity" /\ V.attrs = validity
    BY FindingFields
  <2>2. x.cert.left \in Int
    BY DEF IsWorld
  <2> HIDE DEF V
  <2>3. Flag(V, "expired") <=> x.cert.left < 0
    BY <2>1, <2>2 DEF Flag
  <2>4. Flag(V, "expiring_soon") <=> x.cert.left \in 0 .. expiringSoonThresholdDays - 1
    BY <2>1, <2>2 DEF Flag, expiringSoonThresholdDays
  <2> QED
    BY <2>1, <2>3, <2>4
       DEF RowTrue, NameTrue, SiteTrue, DoorsTrue, HolderTrue, SynthesisTrue, Alone
<1>4. FaithfulList(c, inspect(x, F))
  <2> DEFINE H == Finding("tls.handshake", x.domain, [error |-> "failed"])
             N == Finding("tls.verify", x.domain, [verified |-> FALSE])
  <2>1. RowTrue(c, H) /\ Alone(H) /\ RowTrue(c, N) /\ Alone(N)
    BY FindingFields, UnreadRow DEF ReadProbes
  <2>2. inspect(x, F) = IF ~x.cert.up \/ <<"tls", "dial">> \in F THEN <<H>>
                        ELSE Optional(~x.cert.verified, N) \o <<I, V>>
    BY DEF inspect
  <2> HIDE DEF H, N, I, V
  <2>3. FaithfulList(c, <<I, V>>)
    BY <1>1, <1>2, FaithfulTwo
  <2> QED
    BY <2>1, <2>2, <2>3, FaithfulOne, FaithfulOptional, FaithfulConcat
<1>5. ASSUME NEW u \in crtShLookup(x, F) PROVE FaithfulList(c, u)
  <2> DEFINE U == Finding("tls.ct", x.domain, [unavailable |-> TRUE, error |-> "failed"])
             T == Finding("tls.ct", x.domain, [total_entries |-> Cardinality(x.ct)])
             S == {Ct(h) : h \in x.ct}
  <2>1. RowTrue(c, U) /\ Alone(U) /\ RowTrue(c, T) /\ Alone(T)
    BY FindingFields, UnreadRow DEF ReadProbes
  <2>2. \/ u = <<U>>
        \/ \E v \in AnyOrder(S) : u = <<T>> \o v
    BY <1>5 DEF crtShLookup
  <2>3. IsFiniteSet(S)
    <3>1. IsFiniteSet(x.ct)
      BY DEF IsWorld
    <3> DEFINE g == [h \in x.ct |-> Ct(h)]
    <3>2. S = {g[h] : h \in x.ct}
      OBVIOUS
    <3>3. g = [h \in x.ct |-> g[h]]
      OBVIOUS
    <3> HIDE DEF g, S
    <3> QED
      BY <3>1, <3>2, <3>3, FiniteImage
  <2>4. ASSUME NEW h \in x.ct PROVE RowTrue(c, Ct(h)) /\ Alone(Ct(h))
    <3>1. Ct(h).probe = "dns.subdomain" /\ Ct(h).subject = h
      BY FindingFields
    <3> HIDE DEF Ct
    <3> QED
      BY <3>1 DEF RowTrue, NameTrue, SiteTrue, DoorsTrue, HolderTrue, SynthesisTrue, Alone
  <2>5. \A v \in AnyOrder(S) : FaithfulList(c, v)
    <3> SUFFICES ASSUME NEW v \in AnyOrder(S) PROVE FaithfulList(c, v)
      OBVIOUS
    <3>1. \A f \in S : RowTrue(c, f) /\ Alone(f)
      BY <2>4
    <3> HIDE DEF S
    <3> QED
      BY <3>1, <2>3, AnyOrderList, FaithfulAlone
  <2> HIDE DEF U, T, S
  <2> QED
    BY <2>1, <2>2, <2>5, FaithfulOne, FaithfulConcat
<1>6. PICK u \in crtShLookup(x, F) : s = inspect(x, F) \o u
  BY DEF tlsRun
<1> QED
  BY <1>4, <1>5, <1>6, FaithfulConcat

\* The whois probe reports what is true, whatever fails.
LEMMA WhoisTrue ==
  ASSUME NEW c, IsWorld(c.world), NEW F
  PROVE  FaithfulList(c, whoisRun(c.world, F))
<1> DEFINE x == c.world
           G == Finding("whois.unavailable", x.domain, [reason |-> "failed"])
           C == Finding("whois.registrant", x.domain, [country |-> vcardCountry(x.rdap)])
           N == registrantIdentityFinding(x)
           P == Finding("whois.reseller", x.domain, [present |-> x.rdap.reseller])
           E == expiryFinding(x)
<1>1. RowTrue(c, G) /\ Alone(G) /\ RowTrue(c, C) /\ Alone(C)
  BY FindingFields, UnreadRow DEF ReadProbes
<1>2. RowTrue(c, N) /\ Alone(N)
  <2> DEFINE nm == IF x.rdap.name = <<>> THEN <<"absent">> ELSE x.rdap.name
  <2>1. N.probe = "whois.registrant_identity" /\ N.attrs = [name |-> nm]
    BY FindingFields DEF registrantIdentityFinding
  <2>2. N.attrs.name = nm
    BY <2>1
  <2> HIDE DEF N
  <2> QED
    BY <2>1, <2>2 DEF RowTrue, NameTrue, SiteTrue, DoorsTrue, HolderTrue, SynthesisTrue, Alone
<1>3. RowTrue(c, P) /\ Alone(P)
  <2>1. P.probe = "whois.reseller" /\ P.attrs = [present |-> x.rdap.reseller]
    BY FindingFields
  <2>2. x.rdap.reseller \in BOOLEAN
    BY DEF IsWorld
  <2> HIDE DEF P
  <2>3. "present" \in DOMAIN P.attrs /\ P.attrs["present"] = x.rdap.reseller
    BY <2>1
  <2>4. Flag(P, "present") <=> x.rdap.reseller
    BY <2>2, <2>3, Zenon DEF Flag
  <2> QED
    BY <2>1, <2>4 DEF RowTrue, NameTrue, SiteTrue, DoorsTrue, HolderTrue, SynthesisTrue, Alone
<1>4. RowTrue(c, E) /\ Alone(E)
  <2>1. E.probe = "whois.expiry"
        /\ E.attrs = [present |-> x.rdap.expiry # <<>>, date |-> x.rdap.expiry]
    BY FindingFields DEF expiryFinding
  <2> HIDE DEF E
  <2>2. /\ "present" \in DOMAIN E.attrs /\ E.attrs["present"] = (x.rdap.expiry # <<>>)
        /\ E.attrs.date = x.rdap.expiry
    BY <2>1
  <2>3. Flag(E, "present") <=> x.rdap.expiry # <<>>
    BY <2>2 DEF Flag
  <2> QED
    BY <2>1, <2>2, <2>3
       DEF RowTrue, NameTrue, SiteTrue, DoorsTrue, HolderTrue, SynthesisTrue, Alone
<1> HIDE DEF G, C, N, P, E
<1>5. <<N, P, E>> = <<N, P>> \o <<E>>
  OBVIOUS
<1>6. FaithfulList(c, <<N, P, E>>)
  BY <1>2, <1>3, <1>4, <1>5, FaithfulOne, FaithfulTwo, FaithfulConcat
<1>7. FaithfulList(c, Optional(vcardCountry(x.rdap) # "", C) \o <<N, P, E>>)
  BY <1>1, <1>6, FaithfulOptional, FaithfulConcat
<1> QED
  BY <1>1, <1>7, FaithfulOne DEF whoisRun, buildFindings, G, C, N, P, E

\* The http probe reports what is true, whatever fails.
LEMMA HttpTrue ==
  ASSUME NEW c, IsWorld(c.world), NEW F, NEW s \in httpRun(c.world, F)
  PROVE  FaithfulList(c, s)
<1> DEFINE x == c.world
           T(h) == Finding("http.third_party", h, [kinds |-> {"script"}])
           S == {T(h) : h \in x.http.third}
           sec == fetchSecurityTxt(x, F)
           R == Finding("http.response", x.domain, [server |-> x.http.server])
           H(m) == Finding("http.security_headers", x.domain, [missing |-> m])
           D == Finding("http.scheme_downgrade", x.domain, [reason |-> "failed"])
           B == Finding("http.robots_blocked", x.domain, [fetched |-> TRUE])
           E == Finding("http.fetch_failed", x.domain, [error |-> "failed"])
<1>1. /\ RowTrue(c, R) /\ Alone(R) /\ RowTrue(c, D) /\ Alone(D)
      /\ RowTrue(c, B) /\ Alone(B) /\ RowTrue(c, E) /\ Alone(E)
  BY FindingFields, UnreadRow DEF ReadProbes
<1>2. RowTrue(c, sec) /\ Alone(sec)
  <2>1. \/ sec.probe = "http.securitytxt.unavailable"
        \/ sec.probe = "http.securitytxt" /\ sec.attrs = x.sectxt
    BY FindingFields DEF fetchSecurityTxt
  <2> HIDE DEF sec
  <2>2. CASE sec.probe = "http.securitytxt.unavailable"
    BY <2>2, UnreadRow DEF ReadProbes
  <2>3. CASE sec.probe = "http.securitytxt" /\ sec.attrs = x.sectxt
    BY <2>3 DEF RowTrue, NameTrue, SiteTrue, DoorsTrue, HolderTrue, SynthesisTrue, Alone
  <2> QED
    BY <2>1, <2>2, <2>3
<1>3. ASSUME NEW m \in {x.http.missing, x.http.missingPlain} PROVE RowTrue(c, H(m)) /\ Alone(H(m))
  <2>1. H(m).probe = "http.security_headers" /\ H(m).attrs = [missing |-> m]
    BY FindingFields
  <2> HIDE DEF H
  <2>2. Strs(H(m), "missing") = m
    BY <2>1 DEF Strs
  <2> QED
    BY <2>1, <2>2 DEF RowTrue, NameTrue, SiteTrue, DoorsTrue, HolderTrue, SynthesisTrue, Alone
<1>4. ASSUME NEW v \in AnyOrder(S) PROVE FaithfulList(c, v)
  <2>1. IsFiniteSet(S)
    <3>1. IsFiniteSet(x.http.third)
      BY DEF IsWorld
    <3> DEFINE g == [h \in x.http.third |-> T(h)]
    <3>2. S = {g[h] : h \in x.http.third}
      OBVIOUS
    <3>3. g = [h \in x.http.third |-> g[h]]
      OBVIOUS
    <3> HIDE DEF g, S
    <3> QED
      BY <3>1, <3>2, <3>3, FiniteImage
  <2>2. ASSUME NEW h \in x.http.third PROVE RowTrue(c, T(h)) /\ Alone(T(h))
    <3>1. T(h).probe = "http.third_party" /\ T(h).subject = h
      BY FindingFields
    <3> HIDE DEF T
    <3> QED
      BY <3>1 DEF RowTrue, NameTrue, SiteTrue, DoorsTrue, HolderTrue, SynthesisTrue, Alone
  <2>3. \A f \in S : RowTrue(c, f) /\ Alone(f)
    BY <2>2
  <2> HIDE DEF S
  <2> QED
    BY <1>4, <2>1, <2>3, AnyOrderList, FaithfulAlone
<1> DEFINE https == HttpsAnswers(x, F, "page")
           Page(m, v) == <<sec>> \o Optional(~https, D) \o responseFindings(x, m) \o v
<1>5. \/ s = <<B>>
      \/ s = <<sec>> \o <<E>>
      \/ \E m \in {x.http.missing, x.http.missingPlain} : \E v \in AnyOrder(S) : s = Page(m, v)
  BY DEF httpRun
<1>6. \A m : responseFindings(x, m) = <<R, H(m)>>
  BY DEF responseFindings
<1> HIDE DEF S, sec, R, H, D, B, E, https
<1>7. ASSUME NEW m \in {x.http.missing, x.http.missingPlain}, NEW v \in AnyOrder(S)
      PROVE  FaithfulList(c, Page(m, v))
  <2>2. FaithfulList(c, responseFindings(x, m))
    BY <1>1, <1>3, <1>6, FaithfulTwo
  <2>3. FaithfulList(c, <<sec>>) /\ FaithfulList(c, Optional(~https, D))
    BY <1>1, <1>2, FaithfulOne, FaithfulOptional
  <2> QED
    BY <2>2, <2>3, <1>4, FaithfulConcat
<1> HIDE DEF Page
<1> QED
  BY <1>1, <1>2, <1>5, <1>7, FaithfulOne, FaithfulConcat

\* The soa probe reports what is true; a failed follow-up lookup reads "no".
LEMMA SoaTrue ==
  ASSUME NEW c, IsWorld(c.world), NEW F
  PROVE  FaithfulList(c, soaRun(c.world, F))
<1> DEFINE x == c.world
           G == Finding("dns.soa.unavailable", x.domain, [reason |-> "failed"])
           B == Finding("dns.soa", x.domain, [rname_parse_error |-> "failed"])
           rs == Resolve(x, x.soa.mailbox) # <<>> /\ <<"soa", "host">> \notin F
           hm == x.soa.mx /\ <<"soa", "mx">> \notin F
           S == Finding("dns.soa", x.domain,
                        [mailbox_domain_resolves |-> rs, mailbox_domain_has_mx |-> hm])
<1>1. RowTrue(c, G) /\ Alone(G)
  BY FindingFields, UnreadRow DEF ReadProbes
<1>2. RowTrue(c, B) /\ Alone(B)
  <2>1. B.probe = "dns.soa" /\ B.attrs = [rname_parse_error |-> "failed"]
    BY FindingFields
  <2> HIDE DEF B
  <2>2. ~Flag(B, "mailbox_domain_resolves") /\ ~Flag(B, "mailbox_domain_has_mx")
    BY <2>1 DEF Flag
  <2> QED
    BY <2>1, <2>2 DEF RowTrue, NameTrue, SiteTrue, DoorsTrue, HolderTrue, SynthesisTrue, Alone
<1>3. RowTrue(c, S) /\ Alone(S)
  <2>1. /\ S.probe = "dns.soa"
        /\ S.attrs = [mailbox_domain_resolves |-> rs, mailbox_domain_has_mx |-> hm]
    BY FindingFields
  <2> HIDE DEF S
  <2>2. S.attrs["mailbox_domain_resolves"] = rs /\ S.attrs["mailbox_domain_has_mx"] = hm
    BY <2>1
  <2>3. Flag(S, "mailbox_domain_resolves") => Resolve(x, x.soa.mailbox) # <<>>
    BY <2>2, Zenon DEF Flag
  <2>4. Flag(S, "mailbox_domain_has_mx") => x.soa.mx
    BY <2>2, Zenon DEF Flag
  <2> QED
    BY <2>1, <2>3, <2>4
       DEF RowTrue, NameTrue, SiteTrue, DoorsTrue, HolderTrue, SynthesisTrue, Alone
<1>4. \/ soaRun(x, F) = <<G>>
      \/ soaRun(x, F) = <<B>>
      \/ soaRun(x, F) = <<S>>
  BY DEF soaRun
<1> HIDE DEF G, B, S
<1> QED
  BY <1>1, <1>2, <1>3, <1>4, FaithfulOne

\* The transit probe reports every hop of the route or none.
LEMMA TransitTrue ==
  ASSUME NEW c, IsWorld(c.world), NEW F
  PROVE  FaithfulList(c, transitRun(c.world, F))
<1> DEFINE x == c.world
           U == Finding("transit.unavailable", x.domain, [reason |-> "failed"])
           R == Finding("transit.resolve", x.domain, [error |-> "failed"])
           E == Finding("transit.error", x.domain, [error |-> "failed"])
           t == [k \in DOMAIN x.hops |-> hopFinding(x, k)]
<1>1. RowTrue(c, U) /\ Alone(U) /\ RowTrue(c, R) /\ Alone(R) /\ RowTrue(c, E) /\ Alone(E)
  BY FindingFields, UnreadRow DEF ReadProbes
<1>2. IsList(x.hops)
  BY DEF IsWorld
<1>3. /\ IsList(t)
      /\ \A f \in ToSet(t) : \E k \in DOMAIN x.hops : f = hopFinding(x, k)
      /\ \A k \in DOMAIN x.hops : hopFinding(x, k) \in ToSet(t)
  BY <1>2, EachList
<1>4. \A k : hopFinding(x, k).probe = "transit.hop"
  BY FindingFields DEF hopFinding
<1>5. \A k \in DOMAIN x.hops : RowTrue(c, hopFinding(x, k))
  <2> SUFFICES ASSUME NEW k \in DOMAIN x.hops PROVE RowTrue(c, hopFinding(x, k))
    OBVIOUS
  <2>1. hopFinding(x, k).probe = "transit.hop"
    BY <1>4
  <2> QED
    BY <2>1 DEF RowTrue, NameTrue, SiteTrue, DoorsTrue, HolderTrue, SynthesisTrue
<1>6. FaithfulList(c, t)
  <2> HIDE DEF t
  <2>1. \A f \in ToSet(t) : RowTrue(c, f) /\ f.probe = "transit.hop"
    BY <1>3, <1>4, <1>5
  <2> QED
    BY <1>3, <2>1 DEF FaithfulList, Faithful
<1>7. \/ transitRun(x, F) = <<U>> \/ transitRun(x, F) = <<R>>
      \/ transitRun(x, F) = <<E>> \/ transitRun(x, F) = t
  BY DEF transitRun
<1> HIDE DEF U, R, E, t
<1> QED
  BY <1>1, <1>6, <1>7, FaithfulOne

(***************************************************************************)
(* The second pass.                                                        *)
(***************************************************************************)
\* What true rows name, by the probe that named it.
LEMMA RowOf ==
  ASSUME NEW c, NEW fs, FaithfulList(c, fs), NEW p, NEW i \in Rows(fs, p)
  PROVE  /\ i \in DOMAIN fs /\ i \in 1 .. Len(fs) /\ Len(fs) \in Nat
         /\ fs[i].probe = p /\ fs[i] \in ToSet(fs) /\ RowTrue(c, fs[i])
<1>1. IsList(fs) /\ \A f \in ToSet(fs) : RowTrue(c, f)
  BY DEF FaithfulList, Faithful
<1> QED
  BY <1>1, ListDomain DEF Rows

\* The first and the last of some positions.
LEMMA FirstRowOf ==
  ASSUME NEW n \in Nat, NEW I \in SUBSET (1 .. n), I # {}
  PROVE  FirstRow(I) \in I /\ LastRow(I) \in I /\ \A i \in I : i <= LastRow(I)
<1>1. I \in SUBSET Nat /\ I \in SUBSET (0 .. n)
  OBVIOUS
<1> QED
  BY <1>1, LeastPicked, GreatestPicked DEF FirstRow, LastRow

\* What a name server row names.
LEMMA NsHost ==
  ASSUME NEW x, NEW h
  PROVE  Attr(nsFinding(x, h), "host") = h /\ nsFinding(x, h).probe = "dns.ns"
<1> DEFINE f == nsFinding(x, h)
<1>1. f.attrs = [host |-> h] /\ f.probe = "dns.ns"
  BY FindingFields DEF nsFinding
<1> HIDE DEF f
<1>2. "host" \in DOMAIN f.attrs /\ f.attrs["host"] = h
  BY <1>1
<1> QED
  BY <1>1, <1>2 DEF Attr, f

\* A mail row names a mail host of the world.
LEMMA MailHost ==
  ASSUME NEW c, NEW fs, FaithfulList(c, fs), NEW i \in Rows(fs, "dns.mx")
  PROVE  Attr(fs[i], "host") \in HostsAsked(c.world, "mx_vendor_jurisdiction") \cup {""}
BY ZenonT(60), RowOf DEF RowTrue, NameTrue, HostsAsked

\* A name server row names a server of the world.
LEMMA NameServerHost ==
  ASSUME NEW c, NEW fs, FaithfulList(c, fs), NEW i \in Rows(fs, "dns.ns")
  PROVE  Attr(fs[i], "host") \in HostsAsked(c.world, "ns_vendor_jurisdiction") \cup {""}
<1>1. RowTrue(c, fs[i]) /\ fs[i].probe = "dns.ns"
  BY RowOf
<1>2. Attr(fs[i], "host") = "" \/ \E h \in c.world.ns : fs[i] = nsFinding(c.world, h)
  BY <1>1 DEF RowTrue, NameTrue
<1>3. HostsAsked(c.world, "ns_vendor_jurisdiction") = c.world.ns
  BY DEF HostsAsked
<1>4. CASE Attr(fs[i], "host") = ""
  BY <1>4
<1>5. CASE Attr(fs[i], "host") # ""
  <2>1. PICK h \in c.world.ns : fs[i] = nsFinding(c.world, h)
    BY <1>2, <1>5
  <2>2. Attr(nsFinding(c.world, h), "host") = h
    BY NsHost
  <2>3. Attr(fs[i], "host") = h
    BY <2>1, <2>2
  <2> QED
    BY <1>3, <2>3
<1> QED
  BY <1>4, <1>5

\* Every related host is one the last question is about.
LEMMA RelatedAsked ==
  ASSUME NEW c, IsWorld(c.world), NEW fs, FaithfulList(c, fs)
  PROVE  LET r == expandRelatedFromFindings(c.world.domain, fs)
         IN  IsList(r) /\ ToSet(r) \subseteq HostsAsked(c.world, "no_us_hyperscaler")
<1> DEFINE x == c.world
           A == HostsAsked(x, "no_us_hyperscaler")
           S == (HostsNamed(fs) \cup SubjectsNamed(fs)) \ {x.domain, ""}
           M == {m.host : m \in x.mx}
<1>1. A = {x.domain} \cup M \cup x.ns \cup x.ct \cup x.http.third
            \cup (IF Wildcard(x) THEN {} ELSE x.subs)
  BY DEF HostsAsked
<1>2. \A i \in Rows(fs, "dns.mx") : Attr(fs[i], "host") \in M \cup {""}
  BY MailHost DEF HostsAsked
<1>3. \A i \in Rows(fs, "dns.ns") : Attr(fs[i], "host") \in x.ns \cup {""}
  BY NameServerHost DEF HostsAsked
<1>4. \A i \in Rows(fs, "http.third_party") : fs[i].subject \in x.http.third
  BY ZenonT(60), RowOf DEF RowTrue, NameTrue
<1>5. \A i \in Rows(fs, "dns.subdomain") :
        fs[i].subject \in x.ct \cup (IF Wildcard(x) THEN {} ELSE x.subs)
  BY ZenonT(60), RowOf DEF RowTrue, NameTrue
<1>6. S \subseteq A
  BY <1>1, <1>2, <1>3, <1>4, <1>5 DEF HostsNamed, SubjectsNamed
<1>7. IsFiniteSet(A)
  <2>1. /\ IsFiniteSet(x.mx) /\ IsFiniteSet(x.ns) /\ IsFiniteSet(x.ct)
        /\ IsFiniteSet(x.http.third) /\ IsFiniteSet(x.subs)
    BY DEF IsWorld
  <2>2. IsFiniteSet(M)
    <3> DEFINE g == [m \in x.mx |-> m.host]
    <3>1. M = {g[m] : m \in x.mx} /\ g = [m \in x.mx |-> g[m]]
      OBVIOUS
    <3> HIDE DEF g, M
    <3> QED
      BY <2>1, <3>1, FiniteImage
  <2>3. IsFiniteSet({x.domain})
    BY FS_Singleton
  <2>4. IsFiniteSet(IF Wildcard(x) THEN {} ELSE x.subs)
    BY <2>1, FS_EmptySet
  <2> HIDE DEF A, M
  <2>5. IsFiniteSet({x.domain} \cup M \cup x.ns)
    BY <2>1, <2>2, <2>3, FS_Union
  <2>6. IsFiniteSet({x.domain} \cup M \cup x.ns \cup x.ct \cup x.http.third)
    BY <2>1, <2>5, FS_Union
  <2> QED
    BY <1>1, <2>4, <2>6, FS_Union
<1>8. IsFiniteSet(S)
  <2> HIDE DEF S, A
  <2> QED
    BY <1>6, <1>7, FS_Subset
<1>9. IsList(Sorted(S)) /\ ToSet(Sorted(S)) = S
  <2> HIDE DEF S
  <2> QED
    BY <1>8, SortedList
<1> QED
  BY <1>6, <1>9 DEF expandRelatedFromFindings

\* The ip probe on one host.
LEMMA IpHostTrue ==
  ASSUME NEW c, IsWorld(c.world), NEW F, NEW h \in HostsAsked(c.world, "no_us_hyperscaler")
  PROVE  FaithfulList(c, ipHost(c.world, F, h))
<1> DEFINE x == c.world
           s == Resolve(x, h)
           E(a) == Finding("ip.lookup", h, [address |-> a.addr, error |-> "failed"])
           A(a) == Finding("ip.asn", h, [address |-> a.addr, organisation |-> a.org,
                                         country |-> a.country])
           Row(a) == IF <<"geo", a.addr>> \in F THEN E(a) ELSE A(a)
           N == Finding("ip.resolve", h, [error |-> "failed"])
           t == [i \in DOMAIN s |-> Row(s[i])]
<1>1. RowTrue(c, N) /\ Alone(N) /\ \A a : RowTrue(c, E(a)) /\ Alone(E(a))
  BY FindingFields, UnreadRow DEF ReadProbes
<1>2. ASSUME NEW a \in ToSet(s) PROVE RowTrue(c, A(a)) /\ Alone(A(a))
  <2>1. /\ A(a).probe = "ip.asn" /\ A(a).subject = h
        /\ A(a).attrs = [address |-> a.addr, organisation |-> a.org, country |-> a.country]
    BY FindingFields
  <2> HIDE DEF A
  <2>2. /\ "organisation" \in DOMAIN A(a).attrs /\ A(a).attrs["organisation"] = a.org
        /\ "country" \in DOMAIN A(a).attrs /\ A(a).attrs["country"] = a.country
    BY <2>1
  <2>3. SaysOf(A(a), a)
    BY <2>2 DEF SaysOf, Attr
  <2> QED
    BY <2>1, <2>3, <1>2
       DEF RowTrue, NameTrue, SiteTrue, DoorsTrue, HolderTrue, SynthesisTrue, Alone
<1>3. IsList(s)
  BY ResolveList
<1> HIDE DEF s, E, A, N
<1>4. IsList(t) /\ \A f \in ToSet(t) : \E i \in DOMAIN s : s[i] \in ToSet(s) /\ f = t[i]
  BY ZenonT(60), <1>3, EachList
<1>5. FaithfulList(c, t)
  <2>1. ASSUME NEW f \in ToSet(t) PROVE RowTrue(c, f) /\ Alone(f)
    <3>1. PICK i \in DOMAIN s : s[i] \in ToSet(s) /\ f = t[i]
      BY <1>4
    <3>2. f = E(s[i]) \/ f = A(s[i])
      BY <3>1
    <3> QED
      BY <1>1, <1>2, <3>1, <3>2
  <2> HIDE DEF t
  <2> QED
    BY <1>4, <2>1, FaithfulAlone
<1>6. ipHost(x, F, h) = <<N>> \/ ipHost(x, F, h) = t
  BY DEF ipHost, Each, s, E, A, N
<1> QED
  BY <1>1, <1>5, <1>6, FaithfulOne

\* Lists of true rows, flattened.
LEMMA FlattenTrue ==
  ASSUME NEW c, NEW ss, IsList(ss), \A k \in DOMAIN ss : FaithfulList(c, ss[k])
  PROVE  FaithfulList(c, FlattenSeq(ss))
<1>1. /\ IsList(FlattenSeq(ss))
      /\ ToSet(FlattenSeq(ss)) = UNION {ToSet(ss[k]) : k \in DOMAIN ss}
  BY FlattenList DEF FaithfulList
<1>2. \A k \in DOMAIN ss : Faithful(c, ToSet(ss[k]))
  BY DEF FaithfulList
<1> DEFINE S == ToSet(FlattenSeq(ss))
<1>3. /\ \A f \in S : \E k \in DOMAIN ss : f \in ToSet(ss[k])
      /\ \A k \in DOMAIN ss : ToSet(ss[k]) \subseteq S
  BY <1>1
<1> HIDE DEF S
<1>4. Faithful(c, S)
  BY <1>2, <1>3, Zenon DEF Faithful
<1> QED
  BY <1>1, <1>4 DEF FaithfulList, S

\* The ip probe on the domain and the related hosts.
LEMMA IpTrue ==
  ASSUME NEW c, IsWorld(c.world), NEW F, NEW r, IsList(r),
         ToSet(r) \subseteq HostsAsked(c.world, "no_us_hyperscaler")
  PROVE  FaithfulList(c, ipRun(c.world, F, r))
<1> DEFINE x == c.world
           why == [reason |-> "no geoip database"]
           U == Finding("ip.unavailable", x.domain, why)
<1> HIDE DEF why
<1>1. RowTrue(c, U) /\ Alone(U)
  <2>1. U.probe = "ip.unavailable"
    BY FindingFields
  <2>2. U.probe \notin ReadProbes
    BY <2>1 DEF ReadProbes
  <2> HIDE DEF U
  <2> QED
    BY <2>2, UnreadRow
<1> DEFINE n == Len(r) + 1
           H(k) == IF k = 1 THEN x.domain ELSE r[k - 1]
           ss == [k \in 1 .. n |-> ipHost(x, F, H(k))]
<1>2. n \in Nat /\ DOMAIN r = 1 .. Len(r) /\ Len(r) \in Nat /\ \A i \in DOMAIN r : r[i] \in ToSet(r)
  BY ListDomain
<1>3. x.domain \in HostsAsked(x, "no_us_hyperscaler")
  BY DEF HostsAsked
<1>4. \A k \in 1 .. n : H(k) \in HostsAsked(x, "no_us_hyperscaler")
  <2>1. \A k \in 1 .. n : k # 1 => k - 1 \in DOMAIN r
    BY <1>2
  <2> QED
    BY <2>1, <1>2, <1>3
<1>5. \A k \in 1 .. n : FaithfulList(c, ss[k])
  <2> HIDE DEF H, n
  <2> QED
    BY <1>4, IpHostTrue
<1>6. IsList(ss) /\ DOMAIN ss = 1 .. n
  <2>1. ss = [k \in 1 .. n |-> ss[k]]
    OBVIOUS
  <2> HIDE DEF ss, n
  <2> QED
    BY <2>1, <1>2, ListOf
<1>7. FaithfulList(c, FlattenSeq(ss))
  <2> HIDE DEF ss
  <2> QED
    BY <1>5, <1>6, FlattenTrue
<1>8. ipRun(x, F, r) = <<U>> \/ ipRun(x, F, r) = FlattenSeq(ss)
  BY DEF ipRun, why
<1> HIDE DEF U, ss
<1> QED
  BY <1>1, <1>7, <1>8, FaithfulOne

\* scan.Findings.
LEMMA MemoryTrue ==
  ASSUME NEW c, NEW m, \A p \in ToSet(Registered) : FaithfulList(c, m[p])
  PROVE  FaithfulList(c, InMemory(m))
<1> DEFINE ss == [k \in DOMAIN Registered |-> m[Registered[k]]]
<1>1. DOMAIN Registered = 1 .. 7
  BY DEF Registered
<1>2. \A k \in 1 .. 7 : FaithfulList(c, ss[k])
  BY <1>1 DEF ToSet
<1>3. ss = [k \in 1 .. 7 |-> ss[k]]
  BY <1>1
<1> HIDE DEF ss
<1>4. IsList(ss) /\ DOMAIN ss = 1 .. 7
  BY <1>3, ListOf
<1>5. FaithfulList(c, FlattenSeq(ss))
  BY <1>2, <1>4, FlattenTrue
<1> QED
  BY <1>5 DEF InMemory, ss

(***************************************************************************)
(* The syntheses.                                                          *)
(***************************************************************************)
\* What is said of a host is nothing or what GeoIP says of one of its addresses.
HostGeo(x, h, G) == G = NoGeo \/ \E g \in ToSet(Resolve(x, h)) : G.organisation = g.org
                                                              /\ G.country = g.country

\* What a synthesis makes of the ip.asn rows of a host.
LEMMA GeoTrue ==
  ASSUME NEW c, NEW fs, FaithfulList(c, fs), NEW h,
         NEW I \in SUBSET Rows(fs, "ip.asn"), \A i \in I : fs[i].subject = h
  PROVE  HostGeo(c.world, h, GeoOf(fs, I))
<1>1. CASE I = {}
  BY <1>1 DEF HostGeo, GeoOf
<1>2. CASE I # {}
  <2>1. IsList(fs)
    BY DEF FaithfulList
  <2>2. I \in SUBSET (1 .. Len(fs)) /\ Len(fs) \in Nat
    BY <2>1, ListDomain DEF Rows
  <2> DEFINE i == FirstRow(I)
  <2>3. i \in I
    BY <2>2, <1>2, FirstRowOf
  <2> HIDE DEF i
  <2>4. RowTrue(c, fs[i]) /\ fs[i].probe = "ip.asn" /\ fs[i].subject = h
    BY <2>3, RowOf
  <2>5. \E g \in ToSet(Resolve(c.world, h)) : SaysOf(fs[i], g)
    BY <2>4 DEF RowTrue, NameTrue
  <2>6. GeoOf(fs, I) = [organisation |-> Attr(fs[i], "organisation"),
                        country      |-> Attr(fs[i], "country")]
    BY <1>2 DEF GeoOf, i
  <2> QED
    BY <2>5, <2>6 DEF HostGeo, SaysOf
<1> QED
  BY <1>1, <1>2

\* asnByHost says of a host what is true of it.
LEMMA AsnOfHost ==
  ASSUME NEW c, NEW fs, FaithfulList(c, fs), NEW h
  PROVE  HostGeo(c.world, h, asnByHost(fs, h))
BY GeoTrue DEF asnByHost

\* The fields of what is said of no host.
LEMMA NoGeoFields == NoGeo.organisation = "" /\ NoGeo.country = ""
BY DEF NoGeo

\* A host's operator is among those of the question the host is asked for.
LEMMA OperatorKnown ==
  ASSUME NEW x, NEW id, NEW h \in HostsAsked(x, id), NEW table, NEW G, HostGeo(x, h, G)
  PROVE  operatorBySuffix(h, table, G.organisation) \in OperatorsOf(x, id, table)
<1> DEFINE Op(o) == operatorBySuffix(h, table, o)
           Mine == {Op(g.org) : g \in ToSet(Resolve(x, h))} \cup {Op("")}
<1>1. Mine \subseteq OperatorsOf(x, id, table)
  BY Zenon DEF OperatorsOf
<1>2. Op(G.organisation) \in Mine
  <2>1. G.organisation = "" \/ \E g \in ToSet(Resolve(x, h)) : G.organisation = g.org
    BY NoGeoFields DEF HostGeo
  <2> HIDE DEF Op
  <2> QED
    BY <2>1
<1> QED
  BY <1>1, <1>2

\* One position per route.
LEMMA EachAscending ==
  ASSUME NEW fs, IsList(fs), NEW I \in SUBSET DOMAIN fs, NEW s, s = Ascending(I)
  PROVE  IsList(s) /\ \A k \in DOMAIN s : s[k] \in I
<1>1. I \in SUBSET (1 .. Len(fs)) /\ Len(fs) \in Nat
  BY ListDomain
<1>2. IsList(s) /\ ToSet(s) \subseteq I
  BY <1>1, AscendingList
<1> QED
  BY <1>2, ListDomain

\* The operators a synthesis names for the hosts it was asked about.
LEMMA RoutesTrue ==
  ASSUME NEW c, NEW fs, FaithfulList(c, fs), NEW id, NEW table,
         NEW I \in SUBSET DOMAIN fs,
         \A i \in I : Attr(fs[i], "host") \in HostsAsked(c.world, id)
  PROVE  LET r == HostRoutes(fs, I, table)
         IN  /\ IsList(r)
             /\ \A k \in DOMAIN r : r[k].operator \in OperatorsOf(c.world, id, table)
<1> DEFINE s == Ascending(I)
           h(i) == Attr(fs[i], "host")
           R(i) == [operator |-> operatorBySuffix(h(i), table, asnByHost(fs, h(i)).organisation),
                    country  |-> asnByHost(fs, h(i)).country]
           r == [k \in DOMAIN s |-> R(s[k])]
<1>1. HostRoutes(fs, I, table) = r
  BY DEF HostRoutes, Each
<1>2. IsList(s) /\ \A k \in DOMAIN s : s[k] \in I
  BY EachAscending DEF FaithfulList
<1>4. IsList(r)
  <2>1. r = [k \in DOMAIN s |-> r[k]]
    OBVIOUS
  <2> HIDE DEF r, s
  <2> QED
    BY <1>2, <2>1, EachList
<1>3. ASSUME NEW k \in DOMAIN s PROVE r[k].operator \in OperatorsOf(c.world, id, table)
  <2>1. h(s[k]) \in HostsAsked(c.world, id)
    BY <1>2
  <2>2. HostGeo(c.world, h(s[k]), asnByHost(fs, h(s[k])))
    BY AsnOfHost
  <2>3. r[k].operator = operatorBySuffix(h(s[k]), table, asnByHost(fs, h(s[k])).organisation)
    OBVIOUS
  <2> HIDE DEF r, h, s
  <2> QED
    BY <2>1, <2>2, <2>3, OperatorKnown
<1> QED
  BY <1>1, <1>3, <1>4

\* The mail routing synthesis names true operators.
LEMMA MailRoutingTrue ==
  ASSUME NEW c, NEW fs, FaithfulList(c, fs)
  PROVE  FaithfulList(c, synthesiseMailRouting(c.world.domain, fs))
<1> DEFINE x == c.world
           id == "mx_vendor_jurisdiction"
           I == Named(fs, "dns.mx")
           r == HostRoutes(fs, I, mailOperatorSuffixes)
           f == Finding("dns.mx_routing", x.domain, [routes |-> r])
<1>1. I \in SUBSET DOMAIN fs /\ \A i \in I : Attr(fs[i], "host") \in HostsAsked(x, id)
  BY MailHost DEF Named, Rows
<1>2. IsList(r) /\ \A k \in DOMAIN r : r[k].operator \in OperatorsOf(x, id, mailOperatorSuffixes)
  <2> HIDE DEF I, id
  <2> QED
    BY <1>1, RoutesTrue
<1> HIDE DEF r
<1>3. f.probe = "dns.mx_routing" /\ f.attrs = [routes |-> r]
  BY FindingFields
<1>4. synthesiseMailRouting(x.domain, fs) = Optional(Has(fs, "dns.mx"), f)
  BY DEF synthesiseMailRouting, r
<1> HIDE DEF f
<1>5. f.attrs.routes = r
  BY <1>3
<1>6. RoutesAmong(f, OperatorsOf(x, id, mailOperatorSuffixes))
  BY <1>2, <1>5 DEF RoutesAmong
<1>7. RowTrue(c, f) /\ Alone(f)
  BY <1>3, <1>6 DEF RowTrue, NameTrue, SiteTrue, DoorsTrue, HolderTrue, SynthesisTrue, Alone
<1> QED
  BY <1>4, <1>7, FaithfulOptional

\* The dns hosting synthesis names true operators.
LEMMA DnsHostingTrue ==
  ASSUME NEW c, NEW fs, FaithfulList(c, fs)
  PROVE  FaithfulList(c, synthesiseDNSHosting(c.world.domain, fs))
<1> DEFINE x == c.world
           id == "ns_vendor_jurisdiction"
           I == Named(fs, "dns.ns")
           r == HostRoutes(fs, I, dnsOperatorSuffixes)
           f == Finding("dns.ns_hosting", x.domain, [routes |-> r])
<1>1. I \in SUBSET DOMAIN fs /\ \A i \in I : Attr(fs[i], "host") \in HostsAsked(x, id)
  BY NameServerHost DEF Named, Rows
<1>2. IsList(r) /\ \A k \in DOMAIN r : r[k].operator \in OperatorsOf(x, id, dnsOperatorSuffixes)
  <2> HIDE DEF I, id
  <2> QED
    BY <1>1, RoutesTrue
<1> HIDE DEF r
<1>3. f.probe = "dns.ns_hosting" /\ f.attrs = [routes |-> r]
  BY FindingFields
<1>4. synthesiseDNSHosting(x.domain, fs) = Optional(Has(fs, "dns.ns"), f)
  BY DEF synthesiseDNSHosting, r
<1> HIDE DEF f
<1>5. f.attrs.routes = r
  BY <1>3
<1>6. RoutesAmong(f, OperatorsOf(x, id, dnsOperatorSuffixes))
  BY <1>2, <1>5 DEF RoutesAmong
<1>7. RowTrue(c, f) /\ Alone(f)
  BY <1>3, <1>6 DEF RowTrue, NameTrue, SiteTrue, DoorsTrue, HolderTrue, SynthesisTrue, Alone
<1> QED
  BY <1>4, <1>7, FaithfulOptional

\* The hosting synthesis names operators of the apex.
LEMMA HostingIdentityTrue ==
  ASSUME NEW c, NEW fs, FaithfulList(c, fs)
  PROVE  FaithfulList(c, synthesiseHostingIdentity(c.world.domain, fs))
<1> DEFINE x == c.world
           d == x.domain
           A == {i \in Rows(fs, "dns.a") \cup Rows(fs, "dns.aaaa") : fs[i].subject = d}
           apex == {i \in Rows(fs, "ip.asn") : fs[i].subject = d}
           addressed == {i \in A : Attr(fs[i], "address") # ""}
           G(i) == GeoOf(fs, {j \in apex : Attr(fs[j], "address") = Attr(fs[i], "address")})
           R(i) == [operator |-> hostingOperator(G(i).organisation), country |-> G(i).country]
           s == Ascending(addressed)
           t == [k \in DOMAIN s |-> R(s[k])]
           r == IF apex = {} THEN <<>> ELSE t
           f == Finding("ip.hosting", d, [routes |-> r])
           S == {hostingOperator(g.org) : g \in Geos(x, "apex_ip_eea")}
<1>1. ASSUME NEW i PROVE hostingOperator(G(i).organisation) \in S \cup {""}
  <2>1. HostGeo(x, d, G(i))
    BY GeoTrue
  <2>2. hostingOperator("") = ""
    BY DEF hostingOperator, Known, hostingOperators
  <2>3. ToSet(Resolve(x, d)) = Geos(x, "apex_ip_eea")
    BY DEF Geos, HostsAsked
  <2>4. \/ G(i).organisation = ""
        \/ \E g \in Geos(x, "apex_ip_eea") : G(i).organisation = g.org
    BY <2>1, <2>3, NoGeoFields DEF HostGeo
  <2> HIDE DEF G
  <2> QED
    BY <2>2, <2>4
<1>2. IsList(r) /\ \A k \in DOMAIN r : r[k].operator \in S \cup {""}
  <2>0. IsList(t)
    <3>1. IsList(fs) /\ addressed \in SUBSET DOMAIN fs
      BY DEF FaithfulList, Rows
    <3>2. IsList(s)
      <4> HIDE DEF addressed
      <4> QED
        BY <3>1, EachAscending
    <3>3. t = [k \in DOMAIN s |-> t[k]]
      OBVIOUS
    <3> HIDE DEF t, s
    <3> QED
      BY <3>2, <3>3, EachList
  <2>1. \A k \in DOMAIN s : t[k].operator \in S \cup {""}
    BY <1>1
  <2>2. DOMAIN t = DOMAIN s
    OBVIOUS
  <2> HIDE DEF t, s, S
  <2>3. CASE apex = {}
    <3>1. r = <<>>
      BY <2>3
    <3>2. DOMAIN <<>> = {}
      OBVIOUS
    <3> HIDE DEF r
    <3> QED
      BY <3>1, <3>2, NoList
  <2>4. CASE apex # {}
    <3>1. r = t
      BY <2>4
    <3> HIDE DEF r
    <3> QED
      BY <3>1, <2>0, <2>1, <2>2
  <2> QED
    BY <2>3, <2>4
<1>3. synthesiseHostingIdentity(d, fs) = Optional(A # {}, f)
  BY DEF synthesiseHostingIdentity, Each
<1> HIDE DEF r
<1>4. f.probe = "ip.hosting" /\ f.attrs = [routes |-> r]
  BY FindingFields
<1> HIDE DEF f, A
<1>5. f.attrs.routes = r
  BY <1>4
<1>6. RoutesAmong(f, S)
  BY <1>2, <1>5 DEF RoutesAmong
<1>7. RowTrue(c, f) /\ Alone(f)
  BY <1>4, <1>6 DEF RowTrue, NameTrue, SiteTrue, DoorsTrue, HolderTrue, SynthesisTrue, Alone
<1> QED
  BY <1>3, <1>7, FaithfulOptional

\* The image of a set of positions.
LEMMA FinitePositions ==
  ASSUME NEW fs, IsList(fs), NEW T \in SUBSET DOMAIN fs, NEW g, g = [i \in T |-> g[i]]
  PROVE  IsFiniteSet({g[i] : i \in T})
<1>1. IsFiniteSet(1 .. Len(fs)) /\ T \subseteq 1 .. Len(fs)
  <2>1. DOMAIN fs = 1 .. Len(fs) /\ Len(fs) \in Nat
    BY ListDomain
  <2>2. 1 \in Int /\ Len(fs) \in Int
    BY <2>1
  <2>3. IsFiniteSet(1 .. Len(fs))
    BY <2>2, FS_Interval
  <2> QED
    BY <2>1, <2>3
<1> QED
  BY <1>1, FS_Subset, FiniteImage

\* The origin map puts a vendor outside the EEA only when it is there.
LEMMA OriginMapTrue ==
  ASSUME NEW c, NEW fs, FaithfulList(c, fs)
  PROVE  FaithfulList(c, synthesiseOriginMap(c.world.domain, fs))
<1> DEFINE x == c.world
           T == Rows(fs, "http.third_party")
           G(i) == asnByHost(fs, fs[i].subject)
           Op(i) == operatorBySuffix(fs[i].subject, thirdPartyVendorSuffixes, G(i).organisation)
           Vendor(i) == IF Op(i) = "" THEN fs[i].subject ELSE Op(i)
           Country(i) == G(i).country
           at(v) == {i \in T : Vendor(i) = v /\ Country(i) # ""}
           Entry(v) == [vendor |-> v, country |-> IF at(v) = {} THEN ""
                                                  ELSE Country(FirstRow(at(v)))]
           V == {Vendor(i) : i \in T}
           s == Sorted(V)
           t == [k \in DOMAIN s |-> Entry(s[k])]
           f == Finding("http.origin_map", x.domain, [vendors |-> t])
<1>1. IsList(fs) /\ T \in SUBSET DOMAIN fs
  BY DEF FaithfulList, Rows
<1>2. ASSUME NEW i \in T, Country(i) \notin eeaCountries \cup {""}
      PROVE  Vendor(i) \in OutsideVendors(x)
  <2> DEFINE h == fs[i].subject
  <2>1. h \in x.http.third
    BY ZenonT(60), RowOf DEF RowTrue, NameTrue
  <2>2. HostGeo(x, h, G(i))
    BY AsnOfHost
  <2>3. PICK g \in ToSet(Resolve(x, h)) : G(i).organisation = g.org /\ G(i).country = g.country
    BY <1>2, <2>2, NoGeoFields DEF HostGeo
  <2>4. OutsideEEA(g)
    BY <1>2, <2>3 DEF OutsideEEA
  <2> DEFINE Mine == {h} \cup {operatorBySuffix(h, thirdPartyVendorSuffixes, y.org) :
                                 y \in {z \in ToSet(Resolve(x, h)) : OutsideEEA(z)}}
  <2>5. Mine \subseteq OutsideVendors(x)
    BY <2>1, Zenon DEF OutsideVendors
  <2>6. Op(i) = operatorBySuffix(h, thirdPartyVendorSuffixes, g.org)
    BY <2>3
  <2>7. Op(i) \in Mine /\ h \in Mine
    <3> HIDE DEF Op
    <3> QED
      BY <2>3, <2>4, <2>6
  <2> HIDE DEF Mine
  <2> QED
    BY <2>5, <2>7
<1>3. ASSUME NEW k \in DOMAIN s, t[k].country \notin eeaCountries \cup {""}
      PROVE  t[k].vendor \in OutsideVendors(x)
  <2> DEFINE v == s[k]
             i == FirstRow(at(v))
  <2>1. at(v) # {} /\ t[k].country = Country(i) /\ t[k].vendor = v
    BY ZenonT(60), <1>3
  <2>2. i \in at(v)
    <3>1. at(v) \in SUBSET (1 .. Len(fs)) /\ Len(fs) \in Nat
      BY ZenonT(60), <1>1, ListDomain
    <3> HIDE DEF at
    <3> QED
      BY Zenon, <3>1, <2>1, FirstRowOf
  <2>3. i \in T /\ Vendor(i) = v
    BY Zenon, <2>2
  <2> HIDE DEF i, v, Country, Vendor, s, T
  <2> QED
    BY <1>2, <1>3, <2>1, <2>3
<1>4. synthesiseOriginMap(x.domain, fs) = Optional(T # {} \/ Has(fs, "http.response"), f)
  BY DEF synthesiseOriginMap, Each
<1>5. DOMAIN t = DOMAIN s /\ IsList(t)
  <2>1. IsFiniteSet(V)
    <3> DEFINE g == [i \in T |-> Vendor(i)]
    <3>1. g = [i \in T |-> g[i]] /\ V = {g[i] : i \in T}
      OBVIOUS
    <3> HIDE DEF g, V, T
    <3> QED
      BY <1>1, <3>1, FinitePositions
  <2>2. IsList(s)
    <3> HIDE DEF V
    <3> QED
      BY SMTT(40), <2>1, SortedList
  <2>3. t = [k \in DOMAIN s |-> t[k]]
    BY Zenon
  <2> HIDE DEF t, s
  <2> QED
    BY <2>2, <2>3, EachList
<1> HIDE DEF t, s
<1>6. f.probe = "http.origin_map" /\ f.attrs = [vendors |-> t]
  BY FindingFields
<1> HIDE DEF f, T
<1>7. f.attrs.vendors = t
  BY <1>6
<1>8. RowTrue(c, f) /\ Alone(f)
  BY <1>3, <1>5, <1>6, <1>7
     DEF RowTrue, NameTrue, SiteTrue, DoorsTrue, HolderTrue, SynthesisTrue, Alone
<1> QED
  BY <1>4, <1>8, FaithfulOptional

\* The row about a content delivery network in front of the apex.
LEMMA EdgeTrue ==
  ASSUME NEW c, NEW fs, NEW d
  PROVE  FaithfulList(c, synthesiseCDNFront(d, fs)) /\ FaithfulList(c, synthesiseCertChain(d, fs))
<1>1. ASSUME NEW a PROVE RowTrue(c, Finding("http.cdn_front", d, a))
                         /\ Alone(Finding("http.cdn_front", d, a))
  BY FindingFields, UnreadRow DEF ReadProbes
<1>2. ASSUME NEW a PROVE RowTrue(c, Finding("tls.chain_geography", d, a))
                         /\ Alone(Finding("tls.chain_geography", d, a))
  BY FindingFields, UnreadRow DEF ReadProbes
<1>3. FaithfulList(c, synthesiseCDNFront(d, fs))
  BY <1>1, FaithfulOptional DEF synthesiseCDNFront
<1>4. FaithfulList(c, synthesiseCertChain(d, fs))
  BY <1>2, FaithfulOne, FaithfulNone DEF synthesiseCertChain
<1> QED
  BY <1>3, <1>4

\* All syntheses together.
LEMMA SynthesesTrue ==
  ASSUME NEW c, NEW fs, FaithfulList(c, fs)
  PROVE  FaithfulList(c, syntheses(c.world.domain, fs))
BY MailRoutingTrue, DnsHostingTrue, HostingIdentityTrue, OriginMapTrue, EdgeTrue, FaithfulConcat
   DEF syntheses

(***************************************************************************)
(* Who holds the name servers, and who should hold the domain.             *)
(***************************************************************************)
\* The holders of the name servers' domains.
LEMMA HoldersTrue ==
  ASSUME NEW c, IsWorld(c.world), NEW F, NEW fs, FaithfulList(c, fs)
  PROVE  FaithfulList(c, nsHolderFindings(c.world, F, fs))
<1> DEFINE x == c.world
           I == Rows(fs, "dns.ns")
           g == [i \in I |-> Registrable(Attr(fs[i], "host"))]
           D == {g[i] : i \in I} \ {""}
           U(d) == Finding("whois.ns_holder.unavailable", d, [reason |-> "failed"])
           H(d) == Finding("whois.ns_holder", d, [registrant |-> LookupRegistrantStatus(x, d)])
           Row(d) == IF <<"rdap", d>> \in F THEN U(d) ELSE H(d)
           s == Sorted(D)
           t == [k \in DOMAIN s |-> Row(s[k])]
<1>1. IsFiniteSet(D)
  <2>1. IsList(fs) /\ I \in SUBSET DOMAIN fs
    BY DEF FaithfulList, Rows
  <2>2. g = [i \in I |-> g[i]]
    OBVIOUS
  <2> DEFINE E == {g[i] : i \in I}
  <2> HIDE DEF g, I
  <2>3. IsFiniteSet(E)
    BY <2>1, <2>2, FinitePositions
  <2> HIDE DEF E
  <2>4. IsFiniteSet(E \ {""})
    BY <2>3, FS_Subset
  <2> QED
    BY <2>4 DEF E
<1>2. \A d \in D : d \in DOMAIN x.holder
  <2>1. Registrable("") = ""
    BY DEF Registrable
  <2>2. \A h \in x.ns : Registrable(h) \in DOMAIN x.holder \cup {""}
    BY DEF IsWorld
  <2>3. \A i \in I : Attr(fs[i], "host") \in x.ns \cup {""}
    BY NameServerHost DEF HostsAsked
  <2> QED
    BY <2>1, <2>2, <2>3
<1>3. ASSUME NEW d \in DOMAIN x.holder PROVE RowTrue(c, H(d)) /\ Alone(H(d))
  <2>1. /\ H(d).probe = "whois.ns_holder" /\ H(d).subject = d
        /\ H(d).attrs = [registrant |-> LookupRegistrantStatus(x, d)]
    BY FindingFields
  <2> HIDE DEF H
  <2>2. "registrant" \in DOMAIN H(d).attrs
        /\ H(d).attrs["registrant"] = LookupRegistrantStatus(x, d)
    BY <2>1
  <2>3. Attr(H(d), "registrant") = LookupRegistrantStatus(x, d)
    BY <2>2 DEF Attr
  <2>4. LookupRegistrantStatus(x, d) = "present" <=> x.holder[d] = "named"
    BY DEF LookupRegistrantStatus
  <2> QED
    BY <1>3, <2>1, <2>3, <2>4
       DEF RowTrue, NameTrue, SiteTrue, DoorsTrue, HolderTrue, SynthesisTrue, Alone
<1>4. ASSUME NEW d PROVE RowTrue(c, U(d)) /\ Alone(U(d))
  BY FindingFields, UnreadRow DEF ReadProbes
<1>5. nsHolderFindings(x, F, fs) = t
  BY DEF nsHolderFindings, uniqueRegistrableDomains, Each
<1>6. IsList(s) /\ ToSet(s) = D
  <2> HIDE DEF D
  <2> QED
    BY <1>1, SortedList
<1> HIDE DEF s, D, U, H
<1>7. IsList(t) /\ \A f \in ToSet(t) : \E i \in DOMAIN s : s[i] \in ToSet(s) /\ f = t[i]
  BY ZenonT(60), <1>6, EachList
<1>8. ASSUME NEW f \in ToSet(t) PROVE RowTrue(c, f) /\ Alone(f)
  <2>1. PICK i \in DOMAIN s : s[i] \in D /\ f = t[i]
    BY <1>6, <1>7
  <2>2. f = U(s[i]) \/ f = H(s[i])
    BY <2>1
  <2> QED
    BY <1>2, <1>3, <1>4, <2>1, <2>2
<1> HIDE DEF t
<1> QED
  BY <1>5, <1>7, <1>8, FaithfulAlone

\* The row with the registrant the organisation expects.
LEMMA RegistrantTrue ==
  ASSUME NEW c, NEW d
  PROVE  FaithfulList(c, <<expectedRegistrantFinding(d, c.expected)>>)
<1> DEFINE f == expectedRegistrantFinding(d, c.expected)
<1>1. f.probe = "config.expected_registrant" /\ f.attrs = [expected_registrant |-> c.expected]
  BY FindingFields DEF expectedRegistrantFinding
<1> HIDE DEF f
<1>2. "expected_registrant" \in DOMAIN f.attrs /\ f.attrs["expected_registrant"] = c.expected
  BY <1>1
<1>3. Strs(f, "expected_registrant") = c.expected
  BY <1>2 DEF Strs
<1>4. RowTrue(c, f) /\ Alone(f)
  BY <1>1, <1>3 DEF RowTrue, NameTrue, SiteTrue, DoorsTrue, HolderTrue, SynthesisTrue, Alone
<1> QED
  BY <1>4, FaithfulOne DEF f

(***************************************************************************)
(* variants                                                                *)
(***************************************************************************)
\* The walk visits what the redirects lead to.
LEMMA VisitedStart ==
  ASSUME NEW x, NEW p
  PROVE  StartOf(x, p) \in Visited(x, p)
BY DEF Visited, Urls

\* Where a visited URL redirects is visited too.
LEMMA VisitedNext ==
  ASSUME NEW x, NEW p, NEW u \in Visited(x, p), Live(x, p, u), Redirects(x, u)
  PROVE  x.site[u][2] \in Visited(x, p)
<1>1. u \in DOMAIN x.site
  BY DEF Redirects
<1>2. x.site[u][2] \in Urls(x, p)
  BY <1>1 DEF Urls
<1>3. \A S \in SUBSET Urls(x, p) :
        StartOf(x, p) \in S /\ LedOn(x, p, S) => x.site[u][2] \in S
  BY DEF Visited, LedOn
<1> QED
  BY <1>2, <1>3 DEF Visited

\* It stays on the web.
LEMMA WebOnly ==
  ASSUME NEW x, HasDoors(x), NEW p, p.scheme \in {"http", "https"}, NEW o \in Destination(x, p)
  PROVE  o.scheme \in {"http", "https"}
<1> DEFINE S == {u \in Urls(x, p) : u[1] \in {"http", "https"}}
<1>1. StartOf(x, p) \in S
  <2>1. StartOf(x, p)[1] = p.scheme
    BY DEF StartOf
  <2>2. StartOf(x, p) \in Urls(x, p)
    BY DEF Urls
  <2> QED
    BY <2>1, <2>2
<1>2. LedOn(x, p, S)
  <2> SUFFICES ASSUME NEW u \in S, Redirects(x, u) PROVE x.site[u][2] \in S
    BY DEF LedOn
  <2>1. u \in DOMAIN x.site /\ x.site[u][1] = "redirects"
    BY DEF Redirects
  <2>2. x.site[u][2] \in Urls(x, p)
    BY <2>1 DEF Urls
  <2>3. x.site[u][2][1] \in {"http", "https"}
    BY <2>1 DEF HasDoors
  <2> QED
    BY <2>2, <2>3
<1>3. PICK u \in Visited(x, p) : o = origin(u)
  BY DEF Destination
<1>4. u \in S
  <2> HIDE DEF S
  <2>1. S \in SUBSET Urls(x, p)
    BY DEF S
  <2> QED
    BY <1>1, <1>2, <2>1, <1>3 DEF Visited
<1>5. o.scheme = u[1]
  BY <1>3 DEF origin
<1> QED
  BY <1>4, <1>5

nextUrl(x, u) == IF Redirects(x, u) THEN x.site[u][2] ELSE u

\* The URLs of a walk, one after the other.
LEMMA UrlsInTurn ==
  ASSUME NEW x, NEW start
  PROVE  LET at == urlsFrom(x, start)
         IN  at[0] = start /\ \A n \in 1 .. 5 : at[n] = nextUrl(x, at[n - 1])
<1> DEFINE Def(g) == [n \in 0 .. 5 |-> IF n = 0 THEN start ELSE nextUrl(x, g[n - 1])]
           at == CHOOSE g : g = Def(g)
<1>1. urlsFrom(x, start) = at
  BY Zenon DEF urlsFrom, maxRedirectsPerPath, nextUrl
<1>2. \E g : g = Def(g)
  <2> DEFINE a1 == nextUrl(x, start)
             a2 == nextUrl(x, a1)
             a3 == nextUrl(x, a2)
             a4 == nextUrl(x, a3)
             a5 == nextUrl(x, a4)
             g == [n \in 0 .. 5 |-> IF n = 0 THEN start ELSE IF n = 1 THEN a1
                                    ELSE IF n = 2 THEN a2 ELSE IF n = 3 THEN a3
                                    ELSE IF n = 4 THEN a4 ELSE a5]
  <2>1. /\ g[0] = start /\ g[1] = a1 /\ g[2] = a2 /\ g[3] = a3 /\ g[4] = a4 /\ g[5] = a5
    <3> HIDE DEF a1, a2, a3, a4, a5
    <3> QED
      OBVIOUS
  <2>2. \A n \in 0 .. 5 : n = 0 \/ n = 1 \/ n = 2 \/ n = 3 \/ n = 4 \/ n = 5
    OBVIOUS
  <2>3. g = [n \in 0 .. 5 |-> g[n]]
    OBVIOUS
  <2>4. \A n \in 0 .. 5 : g[n] = IF n = 0 THEN start ELSE nextUrl(x, g[n - 1])
    <3> HIDE DEF g
    <3>1. 1 - 1 = 0 /\ 2 - 1 = 1 /\ 3 - 1 = 2 /\ 4 - 1 = 3 /\ 5 - 1 = 4
      OBVIOUS
    <3> QED
      BY <2>1, <2>2, <3>1
  <2> HIDE DEF g
  <2>5. g = Def(g)
    BY <2>3, <2>4
  <2> QED
    BY <2>5
<1>3. at = Def(at)
  BY <1>2, Zenon
<1> HIDE DEF at
<1>4. \A n \in 0 .. 5 : at[n] = IF n = 0 THEN start ELSE nextUrl(x, at[n - 1])
  BY <1>3
<1>5. at[0] = start /\ \A n \in 1 .. 5 : at[n] = nextUrl(x, at[n - 1])
  BY <1>4
<1> QED
  BY <1>1, <1>5

\* The first path of a family to reach an origin leads there.
LEMMA FollowTrue ==
  ASSUME NEW x, HasDoors(x), NEW p, NEW Down, NEW budget
  PROVE  LET e == follow(x, Down, p.family, StartOf(x, p), budget, {})
         IN  e.status = "reachable" => e.final \in Destination(x, p)
<1> DEFINE at == urlsFrom(x, StartOf(x, p))
           Undialled(n) == \/ origin(at[n]) \in {}
                           \/ n = budget
                           \/ at[n][2] \in Down
                           \/ Refused(x, p.family, at[n][2])
           ends == {n \in 0 .. 5 : \/ Undialled(n)
                                   \/ ~Answers(x, p.family, at[n]) \/ ~Redirects(x, at[n])
                                   \/ n = 5}
           k == Min(ends)
           url == at[k]
           left == budget - k
           e == follow(x, Down, p.family, StartOf(x, p), budget, {})
<1>1. e = IF left = 0 THEN Unended("not_followed_budget", left)
          ELSE IF url[2] \in Down \/ OfFamily(x, p.family, url[2]) = {}
          THEN Unended("unreachable", left)
          ELSE IF Refused(x, p.family, url[2]) THEN Unended("refused", left)
          ELSE IF Answers(x, p.family, url) /\ ~Redirects(x, url) THEN Reached(url, left - 1)
          ELSE Unended("unreachable", left - 1)
  BY DEF follow, maxRedirectsPerPath
<1>2. k \in ends /\ \A n \in ends : k <= n
  <2>1. ends \in SUBSET Nat /\ 5 \in ends
    OBVIOUS
  <2> HIDE DEF ends
  <2> QED
    BY <2>1, LeastPicked
<1>3. k \in 0 .. 5 /\ \A n \in 0 .. 5 : n < k => Live(x, p, at[n]) /\ Redirects(x, at[n])
  <2>1. k \in 0 .. 5
    BY <1>2
  <2>2. ASSUME NEW n \in 0 .. 5, n < k PROVE n \notin ends
    <3> HIDE DEF ends, k
    <3> QED
      BY <1>2, <2>1, <2>2
  <2> QED
    BY <2>1, <2>2 DEF Live
<1>4. at[0] = StartOf(x, p) /\ \A n \in 1 .. 5 : at[n] = nextUrl(x, at[n - 1])
  BY UrlsInTurn
<1> HIDE DEF at, k, ends, e
<1>5. \A n \in 0 .. 5 : n <= k => at[n] \in Visited(x, p)
  <2> DEFINE B == {n \in 0 .. 5 : n <= k /\ at[n] \notin Visited(x, p)}
  <2> SUFFICES ASSUME B # {} PROVE FALSE
    OBVIOUS
  <2>1. PICK m \in B : \A y \in B : m <= y
    <3>1. B \in SUBSET Nat
      OBVIOUS
    <3> HIDE DEF B
    <3> QED
      BY <3>1, LeastPicked
  <2>2. m # 0
    BY <2>1, <1>4, VisitedStart
  <2>3. m \in 1 .. 5 /\ m - 1 \in 0 .. 5 /\ m - 1 < k /\ m - 1 <= k /\ ~(m <= m - 1)
    BY <2>1, <2>2, <1>3
  <2>4. at[m - 1] \in Visited(x, p)
    BY <2>1, <2>3
  <2>5. Live(x, p, at[m - 1]) /\ Redirects(x, at[m - 1])
    BY <1>3, <2>3
  <2>6. at[m] = x.site[at[m - 1]][2]
    BY <1>4, <2>3, <2>5 DEF nextUrl
  <2>7. at[m] \in Visited(x, p)
    BY <2>4, <2>5, <2>6, VisitedNext
  <2> QED
    BY <2>1, <2>7
<1>6. url \in Visited(x, p)
  BY <1>3, <1>5
<1> HIDE DEF url, left
<1>7. ASSUME e.status = "reachable" PROVE e.final \in Destination(x, p)
  <2>1. /\ ~Refused(x, p.family, url[2]) /\ Answers(x, p.family, url) /\ ~Redirects(x, url)
        /\ e = Reached(url, left - 1)
    BY <1>1, <1>7 DEF Unended
  <2>2. e.final = origin(url)
    BY <2>1 DEF Reached
  <2>3. x.site[url][1] = "serves"
    BY <2>1 DEF Answers, Redirects, HasDoors
  <2>4. Live(x, p, url)
    BY <2>1 DEF Live
  <2> QED
    BY <1>6, <2>2, <2>3, <2>4 DEF Destination
<1> QED
  BY <1>7 DEF e

\* What the record of a path holds.
LEMMA PathFields ==
  ASSUME NEW p \in ToSet(paths)
  PROVE  /\ DOMAIN p = {"host_part", "family", "scheme"}
         /\ p.family \in {"v4", "v6"} /\ p.scheme \in {"http", "https"}
<1>1. \A k \in DOMAIN paths : /\ DOMAIN paths[k] = {"host_part", "family", "scheme"}
                              /\ paths[k].family \in {"v4", "v6"}
                              /\ paths[k].scheme \in {"http", "https"}
  BY DEF paths, Path
<1> QED
  BY <1>1 DEF ToSet

\* What the record of a walked path holds.
LEMMA EndedFields ==
  ASSUME NEW p \in ToSet(paths), NEW e, "status" \in DOMAIN e
  PROVE  /\ Ended(p, e).status = e.status /\ Ended(p, e).scheme = p.scheme
         /\ "final" \in DOMAIN e => Ended(p, e).final = e.final
<1>1. DOMAIN p = {"host_part", "family", "scheme"}
  BY PathFields
<1> DEFINE D == DOMAIN p \cup DOMAIN e
           r == [f \in D |-> IF f \in DOMAIN p THEN p[f] ELSE e[f]]
<1>2. \A f \in D : r[f] = IF f \in DOMAIN p THEN p[f] ELSE e[f]
  OBVIOUS
<1>3. Ended(p, e) = r
  BY DEF Ended
<1> HIDE DEF r
<1>4. r["status"] = e["status"] /\ r["scheme"] = p["scheme"]
      /\ ("final" \in DOMAIN e => r["final"] = e["final"])
  BY <1>1, <1>2
<1> QED
  BY <1>3, <1>4

\* What the end of a walk holds.
LEMMA FollowFields ==
  ASSUME NEW x, NEW Down, NEW fam, NEW start, NEW budget, NEW known
  PROVE  LET e == follow(x, Down, fam, start, budget, known)
         IN  "status" \in DOMAIN e /\ (e.status = "reachable" => "final" \in DOMAIN e)
<1> DEFINE e == follow(x, Down, fam, start, budget, known)
<1>1. (\E s, l : s # "reachable" /\ e = Unended(s, l)) \/ \E u, l : e = Reached(u, l)
  <2>1. "not_followed_budget" # "reachable" /\ "unreachable" # "reachable" /\ "refused" # "reachable"
    OBVIOUS
  <2> QED
    BY <2>1, Zenon DEF follow
<1>2. \A s, l : "status" \in DOMAIN Unended(s, l) /\ Unended(s, l).status = s
  BY DEF Unended
<1>3. \A u, l : "status" \in DOMAIN Reached(u, l) /\ "final" \in DOMAIN Reached(u, l)
  BY DEF Reached
<1> HIDE DEF e
<1>4. "status" \in DOMAIN e /\ (e.status = "reachable" => "final" \in DOMAIN e)
  BY <1>1, <1>2, <1>3
<1> QED
  BY <1>4 DEF e

\* A list with one more member.
LEMMA AppendList ==
  ASSUME NEW s, IsList(s), NEW a
  PROVE  /\ IsList(Append(s, a)) /\ Len(s) + 1 \in DOMAIN Append(s, a)
         /\ Append(s, a)[Len(s) + 1] = a
         /\ DOMAIN s \subseteq DOMAIN Append(s, a)
         /\ \A i \in DOMAIN s : Append(s, a)[i] = s[i]
         /\ \A i \in DOMAIN Append(s, a) : i \in DOMAIN s \/ i = Len(s) + 1
<1> DEFINE t == Append(s, a)
           S == ToSet(s) \cup {a}
<1>1. Len(s) \in Nat /\ DOMAIN s = 1 .. Len(s) /\ s \in Seq(S)
  <2>1. s \in Seq(ToSet(s)) /\ ToSet(s) \subseteq S
    BY DEF IsList
  <2> HIDE DEF S
  <2>2. s \in Seq(S)
    BY <2>1
  <2> QED
    BY <2>2, ListDomain
<1>2. t \in Seq(S) /\ Len(t) = Len(s) + 1
  <2> HIDE DEF S
  <2>1. a \in S
    BY DEF S
  <2> QED
    BY <1>1, <2>1
<1>3. DOMAIN t = 1 .. Len(s) + 1 /\ t = [i \in 1 .. Len(s) + 1 |-> t[i]]
  <2> HIDE DEF S, t
  <2> QED
    BY <1>1, <1>2
<1>4. t[Len(s) + 1] = a /\ \A i \in DOMAIN s : t[i] = s[i]
  <2> HIDE DEF S
  <2> QED
    BY <1>1
<1> HIDE DEF t
<1>5. IsList(t)
  <2>1. Len(s) + 1 \in Nat
    BY <1>1
  <2> QED
    BY <2>1, <1>3, ListOf
<1>6. /\ Len(s) + 1 \in DOMAIN t
      /\ DOMAIN s \subseteq DOMAIN t
      /\ \A i \in DOMAIN t : i \in DOMAIN s \/ i = Len(s) + 1
  BY <1>1, <1>3
<1> QED
  BY <1>4, <1>5, <1>6 DEF t

\* Whenever an origin is known or reported, a path is reported to reach one
\* it leads to.
LedTo(x, s) == \E j \in DOMAIN s : s[j].status = "reachable" /\ PathTrue(x, s[j])

GoodWalk(x, acc) ==
  /\ acc = [left |-> acc.left, known |-> acc.known, results |-> acc.results]
  /\ IsList(acc.results)
  /\ acc.known = [f \in {"v4", "v6"} |-> acc.known[f]]
  /\ \A f \in {"v4", "v6"} : acc.known[f] # {} => LedTo(x, acc.results)
  /\ (\E j \in DOMAIN acc.results : acc.results[j].status = "reachable")
       => LedTo(x, acc.results)

\* A report stays when one more path is reported.
LEMMA LedToGrows ==
  ASSUME NEW x, NEW s, IsList(s), NEW a, LedTo(x, s)
  PROVE  LedTo(x, Append(s, a))
<1>1. PICK j \in DOMAIN s : s[j].status = "reachable" /\ PathTrue(x, s[j])
  BY DEF LedTo
<1>2. j \in DOMAIN Append(s, a) /\ Append(s, a)[j] = s[j]
  BY AppendList
<1> HIDE DEF PathTrue
<1> QED
  BY <1>1, <1>2 DEF LedTo

\* One more path keeps the reports grounded: an origin known from an
\* earlier path stops the walk, and then a path was reported before.
LEMMA GoodStep ==
  ASSUME NEW x, HasDoors(x), NEW F, NEW acc, GoodWalk(x, acc), NEW p \in ToSet(paths)
  PROVE  GoodWalk(x, walkPath(x, F, acc, p))
<1> DEFINE s == acc.results
           n == Len(s) + 1
<1>1. IsList(s) /\ p.family \in {"v4", "v6"}
  BY PathFields DEF GoodWalk
<1>2. CASE p.family = "v6" /\ ~x.ipv6
  <2> DEFINE e == [status |-> "not_tested", reason |-> "scanner_no_ipv6"]
             a == Ended(p, e)
             t == Append(s, a)
             acc2 == [acc EXCEPT !.results = t]
  <2>1. walkPath(x, F, acc, p) = acc2
    BY <1>2 DEF walkPath
  <2>2. "status" \in DOMAIN e /\ e.status = "not_tested"
    OBVIOUS
  <2> HIDE DEF e
  <2>3. a.status = "not_tested"
    BY <2>2, EndedFields
  <2> HIDE DEF a
  <2>4. /\ IsList(t) /\ \A i \in DOMAIN s : t[i] = s[i]
        /\ t[n] = a /\ \A i \in DOMAIN t : i \in DOMAIN s \/ i = n
    BY <1>1, AppendList
  <2>5. LedTo(x, s) => LedTo(x, t)
    BY <1>1, LedToGrows
  <2> HIDE DEF t
  <2>6. acc2 = [left |-> acc.left, known |-> acc.known, results |-> t]
    BY DEF GoodWalk
  <2>7. acc2.results = t /\ acc2.known = acc.known /\ acc2.left = acc.left
    BY <2>6
  <2> HIDE DEF acc2
  <2>8. \A j \in DOMAIN t : t[j].status = "reachable" => j \in DOMAIN s /\ s[j].status = "reachable"
    BY <2>3, <2>4
  <2> HIDE DEF n, s
  <2>9. GoodWalk(x, acc2)
    BY <2>4, <2>5, <2>6, <2>7, <2>8 DEF GoodWalk, s
  <2> QED
    BY <2>1, <2>9
<1>3. CASE ~(p.family = "v6" /\ ~x.ipv6)
  <2> DEFINE hosts == {x.domain, x.www} \cup {url[2] : url \in DOMAIN x.site}
             cut == \E k \in 1 .. Len(acc.results) + 1 : <<"cut", k>> \in F
             Down == IF cut THEN hosts ELSE {h \in hosts : <<"variants", h>> \in F}
             known == acc.known[p.family]
             e == follow(x, Down, p.family, StartOf(x, p), acc.left, known)
             a == Ended(p, e)
             t == Append(s, a)
             K == IF e.status = "reachable"
                  THEN [acc.known EXCEPT ![p.family] = @ \cup {e.final}] ELSE acc.known
             acc2 == [left |-> e.left, known |-> K, results |-> t]
  <2>1. walkPath(x, F, acc, p) = acc2
    BY <1>3 DEF walkPath, verified
  <2> HIDE DEF Down
  <2>2. "status" \in DOMAIN e /\ (e.status = "reachable" => "final" \in DOMAIN e)
    BY FollowFields
  <2>3. e.status = "reachable" /\ known = {} => e.final \in Destination(x, p)
    BY FollowTrue
  <2> HIDE DEF e
  <2>4. a.status = e.status /\ a.scheme = p.scheme /\ (e.status = "reachable" => a.final = e.final)
    BY <2>2, EndedFields
  <2> HIDE DEF a
  <2>5. e.status = "reachable" /\ known = {} => PathTrue(x, a)
    <3> SUFFICES ASSUME e.status = "reachable", known = {} PROVE PathTrue(x, a)
      OBVIOUS
    <3>1. e.final \in Destination(x, p) /\ a.final = e.final /\ a.scheme = p.scheme
      BY <2>3, <2>4
    <3>2. p \in Open(x)
      BY <3>1, <1>1, <1>3 DEF Open
    <3> QED
      BY <3>1, <3>2 DEF PathTrue
  <2>6. /\ IsList(t) /\ \A i \in DOMAIN s : t[i] = s[i]
        /\ t[n] = a /\ n \in DOMAIN t /\ \A i \in DOMAIN t : i \in DOMAIN s \/ i = n
    BY <1>1, AppendList
  <2>7. LedTo(x, s) => LedTo(x, t)
    BY <1>1, LedToGrows
  <2> HIDE DEF t
  <2>8. e.status = "reachable" => LedTo(x, t)
    <3>1. CASE known = {}
      BY <3>1, <2>4, <2>5, <2>6 DEF LedTo
    <3>2. CASE known # {}
      <4>1. LedTo(x, s)
        BY <3>2, <1>1 DEF GoodWalk
      <4> QED
        BY <4>1, <2>7
    <3> QED
      BY <3>1, <3>2
  <2>9. /\ K = [f \in {"v4", "v6"} |-> K[f]]
        /\ e.status # "reachable" => K = acc.known
    BY <1>1 DEF GoodWalk
  <2>10. /\ acc2.results = t /\ acc2.known = K
         /\ acc2 = [left |-> acc2.left, known |-> acc2.known, results |-> acc2.results]
    OBVIOUS
  <2> HIDE DEF acc2, K
  <2>11. (\E j \in DOMAIN t : t[j].status = "reachable") => LedTo(x, t)
    <3> SUFFICES ASSUME NEW j \in DOMAIN t, t[j].status = "reachable", e.status # "reachable"
                 PROVE  LedTo(x, t)
      BY <2>8
    <3>1. j \in DOMAIN s /\ s[j].status = "reachable"
      BY <2>4, <2>6
    <3> HIDE DEF n
    <3> QED
      BY <3>1, <2>7 DEF GoodWalk
  <2>12. \A f \in {"v4", "v6"} : K[f] # {} => LedTo(x, t)
    <3>1. CASE e.status = "reachable"
      BY <3>1, <2>8
    <3>2. CASE e.status # "reachable"
      <4>1. K = acc.known
        BY <3>2, <2>9
      <4> QED
        BY <4>1, <2>7 DEF GoodWalk
    <3> QED
      BY <3>1, <3>2
  <2>13. GoodWalk(x, acc2)
    BY <2>6, <2>9, <2>10, <2>11, <2>12 DEF GoodWalk
  <2> QED
    BY <2>1, <2>13
<1> QED
  BY <1>2, <1>3

\* The variants probe: when it reports an origin reached, one of its reports
\* says where that path leads.
LEMMA VariantsTrue ==
  ASSUME NEW c, HasDoors(c.world), NEW F
  PROVE  FaithfulList(c, variantsRun(c.world, F))
<1> DEFINE x == c.world
           b == [left |-> connectionBudget, results |-> <<>>, known |-> [f \in {"v4", "v6"} |-> {}]]
           Def(g) == [k \in 0 .. Len(paths) |->
                        IF k = 0 THEN b ELSE walkPath(x, F, g[k - 1], paths[k])]
           after == CHOOSE g : g = Def(g)
<1>1. walkPaths(x, F) = after
  BY Zenon DEF walkPaths
<1>0. Len(paths) = 8 /\ DOMAIN paths = 1 .. 8
  BY DEF paths
<1>2. GoodWalk(x, b)
  <2>1. /\ b.results = <<>> /\ b.known = [f \in {"v4", "v6"} |-> {}]
        /\ b = [left |-> b.left, known |-> b.known, results |-> b.results]
    OBVIOUS
  <2> HIDE DEF b
  <2>2. \A f \in {"v4", "v6"} : b.known[f] = {}
    BY <2>1
  <2>3. DOMAIN b.results = {}
    BY <2>1
  <2> QED
    BY <2>1, <2>2, <2>3, NoList DEF GoodWalk
<1> HIDE DEF b
<1>3. \E g : g = Def(g)
  <2> DEFINE Go(acc, k) == walkPath(x, F, acc, paths[k])
             a1 == Go(b, 1)
             a2 == Go(a1, 2)
             a3 == Go(a2, 3)
             a4 == Go(a3, 4)
             a5 == Go(a4, 5)
             a6 == Go(a5, 6)
             a7 == Go(a6, 7)
             a8 == Go(a7, 8)
             g == [k \in 0 .. 8 |-> IF k = 0 THEN b ELSE IF k = 1 THEN a1
                                    ELSE IF k = 2 THEN a2 ELSE IF k = 3 THEN a3
                                    ELSE IF k = 4 THEN a4 ELSE IF k = 5 THEN a5
                                    ELSE IF k = 6 THEN a6 ELSE IF k = 7 THEN a7 ELSE a8]
  <2> HIDE DEF Go
  <2>1. /\ g[0] = b /\ g[1] = a1 /\ g[2] = a2 /\ g[3] = a3 /\ g[4] = a4
        /\ g[5] = a5 /\ g[6] = a6 /\ g[7] = a7 /\ g[8] = a8
    <3> HIDE DEF a1, a2, a3, a4, a5, a6, a7, a8
    <3> QED
      OBVIOUS
  <2>2. \A k \in 0 .. 8 : \/ k = 0 \/ k = 1 \/ k = 2 \/ k = 3 \/ k = 4
                          \/ k = 5 \/ k = 6 \/ k = 7 \/ k = 8
    OBVIOUS
  <2>3. g = [k \in 0 .. 8 |-> g[k]]
    OBVIOUS
  <2>4. \A k \in 0 .. 8 : g[k] = IF k = 0 THEN b ELSE Go(g[k - 1], k)
    <3> HIDE DEF g
    <3>1. /\ 1 - 1 = 0 /\ 2 - 1 = 1 /\ 3 - 1 = 2 /\ 4 - 1 = 3 /\ 5 - 1 = 4
          /\ 6 - 1 = 5 /\ 7 - 1 = 6 /\ 8 - 1 = 7
      OBVIOUS
    <3>2. /\ g[1] = Go(g[0], 1) /\ g[2] = Go(g[1], 2) /\ g[3] = Go(g[2], 3) /\ g[4] = Go(g[3], 4)
          /\ g[5] = Go(g[4], 5) /\ g[6] = Go(g[5], 6) /\ g[7] = Go(g[6], 7) /\ g[8] = Go(g[7], 8)
      BY <2>1
    <3> QED
      BY <2>1, <2>2, <3>1, <3>2
  <2> HIDE DEF g
  <2>5. g = Def(g)
    BY <2>3, <2>4, <1>0 DEF Go
  <2> QED
    BY <2>5
<1>4. after = Def(after)
  BY <1>3, Zenon
<1> HIDE DEF after
<1>5. after[0] = b /\ \A k \in 1 .. 8 : after[k] = walkPath(x, F, after[k - 1], paths[k])
  <2>1. \A k \in 0 .. 8 : after[k] = IF k = 0 THEN b ELSE walkPath(x, F, after[k - 1], paths[k])
    BY <1>4, <1>0
  <2> QED
    BY <2>1
<1> HIDE DEF Def
<1>6. \A k \in 0 .. 8 : GoodWalk(x, after[k])
  <2> DEFINE B == {k \in 0 .. 8 : ~GoodWalk(x, after[k])}
  <2> SUFFICES ASSUME B # {} PROVE FALSE
    OBVIOUS
  <2>1. PICK m \in B : \A y \in B : m <= y
    <3>1. B \in SUBSET Nat
      OBVIOUS
    <3> HIDE DEF B
    <3> QED
      BY <3>1, LeastPicked
  <2>2. m # 0
    BY <1>2, <1>5
  <2>3. m \in 1 .. 8 /\ m - 1 \in 0 .. 8 /\ ~(m <= m - 1)
    BY <2>2
  <2>4. GoodWalk(x, after[m - 1])
    BY <2>1, <2>3
  <2>5. paths[m] \in ToSet(paths)
    BY <2>3, <1>0 DEF ToSet
  <2>6. GoodWalk(x, after[m])
    BY <2>3, <2>4, <2>5, <1>5, GoodStep
  <2> QED
    BY <2>6
<1>7. GoodWalk(x, after[8])
  BY <1>6
<1> DEFINE r == after[8].results
           f == Finding("http.variants", x.domain, [paths |-> r])
           U == Finding("http.variants.unavailable", x.domain, [reason |-> "late"])
<1>8. RowTrue(c, U) /\ Alone(U)
  BY FindingFields, UnreadRow DEF ReadProbes
<1>9. variantsRun(x, F) = <<U>> \/ variantsRun(x, F) = <<f>>
  BY <1>1, <1>0 DEF variantsRun
<1>10. (\E j \in DOMAIN r : r[j].status = "reachable") => LedTo(x, r)
  BY <1>7 DEF GoodWalk
<1> HIDE DEF r
<1>11. f.probe = "http.variants" /\ f.attrs = [paths |-> r]
  BY FindingFields
<1> HIDE DEF f, U
<1>12. f.attrs.paths = r
  BY <1>11
<1>13. DoorsTrue(x, f)
  BY <1>10, <1>12 DEF DoorsTrue, ReachedPaths, LedTo
<1>14. RowTrue(c, f) /\ Alone(f)
  BY <1>11, <1>13 DEF RowTrue, NameTrue, SiteTrue, HolderTrue, SynthesisTrue, Alone
<1> QED
  BY <1>8, <1>9, <1>14, FaithfulOne

(***************************************************************************)
(* What the rules make of true rows.                                       *)
(***************************************************************************)
\* The other wand rules, by id.
LEMMA MoreWandResults ==
  ASSUME NEW fs, NEW day
  PROVE  LET R == wandDefaultRules(fs, day)
         IN  /\ ResultOf(R, "ns_vendor_jurisdiction") = nsVendorJurisdiction(fs)
             /\ ResultOf(R, "transit_eu_path") = transitEUPath(fs)
             /\ ResultOf(R, "cert_validity") = certValidity(fs)
             /\ ResultOf(R, "dns_redundancy") = dnsRedundancy(fs)
             /\ ResultOf(R, "caa_restricts") = caaRestricts(fs)
             /\ ResultOf(R, "http_exposure") = httpExposure(fs)
             /\ ResultOf(R, "registrant_identifiable") = registrantIdentifiable(fs)
             /\ ResultOf(R, "no_reseller") = noReseller(fs)
             /\ ResultOf(R, "soa_rname") = soaRname(fs)
             /\ ResultOf(R, "securitytxt") = securitytxt(fs, day)
             /\ ResultOf(R, "ns_holder_transparent") = nsHolderTransparent(fs)
             /\ ResultOf(R, "domain_expiry") = domainExpiry(fs, day)
             /\ ResultOf(R, "variant_convergence") = variantConvergence(fs)
<1> DEFINE R == wandDefaultRules(fs, day)
<1>1. ResultOf(R, "ns_vendor_jurisdiction") = nsVendorJurisdiction(fs)
  <2>1. Ruled("ns_vendor_jurisdiction", "juridisch", nsVendorJurisdiction(fs)) \in R
    BY DEF wandDefaultRules, accountabilityRules
  <2>2. \A q \in R : q.id = "ns_vendor_jurisdiction" => q = Ruled("ns_vendor_jurisdiction", "juridisch", nsVendorJurisdiction(fs))
    BY RuledFields, StandardIds DEF wandDefaultRules, accountabilityRules
  <2> QED
    BY <2>1, <2>2, ResultIs
<1>2. ResultOf(R, "transit_eu_path") = transitEUPath(fs)
  <2>1. Ruled("transit_eu_path", "juridisch", transitEUPath(fs)) \in R
    BY DEF wandDefaultRules, accountabilityRules
  <2>2. \A q \in R : q.id = "transit_eu_path" => q = Ruled("transit_eu_path", "juridisch", transitEUPath(fs))
    BY RuledFields, StandardIds DEF wandDefaultRules, accountabilityRules
  <2> QED
    BY <2>1, <2>2, ResultIs
<1>3. ResultOf(R, "cert_validity") = certValidity(fs)
  <2>1. Ruled("cert_validity", "operationeel", certValidity(fs)) \in R
    BY DEF wandDefaultRules, accountabilityRules
  <2>2. \A q \in R : q.id = "cert_validity" => q = Ruled("cert_validity", "operationeel", certValidity(fs))
    BY RuledFields, StandardIds DEF wandDefaultRules, accountabilityRules
  <2> QED
    BY <2>1, <2>2, ResultIs
<1>4. ResultOf(R, "dns_redundancy") = dnsRedundancy(fs)
  <2>1. Ruled("dns_redundancy", "operationeel", dnsRedundancy(fs)) \in R
    BY DEF wandDefaultRules, accountabilityRules
  <2>2. \A q \in R : q.id = "dns_redundancy" => q = Ruled("dns_redundancy", "operationeel", dnsRedundancy(fs))
    BY RuledFields, StandardIds DEF wandDefaultRules, accountabilityRules
  <2> QED
    BY <2>1, <2>2, ResultIs
<1>5. ResultOf(R, "caa_restricts") = caaRestricts(fs)
  <2>1. Ruled("caa_restricts", "operationeel", caaRestricts(fs)) \in R
    BY DEF wandDefaultRules, accountabilityRules
  <2>2. \A q \in R : q.id = "caa_restricts" => q = Ruled("caa_restricts", "operationeel", caaRestricts(fs))
    BY RuledFields, StandardIds DEF wandDefaultRules, accountabilityRules
  <2> QED
    BY <2>1, <2>2, ResultIs
<1>6. ResultOf(R, "http_exposure") = httpExposure(fs)
  <2>1. Ruled("http_exposure", "operationeel", httpExposure(fs)) \in R
    BY DEF wandDefaultRules, accountabilityRules
  <2>2. \A q \in R : q.id = "http_exposure" => q = Ruled("http_exposure", "operationeel", httpExposure(fs))
    BY RuledFields, StandardIds DEF wandDefaultRules, accountabilityRules
  <2> QED
    BY <2>1, <2>2, ResultIs
<1>7. ResultOf(R, "registrant_identifiable") = registrantIdentifiable(fs)
  <2>1. Ruled("registrant_identifiable", "accountability", registrantIdentifiable(fs)) \in R
    BY DEF wandDefaultRules, accountabilityRules
  <2>2. \A q \in R : q.id = "registrant_identifiable" => q = Ruled("registrant_identifiable", "accountability", registrantIdentifiable(fs))
    BY RuledFields, StandardIds DEF wandDefaultRules, accountabilityRules
  <2> QED
    BY <2>1, <2>2, ResultIs
<1>8. ResultOf(R, "no_reseller") = noReseller(fs)
  <2>1. Ruled("no_reseller", "accountability", noReseller(fs)) \in R
    BY DEF wandDefaultRules, accountabilityRules
  <2>2. \A q \in R : q.id = "no_reseller" => q = Ruled("no_reseller", "accountability", noReseller(fs))
    BY RuledFields, StandardIds DEF wandDefaultRules, accountabilityRules
  <2> QED
    BY <2>1, <2>2, ResultIs
<1>9. ResultOf(R, "soa_rname") = soaRname(fs)
  <2>1. Ruled("soa_rname", "accountability", soaRname(fs)) \in R
    BY DEF wandDefaultRules, accountabilityRules
  <2>2. \A q \in R : q.id = "soa_rname" => q = Ruled("soa_rname", "accountability", soaRname(fs))
    BY RuledFields, StandardIds DEF wandDefaultRules, accountabilityRules
  <2> QED
    BY <2>1, <2>2, ResultIs
<1>10. ResultOf(R, "securitytxt") = securitytxt(fs, day)
  <2>1. Ruled("securitytxt", "accountability", securitytxt(fs, day)) \in R
    BY DEF wandDefaultRules, accountabilityRules
  <2>2. \A q \in R : q.id = "securitytxt" => q = Ruled("securitytxt", "accountability", securitytxt(fs, day))
    BY RuledFields, StandardIds DEF wandDefaultRules, accountabilityRules
  <2> QED
    BY <2>1, <2>2, ResultIs
<1>11. ResultOf(R, "ns_holder_transparent") = nsHolderTransparent(fs)
  <2>1. Ruled("ns_holder_transparent", "accountability", nsHolderTransparent(fs)) \in R
    BY DEF wandDefaultRules, accountabilityRules
  <2>2. \A q \in R : q.id = "ns_holder_transparent" => q = Ruled("ns_holder_transparent", "accountability", nsHolderTransparent(fs))
    BY RuledFields, StandardIds DEF wandDefaultRules, accountabilityRules
  <2> QED
    BY <2>1, <2>2, ResultIs
<1>12. ResultOf(R, "domain_expiry") = domainExpiry(fs, day)
  <2>1. Ruled("domain_expiry", "operationeel", domainExpiry(fs, day)) \in R
    BY DEF wandDefaultRules, accountabilityRules
  <2>2. \A q \in R : q.id = "domain_expiry" => q = Ruled("domain_expiry", "operationeel", domainExpiry(fs, day))
    BY RuledFields, StandardIds DEF wandDefaultRules, accountabilityRules
  <2> QED
    BY <2>1, <2>2, ResultIs
<1>13. ResultOf(R, "variant_convergence") = variantConvergence(fs)
  <2>1. Ruled("variant_convergence", "operationeel", variantConvergence(fs)) \in R
    BY DEF wandDefaultRules, accountabilityRules
  <2>2. \A q \in R : q.id = "variant_convergence" => q = Ruled("variant_convergence", "operationeel", variantConvergence(fs))
    BY RuledFields, StandardIds DEF wandDefaultRules, accountabilityRules
  <2> QED
    BY <2>1, <2>2, ResultIs
<1> QED
  BY <1>1, <1>2, <1>3, <1>4, <1>5, <1>6, <1>7, <1>8, <1>9, <1>10, <1>11, <1>12, <1>13

\* The rule of a standard, by its id.
LEMMA StandardResults ==
  ASSUME NEW fs, NEW day, NEW id \in StandardRules
  PROVE  ResultOf(wandDefaultRules(fs, day), id) = scoreStandardsCategory(fs, id, day)
<1> DEFINE R == wandDefaultRules(fs, day)
           S == standardsRules(fs, day)
           Mine == Ruled(id, "standards", scoreStandardsCategory(fs, id, day))
<1>1. StandardRules = {"dnssec", "mail_auth", "starttls_dane", "ipv6", "rpki", "tls_config"}
  BY DEF StandardRules, standardsCategoriesFor
<1>2. Mine \in S
  BY DEF standardsRules, StandardRules
<1>3. ASSUME NEW q \in S, q.id = id PROVE q = Mine
  <2>1. PICK r \in DOMAIN standardsCategoriesFor :
          q = Ruled(r, "standards", scoreStandardsCategory(fs, r, day))
    BY DEF standardsRules
  <2>2. q.id = r
    BY <2>1, RuledFields
  <2> QED
    BY <2>1, <2>2, <1>3
<1> HIDE DEF S, Mine
<1>4. Mine \in R
  BY <1>2 DEF wandDefaultRules, S
<1>5. \A q \in R : q.id = id => q \in S
  BY <1>1, RuledFields DEF wandDefaultRules, accountabilityRules, S
<1> HIDE DEF R
<1>6. \A q \in R : q.id = id => q = Mine
  BY <1>3, <1>5
<1>7. ResultOf(R, id) = scoreStandardsCategory(fs, id, day)
  BY <1>4, <1>6, ResultIs DEF Mine
<1> QED
  BY <1>7 DEF R

\* The rows an assessment reads: those of the scan, which are true, and those
\* of the imports.
Readings(c, fs) ==
  /\ IsList(fs)
  /\ \A f \in ToSet(fs) : f.probe # "internetnl" => RowTrue(c, f)
  /\ (\E f \in ToSet(fs) : f.probe = "dns.ns" /\ Attr(f, "host") # "")
       => \A h \in c.world.ns : nsFinding(c.world, h) \in ToSet(fs)
  /\ (\E f \in ToSet(fs) : f.probe = "transit.hop")
       => \A k \in DOMAIN c.world.hops : hopFinding(c.world, k) \in ToSet(fs)
  /\ \A f \in ToSet(fs) : f.probe = "internetnl" => f \in ToSet(LatestImportFindings(c.world))
  /\ ToSet(LatestImportFindings(c.world)) \subseteq ToSet(fs)

\* A row of a probe, as an assessment reads it, is true.
LEMMA ReadRow ==
  ASSUME NEW c, NEW fs, Readings(c, fs), NEW p, p # "internetnl", NEW i \in Rows(fs, p)
  PROVE  /\ i \in DOMAIN fs /\ i \in 1 .. Len(fs) /\ Len(fs) \in Nat
         /\ fs[i].probe = p /\ fs[i] \in ToSet(fs) /\ RowTrue(c, fs[i])
<1>1. IsList(fs) /\ \A f \in ToSet(fs) : f.probe # "internetnl" => RowTrue(c, f)
  BY DEF Readings
<1> QED
  BY <1>1, ListDomain DEF Rows

\* The row a rule picks from the rows of one probe is one of them.
LEMMA PickedRow ==
  ASSUME NEW fs, IsList(fs), NEW I \in SUBSET DOMAIN fs, I # {}
  PROVE  FirstRow(I) \in I /\ LastRow(I) \in I
<1>1. I \in SUBSET (1 .. Len(fs)) /\ Len(fs) \in Nat
  BY ListDomain
<1> QED
  BY <1>1, FirstRowOf

\* The first and the last row of a probe are true rows of it.
LEMMA PickedOfProbe ==
  ASSUME NEW c, NEW fs, Readings(c, fs), NEW p, p # "internetnl", Rows(fs, p) # {}
  PROVE  LET first == fs[FirstRow(Rows(fs, p))]
             last  == fs[LastRow(Rows(fs, p))]
         IN  /\ first.probe = p /\ RowTrue(c, first)
             /\ last.probe = p /\ RowTrue(c, last)
<1>1. IsList(fs) /\ Rows(fs, p) \in SUBSET DOMAIN fs
  BY DEF Readings, Rows
<1>2. FirstRow(Rows(fs, p)) \in Rows(fs, p) /\ LastRow(Rows(fs, p)) \in Rows(fs, p)
  BY <1>1, PickedRow
<1> QED
  BY <1>2, ReadRow

\* The fields of a result, and the score its rationale shows.
LEMMA ResultFields ==
  /\ \A s, e, r : Result(s, e, r).score = s /\ Result(s, e, r).lead = <<>>
  /\ \A s, e : Scored(s, e).score = s /\ Scored(s, e).lead = <<>>
  /\ NoEvidence.score = Onbekend /\ NoEvidence.lead = <<>>
  /\ \A e : Unavailable(e).score = Onbekend
BY DEF Result, Scored, NoEvidence, Unavailable

\* What a rationale shows, other than onbekend, is the score of the result.
LEMMA ShownIsScored ==
  ASSUME NEW res, NEW shown, RationaleScore(res) = shown, shown # Onbekend
  PROVE  res.score = shown
BY DEF RationaleScore

\* The scores are different.
LEMMA Scores ==
  /\ Afhankelijk # Onbekend /\ Soeverein # Onbekend /\ Soeverein # Afhankelijk
  /\ Voldoende # Afhankelijk /\ Voldoende # Soeverein
BY DEF Afhankelijk, Onbekend, Soeverein, Voldoende

\* The operators that lead a verdict leave its score alone.
LEMMA LedScore ==
  ASSUME NEW s, NEW e, NEW r, NEW fs, NEW I, NEW names
  PROVE  /\ LedBy(fs, I, Result(s, e, r), names).score = s
         /\ LedBy(fs, I, Result(s, e, r), names).lead \in {<<>>, names}
BY DEF LedBy, Result

(***************************************************************************)
(* Where hosts are, and who runs them.                                     *)
(***************************************************************************)
\* A jurisdiction verdict, with the fact behind it.
Grounded(x, id, score) ==
  /\ score = Afhankelijk => \E g \in Geos(x, id) : OutsideEEA(g)
  /\ score = Soeverein => \E g \in Geos(x, id) : g.country \in eeaCountries

IsTally(x, id, r) == \E s, e : r = Result(s, e, "") /\ Grounded(x, id, s)

\* Onbekend needs no fact.
LEMMA UnknownIsGrounded == \A x, id : Grounded(x, id, Onbekend)
BY Scores DEF Grounded

\* An ip.asn row of a host says what is true of an address of the host.
LEMMA AsnSays ==
  ASSUME NEW c, NEW fs, Readings(c, fs), NEW id, NEW i \in Rows(fs, "ip.asn"),
         fs[i].subject \in HostsAsked(c.world, id)
  PROVE  \E g \in Geos(c.world, id) : SaysOf(fs[i], g)
<1>1. RowTrue(c, fs[i]) /\ fs[i].probe = "ip.asn"
  BY ReadRow
<1>2. \E g \in ToSet(Resolve(c.world, fs[i].subject)) : SaysOf(fs[i], g)
  BY <1>1 DEF RowTrue, NameTrue
<1> QED
  BY <1>2 DEF Geos

\* The tally of jurisdictionTally has a fact behind it.
LEMMA TallyGrounded ==
  ASSUME NEW c, NEW fs, Readings(c, fs), NEW id, NEW hosts \in SUBSET HostsAsked(c.world, id),
         NEW also
  PROVE  IsTally(c.world, id, jurisdictionTally(fs, AsnRows(fs, hosts), also))
<1> DEFINE x == c.world
           I == AsnRows(fs, hosts)
           seen == WithCountry(fs, I)
           res == jurisdictionTally(fs, I, also)
<1>1. ASSUME NEW i \in I PROVE \E g \in Geos(x, id) : SaysOf(fs[i], g)
  BY AsnSays DEF AsnRows
<1>2. CASE seen = {}
  <2> DEFINE N == NoCountry(fs, I)
  <2>1. res = IF \E i \in N : usHyperscalerOrg(Attr(fs[i], "organisation"))
              THEN Result(Afhankelijk, N, "") ELSE Result(Onbekend, N, "")
    BY <1>2 DEF jurisdictionTally, noCountryResult, Scored
  <2>2. CASE \E i \in N : usHyperscalerOrg(Attr(fs[i], "organisation"))
    <3>1. PICK i \in N : usHyperscalerOrg(Attr(fs[i], "organisation"))
      BY <2>2
    <3>2. i \in I /\ Attr(fs[i], "country") = ""
      BY DEF NoCountry
    <3>3. PICK g \in Geos(x, id) : SaysOf(fs[i], g)
      BY <1>1, <3>2
    <3>4. OutsideEEA(g)
      BY <3>1, <3>2, <3>3 DEF SaysOf, OutsideEEA
    <3>5. Grounded(x, id, Afhankelijk)
      BY <3>4, Scores DEF Grounded
    <3>6. res = Result(Afhankelijk, N, "")
      BY <2>1, <2>2
    <3> HIDE DEF N, res
    <3>7. IsTally(x, id, res)
      BY <3>5, <3>6 DEF IsTally
    <3> QED
      BY <3>7 DEF res
  <2>3. CASE ~\E i \in N : usHyperscalerOrg(Attr(fs[i], "organisation"))
    <3>1. res = Result(Onbekend, N, "")
      BY <2>1, <2>3
    <3> HIDE DEF N, res
    <3>2. IsTally(x, id, res)
      BY <3>1, UnknownIsGrounded DEF IsTally
    <3> QED
      BY <3>2 DEF res
  <2> QED
    BY <2>2, <2>3
<1>3. CASE seen # {}
  <2> DEFINE s == Share(InEEA(fs, seen), seen)
  <2>1. res = Result(s, seen \cup also, "")
    BY <1>3 DEF jurisdictionTally, Scored
  <2>2. PICK i \in seen : TRUE
    BY <1>3
  <2>3. i \in I /\ Attr(fs[i], "country") # ""
    BY <2>2 DEF WithCountry
  <2>4. PICK g \in Geos(x, id) : SaysOf(fs[i], g)
    BY <1>1, <2>3
  <2>5. s = Afhankelijk => InEEA(fs, seen) = {}
    BY Scores DEF Share
  <2>6. s = Soeverein => InEEA(fs, seen) = seen
    BY Scores DEF Share
  <2>7. s = Afhankelijk => OutsideEEA(g)
    BY <2>2, <2>3, <2>4, <2>5 DEF InEEA, SaysOf, OutsideEEA
  <2>8. s = Soeverein => g.country \in eeaCountries
    BY <2>2, <2>4, <2>6 DEF InEEA, SaysOf
  <2>9. Grounded(x, id, s)
    BY <2>4, <2>7, <2>8 DEF Grounded
  <2> HIDE DEF s, res
  <2>10. IsTally(x, id, res)
    BY <2>1, <2>9 DEF IsTally
  <2> QED
    BY <2>10 DEF res
<1>4. IsTally(x, id, res)
  BY SMTT(40), <1>2, <1>3
<1> QED
  BY <1>4

\* The names a verdict leads with.
LEMMA DistinctNames ==
  ASSUME NEW s, IsList(s), NEW names, names = [k \in DOMAIN s |-> names[k]],
         NEW a \in ToSet(Distinct(names))
  PROVE  \E k \in DOMAIN s : a = names[k] /\ a # ""
<1> DEFINE J == {k \in DOMAIN names : names[k] # "" /\ \A j \in 1 .. k - 1 : names[j] # names[k]}
           first == Ascending(J)
           d == [n \in DOMAIN first |-> names[first[n]]]
<1>1. DOMAIN names = DOMAIN s /\ DOMAIN s = 1 .. Len(s) /\ Len(s) \in Nat
  BY ListDomain
<1>2. Distinct(names) = d
  BY DEF Distinct
<1>3. \A n \in DOMAIN first : first[n] \in J
  <2>1. J \in SUBSET (1 .. Len(s))
    BY <1>1
  <2> HIDE DEF J
  <2>2. IsList(first) /\ ToSet(first) \subseteq J
    BY <1>1, <2>1, AscendingList
  <2> QED
    BY <2>2, ListDomain
<1>4. PICK n \in DOMAIN first : a = names[first[n]]
  <2> HIDE DEF first
  <2>1. ToSet(d) = {d[n] : n \in DOMAIN d} /\ DOMAIN d = DOMAIN first
    BY DEF ToSet
  <2>2. \A n \in DOMAIN first : d[n] = names[first[n]]
    OBVIOUS
  <2> HIDE DEF d
  <2> QED
    BY <1>2, <2>1, <2>2
<1> QED
  BY <1>1, <1>3, <1>4

\* The operators a rule reads from a synthesis are those it named.
LEMMA OperatorsAmong ==
  ASSUME NEW c, NEW fs, Readings(c, fs), NEW p, p # "internetnl", NEW S,
         \A f : f.probe = p /\ RowTrue(c, f) => RoutesAmong(f, S)
  PROVE  ToSet(observedOperators(fs, p)) \subseteq S
<1> DEFINE routes == Entries(fs, p, "routes")
           names == [k \in DOMAIN routes |-> routes[k].operator]
<1>1. IsList(routes) /\ \A k \in DOMAIN routes : routes[k].operator \in S \cup {""}
  <2>1. CASE Has(fs, p)
    <3> DEFINE f == fs[FirstRow(Rows(fs, p))]
    <3>1. f.probe = p /\ RowTrue(c, f)
      BY <2>1, PickedOfProbe DEF Has
    <3>2. routes = f.attrs.routes
      BY <2>1 DEF Entries
    <3> HIDE DEF f, routes
    <3> QED
      BY <3>1, <3>2 DEF RoutesAmong
  <2>2. CASE ~Has(fs, p)
    <3>1. routes = <<>>
      BY <2>2 DEF Entries
    <3>2. DOMAIN <<>> = {}
      OBVIOUS
    <3> HIDE DEF routes
    <3> QED
      BY <3>1, <3>2, NoList
  <2> QED
    BY <2>1, <2>2
<1>2. observedOperators(fs, p) = Distinct(names)
  BY DEF observedOperators
<1> HIDE DEF routes
<1>3. names = [k \in DOMAIN routes |-> names[k]] /\ \A k \in DOMAIN routes : names[k] = routes[k].operator
  OBVIOUS
<1> HIDE DEF names
<1>4. \A a \in ToSet(Distinct(names)) : \E k \in DOMAIN routes : a = names[k] /\ a # ""
  BY <1>1, <1>3, DistinctNames
<1>5. ASSUME NEW a \in ToSet(observedOperators(fs, p)) PROVE a \in S
  <2>1. PICK k \in DOMAIN routes : a = names[k] /\ a # ""
    BY <1>2, <1>4
  <2>2. a \in S \cup {""}
    BY <1>1, <1>3, <2>1
  <2> QED
    BY <2>1, <2>2
<1> QED
  BY <1>5

\* A led verdict: its score is that of the tally, its operators those named.
LEMMA LedTally ==
  ASSUME NEW x, NEW id, NEW r, IsTally(x, id, r), NEW fs, NEW I, NEW names, NEW S,
         ToSet(names) \subseteq S
  PROVE  /\ Grounded(x, id, r.score) /\ r.lead = <<>>
         /\ Grounded(x, id, LedBy(fs, I, r, names).score)
         /\ ToSet(LedBy(fs, I, r, names).lead) \subseteq S
<1>1. PICK s, e : r = Result(s, e, "") /\ Grounded(x, id, s)
  BY DEF IsTally
<1>2. Result(s, e, "").score = s /\ Result(s, e, "").lead = <<>>
  BY DEF Result
<1>3. r.score = s /\ r.lead = <<>>
  BY <1>1, <1>2
<1>4. /\ LedBy(fs, I, Result(s, e, ""), names).score = s
      /\ LedBy(fs, I, Result(s, e, ""), names).lead \in {<<>>, names}
  BY LedScore
<1>5. LedBy(fs, I, r, names).score = s /\ LedBy(fs, I, r, names).lead \in {<<>>, names}
  BY <1>1, <1>4
<1>6. ToSet(LedBy(fs, I, r, names).lead) \subseteq S
  BY <1>5, NoList
<1> QED
  BY <1>1, <1>3, <1>5, <1>6

\* A led tally of the hosts a question is about.
LEMMA LedGrounded ==
  ASSUME NEW c, NEW fs, Readings(c, fs), NEW id, NEW hosts \in SUBSET HostsAsked(c.world, id),
         NEW also, NEW names, NEW S, ToSet(names) \subseteq S
  PROVE  LET r == jurisdictionTally(fs, AsnRows(fs, hosts), also)
         IN  /\ Grounded(c.world, id, r.score) /\ r.lead = <<>>
             /\ Grounded(c.world, id, LedBy(fs, AsnRows(fs, hosts), r, names).score)
             /\ ToSet(LedBy(fs, AsnRows(fs, hosts), r, names).lead) \subseteq S
<1> DEFINE r == jurisdictionTally(fs, AsnRows(fs, hosts), also)
<1>1. IsTally(c.world, id, r)
  BY TallyGrounded
<1> HIDE DEF r
<1>2. /\ Grounded(c.world, id, r.score) /\ r.lead = <<>>
      /\ Grounded(c.world, id, LedBy(fs, AsnRows(fs, hosts), r, names).score)
      /\ ToSet(LedBy(fs, AsnRows(fs, hosts), r, names).lead) \subseteq S
  BY <1>1, LedTally
<1> QED
  BY <1>2 DEF r

\* Without evidence nothing is said.
LEMMA NoEvidenceGrounded ==
  ASSUME NEW x, NEW id, NEW S
  PROVE  Grounded(x, id, NoEvidence.score) /\ ToSet(NoEvidence.lead) \subseteq S
BY ResultFields, UnknownIsGrounded, NoList

\* Where the apex is hosted.
LEMMA ApexGrounded ==
  ASSUME NEW c, NEW fs, Readings(c, fs)
  PROVE  /\ Grounded(c.world, "apex_ip_eea", apexIPInEEA(fs).score)
         /\ ToSet(apexIPInEEA(fs).lead)
              \subseteq {hostingOperator(g.org) : g \in Geos(c.world, "apex_ip_eea")}
<1> DEFINE x == c.world
           S == {hostingOperator(g.org) : g \in Geos(x, "apex_ip_eea")}
           A == Rows(fs, "dns.a") \cup Rows(fs, "dns.aaaa")
           names == observedOperators(fs, "ip.hosting")
<1>1. CASE Apex(fs) = ""
  <2>1. apexIPInEEA(fs) = NoEvidence
    BY <1>1 DEF apexIPInEEA
  <2> QED
    BY <2>1, NoEvidenceGrounded
<1>2. CASE Apex(fs) # ""
  <2>1. A # {} /\ Apex(fs) = fs[FirstRow(A)].subject
    BY <1>2 DEF Apex
  <2>2. IsList(fs) /\ A \in SUBSET DOMAIN fs
    BY DEF Readings, Rows
  <2>3. FirstRow(A) \in A
    <3> HIDE DEF A
    <3> QED
      BY <2>1, <2>2, PickedRow
  <2>4. RowTrue(c, fs[FirstRow(A)]) /\ fs[FirstRow(A)].probe \in {"dns.a", "dns.aaaa"}
    BY <2>3, ReadRow
  <2>5. Apex(fs) = x.domain
    BY <2>1, <2>4 DEF RowTrue, NameTrue
  <2>6. {Apex(fs)} \in SUBSET HostsAsked(x, "apex_ip_eea")
    BY <2>5 DEF HostsAsked
  <2> HIDE DEF S
  <2>7. ToSet(names) \subseteq S
    <3>1. \A f : f.probe = "ip.hosting" /\ RowTrue(c, f) => RoutesAmong(f, S)
      BY DEF RowTrue, SynthesisTrue, S
    <3> QED
      BY <3>1, OperatorsAmong
  <2>8. apexIPInEEA(fs) = LedBy(fs, AsnRows(fs, {Apex(fs)}),
                            jurisdictionTally(fs, AsnRows(fs, {Apex(fs)}), {}), names)
    BY <1>2 DEF apexIPInEEA
  <2> DEFINE hosts == {Apex(fs)}
             t == apexIPInEEA(fs)
             r == jurisdictionTally(fs, AsnRows(fs, hosts), {})
             led == LedBy(fs, AsnRows(fs, hosts), r, names)
  <2> HIDE DEF names, hosts, t
  <2>a. Grounded(x, "apex_ip_eea", led.score) /\ ToSet(led.lead) \subseteq S
    BY <2>6, <2>7, LedGrounded DEF hosts
  <2>b. t = led
    BY <2>8 DEF t, hosts
  <2> HIDE DEF led
  <2>c. Grounded(x, "apex_ip_eea", t.score) /\ ToSet(t.lead) \subseteq S
    BY <2>a, <2>b
  <2>9. Grounded(x, "apex_ip_eea", apexIPInEEA(fs).score) /\ ToSet(apexIPInEEA(fs).lead) \subseteq S
    BY <2>c DEF t
  <2> QED
    BY <2>9 DEF S
<1> QED
  BY <1>1, <1>2

\* A rule over the hosts that rows of one probe name.
LEMMA VendorGrounded ==
  ASSUME NEW c, NEW fs, Readings(c, fs), NEW id, NEW p, NEW synthesis, NEW S,
         \A i \in Rows(fs, p) : Attr(fs[i], "host") \in HostsAsked(c.world, id) \cup {""},
         ToSet(observedOperators(fs, synthesis)) \subseteq S
  PROVE  LET r == HostVendorJurisdiction(fs, p, synthesis)
         IN  Grounded(c.world, id, r.score) /\ ToSet(r.lead) \subseteq S
<1> DEFINE H == HostRows(fs, p)
           hosts == HostsOf(fs, H)
           names == observedOperators(fs, synthesis)
           r == HostVendorJurisdiction(fs, p, synthesis)
<1>1. CASE H = {}
  <2>1. r = NoEvidence
    BY <1>1 DEF HostVendorJurisdiction
  <2> HIDE DEF r
  <2>2. Grounded(c.world, id, r.score) /\ ToSet(r.lead) \subseteq S
    BY <2>1, NoEvidenceGrounded
  <2> QED
    BY <2>2 DEF r
<1>2. CASE H # {}
  <2>1. hosts \in SUBSET HostsAsked(c.world, id)
    BY DEF HostRows, HostsOf
  <2>2. r = LedBy(fs, AsnRows(fs, hosts),
                  jurisdictionTally(fs, AsnRows(fs, hosts), LastPerHost(fs, H)), names)
    BY <1>2 DEF HostVendorJurisdiction
  <2> HIDE DEF r, names, hosts
  <2>3. ToSet(names) \subseteq S
    BY DEF names
  <2>4. Grounded(c.world, id, r.score) /\ ToSet(r.lead) \subseteq S
    BY <2>1, <2>2, <2>3, LedGrounded
  <2> QED
    BY <2>4 DEF r
<1> QED
  BY <1>1, <1>2

\* Where the mail is handled.
LEMMA MailGrounded ==
  ASSUME NEW c, NEW fs, Readings(c, fs)
  PROVE  /\ Grounded(c.world, "mx_vendor_jurisdiction", mxVendorJurisdiction(fs).score)
         /\ ToSet(mxVendorJurisdiction(fs).lead)
              \subseteq OperatorsOf(c.world, "mx_vendor_jurisdiction", mailOperatorSuffixes)
<1> DEFINE S == OperatorsOf(c.world, "mx_vendor_jurisdiction", mailOperatorSuffixes)
<1>1. \A i \in Rows(fs, "dns.mx") :
        Attr(fs[i], "host") \in HostsAsked(c.world, "mx_vendor_jurisdiction") \cup {""}
  <2>1. HostsAsked(c.world, "mx_vendor_jurisdiction") = {m.host : m \in c.world.mx}
    BY DEF HostsAsked
  <2>2. ASSUME NEW i \in Rows(fs, "dns.mx")
        PROVE  Attr(fs[i], "host") \in {m.host : m \in c.world.mx} \cup {""}
    <3>1. fs[i].probe = "dns.mx" /\ RowTrue(c, fs[i])
      BY ReadRow
    <3> QED
      BY <3>1 DEF RowTrue, NameTrue
  <2> QED
    BY <2>1, <2>2
<1>2. \A f : f.probe = "dns.mx_routing" /\ RowTrue(c, f) => RoutesAmong(f, S)
  BY DEF RowTrue, SynthesisTrue
<1> HIDE DEF S
<1>3. ToSet(observedOperators(fs, "dns.mx_routing")) \subseteq S
  BY <1>2, OperatorsAmong
<1>4. /\ Grounded(c.world, "mx_vendor_jurisdiction", mxVendorJurisdiction(fs).score)
      /\ ToSet(mxVendorJurisdiction(fs).lead) \subseteq S
  BY <1>1, <1>3, VendorGrounded DEF mxVendorJurisdiction
<1> QED
  BY <1>4 DEF S

\* A name server row names a server of the world.
LEMMA ReadNameServer ==
  ASSUME NEW c, NEW fs, Readings(c, fs), NEW i \in Rows(fs, "dns.ns")
  PROVE  Attr(fs[i], "host") \in c.world.ns \cup {""}
<1>1. RowTrue(c, fs[i]) /\ fs[i].probe = "dns.ns"
  BY ReadRow
<1>2. Attr(fs[i], "host") = "" \/ \E h \in c.world.ns : fs[i] = nsFinding(c.world, h)
  BY <1>1 DEF RowTrue, NameTrue
<1>3. CASE Attr(fs[i], "host") # ""
  <2>1. PICK h \in c.world.ns : fs[i] = nsFinding(c.world, h)
    BY <1>2, <1>3
  <2>2. Attr(nsFinding(c.world, h), "host") = h
    BY NsHost
  <2>3. Attr(fs[i], "host") = h
    BY <2>1, <2>2
  <2> QED
    BY <2>3
<1> QED
  BY <1>3

\* Where the zone is served.
LEMMA NameServerGrounded ==
  ASSUME NEW c, NEW fs, Readings(c, fs)
  PROVE  /\ Grounded(c.world, "ns_vendor_jurisdiction", nsVendorJurisdiction(fs).score)
         /\ ToSet(nsVendorJurisdiction(fs).lead)
              \subseteq OperatorsOf(c.world, "ns_vendor_jurisdiction", dnsOperatorSuffixes)
<1> DEFINE S == OperatorsOf(c.world, "ns_vendor_jurisdiction", dnsOperatorSuffixes)
<1>1. \A i \in Rows(fs, "dns.ns") :
        Attr(fs[i], "host") \in HostsAsked(c.world, "ns_vendor_jurisdiction") \cup {""}
  BY ReadNameServer DEF HostsAsked
<1>2. \A f : f.probe = "dns.ns_hosting" /\ RowTrue(c, f) => RoutesAmong(f, S)
  BY DEF RowTrue, SynthesisTrue
<1> HIDE DEF S
<1>3. ToSet(observedOperators(fs, "dns.ns_hosting")) \subseteq S
  BY <1>2, OperatorsAmong
<1>4. /\ Grounded(c.world, "ns_vendor_jurisdiction", nsVendorJurisdiction(fs).score)
      /\ ToSet(nsVendorJurisdiction(fs).lead) \subseteq S
  BY <1>1, <1>3, VendorGrounded DEF nsVendorJurisdiction
<1> QED
  BY <1>4 DEF S

\* The vendors the origin map saw outside the EEA are there.
LEMMA VendorsOutside ==
  ASSUME NEW c, NEW fs, Readings(c, fs)
  PROVE  ToSet(observedNonEEAVendors(fs)) \subseteq OutsideVendors(c.world)
<1> DEFINE p == "http.origin_map"
           vs == Entries(fs, p, "vendors")
           out(v) == v.country \notin eeaCountries \cup {""}
           names == [k \in DOMAIN vs |-> IF out(vs[k]) THEN vs[k].vendor ELSE ""]
<1>1. IsList(vs) /\ \A k \in DOMAIN vs : out(vs[k]) => vs[k].vendor \in OutsideVendors(c.world)
  <2>1. CASE Has(fs, p)
    <3> DEFINE f == fs[FirstRow(Rows(fs, p))]
    <3>1. f.probe = p /\ RowTrue(c, f)
      BY <2>1, PickedOfProbe DEF Has
    <3>2. vs = f.attrs.vendors
      BY <2>1 DEF Entries
    <3> HIDE DEF f, vs
    <3> QED
      BY <3>1, <3>2 DEF RowTrue, SynthesisTrue
  <2>2. CASE ~Has(fs, p)
    <3>1. vs = <<>>
      BY <2>2 DEF Entries
    <3>2. DOMAIN <<>> = {}
      OBVIOUS
    <3> HIDE DEF vs
    <3> QED
      BY <3>1, <3>2, NoList
  <2> QED
    BY <2>1, <2>2
<1>2. observedNonEEAVendors(fs) = Distinct(names)
  BY DEF observedNonEEAVendors
<1> HIDE DEF vs, out
<1>3. /\ names = [k \in DOMAIN vs |-> names[k]]
      /\ \A k \in DOMAIN vs : names[k] = IF out(vs[k]) THEN vs[k].vendor ELSE ""
  OBVIOUS
<1> HIDE DEF names
<1>4. \A a \in ToSet(Distinct(names)) : \E k \in DOMAIN vs : a = names[k] /\ a # ""
  BY <1>1, <1>3, DistinctNames
<1>5. ASSUME NEW a \in ToSet(observedNonEEAVendors(fs)) PROVE a \in OutsideVendors(c.world)
  <2>1. PICK k \in DOMAIN vs : a = names[k] /\ a # ""
    BY <1>2, <1>4
  <2>2. out(vs[k]) /\ a = vs[k].vendor
    BY <1>3, <2>1
  <2> QED
    BY <1>1, <2>2
<1> QED
  BY <1>5

\* Where the third parties of the page are.
LEMMA ThirdPartiesGrounded ==
  ASSUME NEW c, NEW fs, Readings(c, fs)
  PROVE  /\ Grounded(c.world, "third_parties_eea", thirdPartiesEEA(fs).score)
         /\ ToSet(thirdPartiesEEA(fs).lead) \subseteq OutsideVendors(c.world)
<1> DEFINE T == Rows(fs, "http.third_party")
           hosts == {fs[i].subject : i \in T}
           last == {i \in T : \A j \in T : fs[j].subject = fs[i].subject => j <= i}
           I == AsnRows(fs, hosts)
           r == jurisdictionTally(fs, I, last)
           names == observedNonEEAVendors(fs)
           t == thirdPartiesEEA(fs)
<1>1. hosts \in SUBSET HostsAsked(c.world, "third_parties_eea")
  <2>1. HostsAsked(c.world, "third_parties_eea") = c.world.http.third
    BY DEF HostsAsked
  <2>2. ASSUME NEW i \in T PROVE fs[i].subject \in c.world.http.third
    <3>1. fs[i].probe = "http.third_party" /\ RowTrue(c, fs[i])
      BY ReadRow
    <3> QED
      BY <3>1 DEF RowTrue, NameTrue
  <2> QED
    BY <2>1, <2>2
<1>2. t = NoEvidence \/ t = r \/ t = LedBy(fs, I, r, names)
  BY DEF thirdPartiesEEA
<1>3. ToSet(names) \subseteq OutsideVendors(c.world)
  BY VendorsOutside
<1> HIDE DEF hosts, last, names, t
<1>4. /\ Grounded(c.world, "third_parties_eea", r.score) /\ r.lead = <<>>
      /\ Grounded(c.world, "third_parties_eea", LedBy(fs, I, r, names).score)
      /\ ToSet(LedBy(fs, I, r, names).lead) \subseteq OutsideVendors(c.world)
  BY <1>1, <1>3, LedGrounded
<1> HIDE DEF I, r
<1>5. /\ Grounded(c.world, "third_parties_eea", t.score)
      /\ ToSet(t.lead) \subseteq OutsideVendors(c.world)
  BY <1>2, <1>4, NoEvidenceGrounded, NoList
<1> QED
  BY <1>5 DEF t

\* An American operator is blamed only when it is there.
LEMMA HyperscalerDeserved ==
  ASSUME NEW c, NEW fs, Readings(c, fs), noUSHyperscaler(fs).score = Afhankelijk
  PROVE  \E g \in Geos(c.world, "no_us_hyperscaler") : usHyperscalerOrg(g.org)
<1> DEFINE I == Rows(fs, "ip.asn")
           matched == {i \in I : usHyperscalerOrg(Attr(fs[i], "organisation"))}
<1>1. matched # {}
  <2> SUFFICES ASSUME matched = {} PROVE noUSHyperscaler(fs).score # Afhankelijk
    OBVIOUS
  <2>1. noUSHyperscaler(fs) = NoEvidence \/ \E e : noUSHyperscaler(fs) = Scored(Voldoende, e)
    BY DEF noUSHyperscaler
  <2> QED
    BY <2>1, ResultFields, Scores
<1>2. PICK i \in matched : TRUE
  BY <1>1
<1>3. RowTrue(c, fs[i]) /\ fs[i].probe = "ip.asn"
  BY <1>2, ReadRow
<1>4. fs[i].subject \in HostsAsked(c.world, "no_us_hyperscaler")
  BY <1>3 DEF RowTrue, NameTrue
<1>5. PICK g \in Geos(c.world, "no_us_hyperscaler") : SaysOf(fs[i], g)
  BY <1>2, <1>4, AsnSays
<1> QED
  BY <1>2, <1>5 DEF SaysOf

(***************************************************************************)
(* The rules that read one row.                                            *)
(***************************************************************************)
\* What is picked from some rows of a probe.
LEMMA PickedAmong ==
  ASSUME NEW c, NEW fs, Readings(c, fs), NEW p, p # "internetnl",
         NEW I \in SUBSET Rows(fs, p), I # {}
  PROVE  /\ FirstRow(I) \in I /\ LastRow(I) \in I
         /\ fs[FirstRow(I)].probe = p /\ RowTrue(c, fs[FirstRow(I)])
         /\ fs[LastRow(I)].probe = p /\ RowTrue(c, fs[LastRow(I)])
<1>1. IsList(fs) /\ I \in SUBSET DOMAIN fs
  BY DEF Readings, Rows
<1>2. FirstRow(I) \in I /\ LastRow(I) \in I
  BY <1>1, PickedRow
<1> QED
  BY <1>2, ReadRow

\* Where the certificate was issued.
LEMMA IssuerGrounded ==
  ASSUME NEW c, NEW fs, Readings(c, fs)
  PROVE  LET s == certIssuerEEA(fs).score
             C == c.world.cert.countries
         IN  /\ s = Afhankelijk => ~(C \subseteq eeaCountries)
             /\ s = Soeverein => C \cap eeaCountries # {}
<1> DEFINE I == {i \in Rows(fs, "tls.issuer") : Strs(fs[i], "issuer_country") # {}}
           D == Strs(fs[FirstRow(I)], "issuer_country")
           C == c.world.cert.countries
           s == certIssuerEEA(fs).score
<1>1. CASE I = {}
  <2>1. s = Onbekend
    BY <1>1, ResultFields DEF certIssuerEEA
  <2> QED
    BY <2>1, Scores
<1>2. CASE I # {}
  <2>1. PICK lead : certIssuerEEA(fs)
                      = [Scored(Share(D \cap eeaCountries, D), {FirstRow(I)}) EXCEPT !.lead = lead]
    BY <1>2 DEF certIssuerEEA
  <2>2. D # {} /\ D = C
    <3>a. I \in SUBSET Rows(fs, "tls.issuer") /\ \A i \in I : Strs(fs[i], "issuer_country") # {}
      OBVIOUS
    <3> HIDE DEF I
    <3>1. FirstRow(I) \in I /\ fs[FirstRow(I)].probe = "tls.issuer" /\ RowTrue(c, fs[FirstRow(I)])
      BY <1>2, <3>a, PickedAmong
    <3>2. D # {}
      BY <3>a, <3>1
    <3> QED
      BY <3>1, <3>2 DEF RowTrue, SiteTrue
  <2> HIDE DEF D
  <2>3. s = Share(D \cap eeaCountries, D)
    BY <2>1 DEF Scored, Result
  <2> HIDE DEF s
  <2>4. s = Afhankelijk => D \cap eeaCountries = {}
    BY <2>3, Scores DEF Share
  <2>5. s = Soeverein => D \cap eeaCountries = D
    BY <2>3, Scores DEF Share
  <2>6. /\ s = Afhankelijk => ~(C \subseteq eeaCountries)
        /\ s = Soeverein => C \cap eeaCountries # {}
    BY <2>2, <2>4, <2>5
  <2> QED
    BY <2>6 DEF s
<1> QED
  BY <1>1, <1>2

\* How long the certificate lasts.
LEMMA ValidityGrounded ==
  ASSUME NEW c, NEW fs, Readings(c, fs), c.world.cert.left \in Int
  PROVE  LET s == certValidity(fs).score
         IN  /\ s = Afhankelijk => c.world.cert.left < 0
             /\ s = Soeverein => c.world.cert.left >= expiringSoonThresholdDays
<1> DEFINE I == Rows(fs, "tls.validity")
           f == fs[FirstRow(I)]
           s == certValidity(fs).score
<1>1. CASE I = {}
  <2>1. s = Onbekend
    BY <1>1, ResultFields DEF certValidity
  <2> QED
    BY <2>1, Scores
<1>2. CASE I # {}
  <2>1. f.probe = "tls.validity" /\ RowTrue(c, f)
    BY <1>2, PickedAmong
  <2>2. s = IF Flag(f, "expired") THEN Afhankelijk
            ELSE IF Flag(f, "expiring_soon") THEN Voldoende ELSE Soeverein
    BY <1>2, ResultFields DEF certValidity
  <2> HIDE DEF f, s
  <2>3. /\ Flag(f, "expired") <=> c.world.cert.left < 0
        /\ Flag(f, "expiring_soon") <=> c.world.cert.left \in 0 .. expiringSoonThresholdDays - 1
    BY <2>1 DEF RowTrue, SiteTrue
  <2>4. s = Afhankelijk => Flag(f, "expired")
    BY <2>2, Scores
  <2>5. s = Soeverein => ~Flag(f, "expired") /\ ~Flag(f, "expiring_soon")
    BY <2>2, Scores
  <2>6. expiringSoonThresholdDays \in Int
    BY DEF expiringSoonThresholdDays
  <2>7. /\ s = Afhankelijk => c.world.cert.left < 0
        /\ s = Soeverein => c.world.cert.left >= expiringSoonThresholdDays
    BY <2>3, <2>4, <2>5, <2>6
  <2> QED
    BY <2>7 DEF s
<1> QED
  BY <1>1, <1>2

\* Too few name servers are blamed only when there are: either every server
\* of the zone was stored or none (nsFindings).
LEMMA RedundancyDeserved ==
  ASSUME NEW c, NEW fs, Readings(c, fs), IsWorld(c.world), dnsRedundancy(fs).score = Afhankelijk
  PROVE  Cardinality(c.world.ns) < 2
<1> DEFINE x == c.world
           I == HostRows(fs, "dns.ns")
           H == HostsOf(fs, I)
           s == dnsRedundancy(fs).score
<1>1. I # {}
  <2>1. I = {} => s = Onbekend
    BY ResultFields DEF dnsRedundancy
  <2> QED
    BY <2>1, Scores
<1>2. Cardinality(H) < 2
  <2>1. s = IF Cardinality(H) < 2 THEN Afhankelijk ELSE Voldoende
    BY <1>1, ResultFields DEF dnsRedundancy, dnsRedundancyMinNameservers
  <2> HIDE DEF H
  <2> QED
    BY <2>1, Scores
<1>3. \A h \in x.ns : nsFinding(x, h) \in ToSet(fs)
  <2>1. PICK i \in I : TRUE
    BY <1>1
  <2>2. fs[i] \in ToSet(fs) /\ fs[i].probe = "dns.ns" /\ Attr(fs[i], "host") # ""
    BY <2>1, ReadRow DEF HostRows
  <2>3. \E f \in ToSet(fs) : f.probe = "dns.ns" /\ Attr(f, "host") # ""
    BY <2>2
  <2> QED
    BY <2>3 DEF Readings
<1>4. ASSUME NEW h \in x.ns PROVE h \in H
  <2>1. nsFinding(x, h) \in ToSet(fs) /\ IsList(fs)
    BY <1>3 DEF Readings
  <2>2. PICK i \in DOMAIN fs : fs[i] = nsFinding(x, h)
    BY <2>1, ListDomain
  <2>3. Attr(nsFinding(x, h), "host") = h /\ nsFinding(x, h).probe = "dns.ns"
    BY NsHost
  <2>4. h # ""
    BY DEF IsWorld
  <2>5. i \in Rows(fs, "dns.ns") /\ Attr(fs[i], "host") = h
    BY <2>2, <2>3 DEF Rows
  <2>6. i \in I
    BY <2>4, <2>5 DEF HostRows
  <2> QED
    BY <2>5, <2>6 DEF HostsOf
<1>5. ASSUME NEW h \in H PROVE h \in x.ns
  <2>1. PICK i \in I : h = Attr(fs[i], "host")
    BY DEF HostsOf
  <2>2. i \in Rows(fs, "dns.ns") /\ Attr(fs[i], "host") # ""
    BY <2>1 DEF HostRows
  <2>3. Attr(fs[i], "host") \in x.ns \cup {""}
    BY <2>2, ReadNameServer
  <2> QED
    BY <2>1, <2>2, <2>3
<1>6. H = x.ns
  <2> HIDE DEF H
  <2> QED
    BY <1>4, <1>5
<1> QED
  BY <1>2, <1>6

\* Missing CAA records are blamed only when no name up to the TLD has one.
LEMMA CaaDeserved ==
  ASSUME NEW c, NEW fs, Readings(c, fs), caaRestricts(fs).score = Afhankelijk
  PROVE  \A k \in DOMAIN c.world.caa : c.world.caa[k] = {}
<1> DEFINE I == Rows(fs, "dns.caa")
           noAnswer1 == {i \in I : "no_answer" \in DOMAIN fs[i].attrs}
<1>1. noAnswer1 # {}
  <2> SUFFICES ASSUME noAnswer1 = {} PROVE caaRestricts(fs).score # Afhankelijk
    OBVIOUS
  <2>1. caaRestricts(fs) = NoEvidence \/ \E e : caaRestricts(fs) = Scored(Voldoende, e)
    BY DEF caaRestricts
  <2> QED
    BY <2>1, ResultFields, Scores
<1>2. PICK i \in I : "no_answer" \in DOMAIN fs[i].attrs
  BY <1>1
<1>3. RowTrue(c, fs[i]) /\ fs[i].probe = "dns.caa"
  BY ReadRow
<1> QED
  BY <1>2, <1>3 DEF RowTrue, NameTrue

\* Whether a reseller stands between.
LEMMA ResellerGrounded ==
  ASSUME NEW c, NEW fs, Readings(c, fs)
  PROVE  LET s == noReseller(fs).score
         IN  /\ s = Afhankelijk => c.world.rdap.reseller
             /\ s = Soeverein => ~c.world.rdap.reseller
<1> DEFINE I == Rows(fs, "whois.reseller")
           f == fs[FirstRow(I)]
           s == noReseller(fs).score
<1>1. CASE I = {}
  <2>1. s = Onbekend
    BY <1>1, ResultFields DEF noReseller
  <2> QED
    BY <2>1, Scores
<1>2. CASE I # {}
  <2>1. f.probe = "whois.reseller" /\ RowTrue(c, f)
    BY <1>2, PickedAmong
  <2>2. s = IF Flag(f, "present") THEN Afhankelijk ELSE Soeverein
    BY <1>2, ResultFields DEF noReseller
  <2> HIDE DEF f, s
  <2>3. Flag(f, "present") <=> c.world.rdap.reseller
    BY <2>1 DEF RowTrue, HolderTrue
  <2>4. /\ s = Afhankelijk => c.world.rdap.reseller
        /\ s = Soeverein => ~c.world.rdap.reseller
    BY <2>2, <2>3, Scores
  <2> QED
    BY <2>4 DEF s
<1> QED
  BY <1>1, <1>2

\* What security.txt says.
LEMMA SecuritytxtGrounded ==
  ASSUME NEW c, NEW fs, Readings(c, fs), IsWorld(c.world), NEW day
  PROVE  LET s == securitytxt(fs, day).score
             t == c.world.sectxt
         IN  /\ s = Afhankelijk => ~t.present
             /\ s = Soeverein => t.present /\ t.expires[2] > day
<1> DEFINE I == Rows(fs, "http.securitytxt")
           f == fs[FirstRow(I)]
           s == securitytxt(fs, day).score
           t == c.world.sectxt
<1>1. CASE I = {}
  <2>1. s = Onbekend
    BY <1>1, ResultFields DEF securitytxt
  <2> QED
    BY <2>1, Scores
<1>2. CASE I # {}
  <2>1. f.probe = "http.securitytxt" /\ RowTrue(c, f)
    BY <1>2, PickedAmong
  <2> DEFINE good == /\ Flag(f, "parseable") /\ Flag(f, "contact")
                     /\ f.attrs.expires[1] = "ok" /\ f.attrs.expires[2] > day
  <2>2. s = IF ~Flag(f, "present") THEN Afhankelijk ELSE IF good THEN Soeverein ELSE Voldoende
    BY <1>2, ResultFields DEF securitytxt
  <2> HIDE DEF f, s
  <2>3. f.attrs = t
    BY <2>1 DEF RowTrue, SiteTrue
  <2>4. Flag(f, "present") <=> t.present
    BY <2>3, Zenon DEF Flag, IsWorld
  <2>5. good => t.expires[2] > day
    BY <2>3
  <2> HIDE DEF good
  <2>6. /\ s = Afhankelijk => ~t.present
        /\ s = Soeverein => t.present /\ t.expires[2] > day
    BY <2>2, <2>4, <2>5, Scores
  <2> QED
    BY <2>6 DEF s
<1> QED
  BY <1>1, <1>2

\* Who holds the name servers' domains.
LEMMA HolderGrounded ==
  ASSUME NEW c, NEW fs, Readings(c, fs)
  PROVE  LET s == nsHolderTransparent(fs).score
             H == c.world.holder
         IN  /\ s = Afhankelijk => \E d \in DOMAIN H : H[d] # "named"
             /\ s = Soeverein => \E d \in DOMAIN H : H[d] = "named"
<1> DEFINE I == Rows(fs, "whois.ns_holder")
           P == {i \in I : Attr(fs[i], "registrant") = "present"}
           H == c.world.holder
           s == nsHolderTransparent(fs).score
<1>1. CASE I = {}
  <2>1. s = Onbekend
    BY <1>1, ResultFields DEF nsHolderTransparent
  <2> QED
    BY <2>1, Scores
<1>2. CASE I # {}
  <2>1. s = Share(P, I)
    BY <1>2, ResultFields DEF nsHolderTransparent
  <2>2. PICK i \in I : TRUE
    BY <1>2
  <2>3. fs[i].probe = "whois.ns_holder" /\ RowTrue(c, fs[i])
    BY ReadRow
  <2>4. /\ fs[i].subject \in DOMAIN H
        /\ Attr(fs[i], "registrant") = "present" <=> H[fs[i].subject] = "named"
    BY <2>3 DEF RowTrue, HolderTrue
  <2>5. i \in P <=> H[fs[i].subject] = "named"
    BY <2>2, <2>4
  <2> HIDE DEF P, s
  <2>6. s = Afhankelijk => P = {}
    BY <2>1, Scores DEF Share
  <2>7. s = Soeverein => P = I
    BY <2>1, Scores DEF Share
  <2>8. /\ s = Afhankelijk => \E d \in DOMAIN H : H[d] # "named"
        /\ s = Soeverein => \E d \in DOMAIN H : H[d] = "named"
    BY <2>2, <2>4, <2>5, <2>6, <2>7
  <2> QED
    BY <2>8 DEF s
<1> QED
  BY <1>1, <1>2

\* When the registration ends.
LEMMA ExpiryGrounded ==
  ASSUME NEW c, NEW fs, Readings(c, fs), IsWorld(c.world), NEW day \in Int
  PROVE  LET s == domainExpiry(fs, day).score
             e == c.world.rdap.expiry
         IN  /\ s = Afhankelijk => e # <<>> /\ e[2] - day <= domainExpiryUrgentDays
             /\ s = Soeverein => e[2] - day > domainExpirySafeDays
<1> DEFINE I == Rows(fs, "whois.expiry")
           f == fs[LastRow(I)]
           s == domainExpiry(fs, day).score
           e == c.world.rdap.expiry
           left == f.attrs.date[2] - day
<1>1. CASE I = {}
  <2>1. \E g : domainExpiry(fs, day) = Unavailable(g)
    BY <1>1 DEF domainExpiry
  <2> QED
    BY <2>1, ResultFields, Scores
<1>2. CASE I # {}
  <2>1. f.probe = "whois.expiry" /\ RowTrue(c, f)
    BY <1>2, PickedAmong
  <2>2. CASE ~Flag(f, "present") \/ f.attrs.date[1] = "bad"
    <3>1. s = Onbekend
      BY <1>2, <2>2, ResultFields DEF domainExpiry
    <3> QED
      BY <3>1, Scores
  <2>3. CASE Flag(f, "present") /\ f.attrs.date[1] # "bad"
    <3>1. s = IF left > domainExpirySafeDays THEN Soeverein
              ELSE IF left > domainExpiryUrgentDays THEN Voldoende ELSE Afhankelijk
      BY <1>2, <2>3, ResultFields DEF domainExpiry
    <3>2. e # <<>> /\ f.attrs.date = e
      BY <2>1, <2>3 DEF RowTrue, HolderTrue
    <3>3. e[2] \in Int
      BY <3>2 DEF IsWorld
    <3>4. left = e[2] - day
      BY <3>2
    <3> HIDE DEF s, left, e
    <3>5. s = Soeverein => left > domainExpirySafeDays
      BY <3>1, Scores
    <3>6. s = Afhankelijk => ~(left > domainExpiryUrgentDays)
      BY <3>1, Scores
    <3>7. /\ s = Afhankelijk => e # <<>> /\ e[2] - day <= domainExpiryUrgentDays
          /\ s = Soeverein => e[2] - day > domainExpirySafeDays
      BY <3>2, <3>3, <3>4, <3>5, <3>6 DEF domainExpiryUrgentDays, domainExpirySafeDays
    <3> QED
      BY <3>7 DEF s, e
  <2> QED
    BY <2>2, <2>3
<1> QED
  BY <1>1, <1>2

\* Who registered the domain.
LEMMA RegistrantGrounded ==
  ASSUME NEW c, NEW fs, Readings(c, fs)
  PROVE  LET s == registrantIdentifiable(fs).score
             n == c.world.rdap.name
         IN  /\ s = Afhankelijk => \/ n \in {<<>>, <<"absent">>}
                                   \/ ToSet(n) \cap PrivacyProxyWords # {}
             /\ s = Soeverein => n # <<>> /\ c.expected # {}
<1> DEFINE I == Rows(fs, "whois.registrant_identity")
           f == fs[LastRow(I)]
           s == registrantIdentifiable(fs).score
           n == c.world.rdap.name
           name == f.attrs.name
           E == expectedRegistrantNames(fs)
           redacted == tldOf(accountabilityDomain(fs)) \in RegistryRedactionTLDs
<1>1. CASE redacted \/ I = {}
  <2>1. \E g, r : registrantIdentifiable(fs) = Result(Onbekend, g, r)
    BY <1>1 DEF registrantIdentifiable, Unavailable
  <2> QED
    BY <2>1, ResultFields, Scores
<1>2. CASE ~redacted /\ I # {}
  <2>1. f.probe = "whois.registrant_identity" /\ RowTrue(c, f)
    BY <1>2, PickedAmong
  <2>2. s = IF ToSet(name) \cap PrivacyProxyWords # {} THEN Afhankelijk
            ELSE IF name \in {<<>>, <<"absent">>} THEN Afhankelijk
            ELSE IF matchesExpectedRegistrant(name, E) THEN Soeverein ELSE Voldoende
    BY <1>2, ResultFields DEF registrantIdentifiable
  <2> HIDE DEF f, s, E
  <2>3. name = IF n = <<>> THEN <<"absent">> ELSE n
    BY <2>1 DEF RowTrue, HolderTrue
  <2>4. E # {} => c.expected # {}
    <3> DEFINE R == Rows(fs, "config.expected_registrant")
               g == fs[FirstRow(R)]
    <3>1. E = IF R = {} THEN {} ELSE Strs(g, "expected_registrant")
      BY DEF E, expectedRegistrantNames
    <3>2. R # {} => g.probe = "config.expected_registrant" /\ RowTrue(c, g)
      BY PickedAmong
    <3> HIDE DEF g, R
    <3>3. R # {} => Strs(g, "expected_registrant") = c.expected
      BY <3>2 DEF RowTrue, HolderTrue
    <3> QED
      BY <3>1, <3>3
  <2>5. matchesExpectedRegistrant(name, E) => E # {}
    BY DEF matchesExpectedRegistrant
  <2>6. s = Afhankelijk => \/ name \in {<<>>, <<"absent">>}
                           \/ ToSet(name) \cap PrivacyProxyWords # {}
    BY <2>2, Scores
  <2>7. s = Soeverein => name \notin {<<>>, <<"absent">>} /\ E # {}
    BY <2>2, <2>5, Scores
  <2> HIDE DEF name, n
  <2>8. /\ s = Afhankelijk => \/ n \in {<<>>, <<"absent">>}
                              \/ ToSet(n) \cap PrivacyProxyWords # {}
        /\ s = Soeverein => n # <<>> /\ c.expected # {}
    BY <2>3, <2>4, <2>6, <2>7
  <2> QED
    BY <2>8 DEF s, n
<1> QED
  BY <1>1, <1>2

\* The mailbox of the zone is praised only when it can be reached.
LEMMA SoaEarned ==
  ASSUME NEW c, NEW fs, Readings(c, fs), soaRname(fs).score = Soeverein
  PROVE  c.world.soa.mx /\ Resolve(c.world, c.world.soa.mailbox) # <<>>
<1> DEFINE I == Rows(fs, "dns.soa")
           f == fs[FirstRow(I)]
           s == soaRname(fs).score
<1>1. I # {}
  <2>1. I = {} => s = Onbekend
    BY ResultFields DEF soaRname
  <2> QED
    BY <2>1, Scores
<1>2. f.probe = "dns.soa" /\ RowTrue(c, f)
  BY <1>1, PickedAmong
<1>3. s = IF Attr(f, "rname_parse_error") # "" THEN Onbekend
          ELSE IF Flag(f, "mailbox_domain_resolves") /\ Flag(f, "mailbox_domain_has_mx")
          THEN Soeverein
          ELSE IF Flag(f, "mailbox_domain_resolves") THEN Voldoende ELSE Afhankelijk
  BY <1>1, ResultFields DEF soaRname
<1> HIDE DEF f
<1>4. Flag(f, "mailbox_domain_resolves") /\ Flag(f, "mailbox_domain_has_mx")
  BY <1>3, Scores
<1> QED
  BY <1>2, <1>4 DEF RowTrue, HolderTrue

\* The headers are praised only when a page had them all.
LEMMA ExposureEarned ==
  ASSUME NEW c, NEW fs, Readings(c, fs), httpExposure(fs).score = Soeverein
  PROVE  {} \in {c.world.http.missing, c.world.http.missingPlain}
<1> DEFINE I == {i \in Rows(fs, "http.security_headers") : IsEvidenceLike(fs[i])}
           f == fs[LastRow(I)]
           s == httpExposure(fs).score
           missing == Strs(f, "missing")
<1>1. I # {}
  <2>1. I = {} => s = Onbekend
    BY ResultFields DEF httpExposure
  <2> QED
    BY <2>1, Scores
<1>2. s = IF "Strict-Transport-Security" \in missing THEN Afhankelijk
          ELSE IF missing # {} THEN Voldoende ELSE Soeverein
  BY <1>1, ResultFields DEF httpExposure
<1>3. f.probe = "http.security_headers" /\ RowTrue(c, f)
  <2>1. I \in SUBSET Rows(fs, "http.security_headers")
    OBVIOUS
  <2> HIDE DEF I
  <2> QED
    BY <1>1, <2>1, PickedAmong
<1> HIDE DEF f
<1>4. missing = {}
  BY <1>2, Scores
<1>5. missing \in {c.world.http.missing, c.world.http.missingPlain}
  BY <1>3 DEF RowTrue, SiteTrue
<1> QED
  BY <1>4, <1>5

(***************************************************************************)
(* The route and the doors.                                                *)
(***************************************************************************)
\* What the row of a hop says.
LEMMA HopFields ==
  ASSUME NEW x, NEW k
  PROVE  /\ hopFinding(x, k).probe = "transit.hop"
         /\ hopFinding(x, k).attrs.hop = k
         /\ IsEvidenceLike(hopFinding(x, k))
         /\ Attr(hopFinding(x, k), "country")
              = IF x.hops[k].reply /\ x.geoip THEN x.hops[k].country ELSE ""
<1> DEFINE a == IF ~x.hops[k].reply THEN [hop |-> k, no_reply |-> TRUE]
                ELSE IF x.geoip THEN [hop |-> k, country |-> x.hops[k].country]
                ELSE [hop |-> k]
           f == hopFinding(x, k)
<1>1. f.probe = "transit.hop" /\ f.attrs = a
  BY FindingFields DEF hopFinding
<1>2. /\ a.hop = k
      /\ DOMAIN a \subseteq {"hop", "no_reply", "country"}
  OBVIOUS
<1>3. "country" \in DOMAIN a <=> x.hops[k].reply /\ x.geoip
  OBVIOUS
<1>4. x.hops[k].reply /\ x.geoip => a["country"] = x.hops[k].country
  OBVIOUS
<1> HIDE DEF a, f
<1>5. IsEvidenceLike(f)
  BY <1>1, <1>2 DEF IsEvidenceLike, Attr, Flag
<1>6. Attr(f, "country") = IF x.hops[k].reply /\ x.geoip THEN x.hops[k].country ELSE ""
  BY <1>1, <1>3, <1>4 DEF Attr
<1> QED
  BY <1>1, <1>2, <1>5, <1>6 DEF f

\* The country that scores is that of the last hop that can be located.
LEMMA RouteGrounded ==
  ASSUME NEW c, NEW fs, Readings(c, fs), IsWorld(c.world)
  PROVE  LET s == transitEUPath(fs).score
             x == c.world
         IN  /\ s = Afhankelijk => Located(x) # {} /\ HostedIn(x) \notin eeaCountries
             /\ s = Soeverein => Located(x) # {} /\ HostedIn(x) \in eeaCountries
<1> DEFINE x == c.world
           s == transitEUPath(fs).score
           hops == {i \in Rows(fs, "transit.hop") :
                      IsEvidenceLike(fs[i]) /\ Attr(fs[i], "country") # ""}
           Before(i, j) == \/ fs[i].attrs.hop < fs[j].attrs.hop
                           \/ fs[i].attrs.hop = fs[j].attrs.hop /\ i <= j
           Latest(i) == \A j \in hops : Before(j, i)
           dest == CHOOSE i \in hops : Latest(i)
           L == Located(x)
           m == Max(L)
<1>1. CASE hops = {}
  <2>1. s = Onbekend
    BY <1>1, ResultFields DEF transitEUPath
  <2> QED
    BY <2>1, Scores
<1>2. CASE hops # {}
  <2>1. s = IF Attr(fs[dest], "country") \in eeaCountries THEN Soeverein ELSE Afhankelijk
    BY <1>2, ResultFields DEF transitEUPath
  <2>a. ASSUME NEW i PROVE i \in hops <=> /\ i \in Rows(fs, "transit.hop")
                                          /\ IsEvidenceLike(fs[i]) /\ Attr(fs[i], "country") # ""
    OBVIOUS
  <2> HIDE DEF hops, Before, Latest, dest
  <2>2. ASSUME NEW i \in hops
        PROVE  /\ i \in 1 .. Len(fs) /\ Len(fs) \in Nat
               /\ fs[i].attrs.hop \in L /\ x.geoip /\ fs[i] \in ToSet(fs)
               /\ Attr(fs[i], "country") = x.hops[fs[i].attrs.hop].country
    <3>1. /\ i \in 1 .. Len(fs) /\ Len(fs) \in Nat /\ fs[i] \in ToSet(fs)
          /\ fs[i].probe = "transit.hop" /\ RowTrue(c, fs[i])
      BY <2>a, ReadRow
    <3>2. PICK k \in DOMAIN x.hops : fs[i] = hopFinding(x, k)
      BY <3>1 DEF RowTrue, SiteTrue
    <3>3. /\ hopFinding(x, k).attrs.hop = k
          /\ Attr(hopFinding(x, k), "country")
               = IF x.hops[k].reply /\ x.geoip THEN x.hops[k].country ELSE ""
      BY ZenonT(60), HopFields
    <3>4. fs[i].attrs.hop = k /\ Attr(fs[i], "country") # ""
          /\ Attr(fs[i], "country") = IF x.hops[k].reply /\ x.geoip THEN x.hops[k].country ELSE ""
      BY <2>a, <3>2, <3>3
    <3>5. x.hops[k].reply /\ x.geoip /\ x.hops[k].country # ""
      BY <3>4
    <3>6. k \in L
      BY <3>5 DEF Located
    <3> QED
      BY <3>1, <3>4, <3>5, <3>6
  <2>3. PICK i0 \in hops : TRUE
    BY <1>2
  <2>4. L # {} /\ x.geoip
    BY <2>2, <2>3
  <2>5. /\ m \in L /\ \A k \in L : k <= m
        /\ L \in SUBSET Nat
    <3>1. Len(x.hops) \in Nat /\ DOMAIN x.hops = 1 .. Len(x.hops)
      BY ListDomain DEF IsWorld
    <3>2. \A k \in L : k \in DOMAIN x.hops
      BY DEF Located
    <3> DEFINE n == Len(x.hops)
    <3> HIDE DEF L, n
    <3>3. n \in Nat /\ \A k \in L : k \in 0 .. n /\ k \in Nat
      BY <3>1, <3>2 DEF n
    <3>4. Max(L) \in L /\ \A k \in L : k <= Max(L)
      BY <2>4, <3>3, GreatestPicked
    <3> QED
      BY <3>3, <3>4
  <2>6. PICK j0 \in hops : fs[j0].attrs.hop = m
    <3>1. m \in DOMAIN x.hops /\ x.hops[m].reply /\ x.hops[m].country # ""
      BY <2>5 DEF Located
    <3>2. hopFinding(x, m) \in ToSet(fs)
      <4>1. fs[i0] \in ToSet(fs) /\ fs[i0].probe = "transit.hop"
        BY <2>a, <2>2, <2>3 DEF Rows
      <4>2. \A k \in DOMAIN x.hops : hopFinding(x, k) \in ToSet(fs)
        BY <4>1 DEF Readings
      <4> QED
        BY <3>1, <4>2
    <3>3. PICK j \in DOMAIN fs : fs[j] = hopFinding(x, m)
      BY <3>2, ListDomain DEF Readings
    <3>4. /\ hopFinding(x, m).probe = "transit.hop" /\ hopFinding(x, m).attrs.hop = m
          /\ IsEvidenceLike(hopFinding(x, m))
          /\ Attr(hopFinding(x, m), "country") = x.hops[m].country
      <4> HIDE DEF m
      <4> QED
        BY <2>4, <3>1, HopFields
    <3> HIDE DEF m
    <3>5. j \in Rows(fs, "transit.hop") /\ IsEvidenceLike(fs[j]) /\ Attr(fs[j], "country") # ""
          /\ fs[j].attrs.hop = m
      BY <3>1, <3>3, <3>4 DEF Rows
    <3> QED
      BY <2>a, <3>5
  <2> HIDE DEF m, L
  <2> DEFINE J == {j \in hops : fs[j].attrs.hop = m}
  <2>7. Max(J) \in J /\ \A j \in J : j <= Max(J)
    <3>1. Len(fs) \in Nat /\ J # {}
      BY <2>2, <2>6
    <3>2. ASSUME NEW j \in J PROVE j \in 0 .. Len(fs)
      <4>1. j \in hops
        OBVIOUS
      <4>2. j \in 1 .. Len(fs)
        BY <2>2, <4>1
      <4> QED
        BY <3>1, <4>2
    <3> HIDE DEF J
    <3> QED
      BY <3>1, <3>2, GreatestPicked
  <2>8. Latest(Max(J))
    <3>1. Max(J) \in hops /\ fs[Max(J)].attrs.hop = m
      BY <2>7
    <3>2. ASSUME NEW j \in hops PROVE Before(j, Max(J))
      <4>1. fs[j].attrs.hop \in L
        BY <2>2
      <4>2. fs[j].attrs.hop <= m /\ fs[j].attrs.hop \in Nat /\ m \in Nat
        BY <2>5, <4>1
      <4>3. CASE fs[j].attrs.hop = m
        <5>1. j \in J
          BY <4>3
        <5> QED
          BY <2>7, <3>1, <4>3, <5>1 DEF Before
      <4>4. CASE fs[j].attrs.hop # m
        <5>1. fs[j].attrs.hop < m
          <6> DEFINE h == fs[j].attrs.hop
          <6> HIDE DEF h
          <6>1. h <= m /\ h \in Nat /\ m \in Nat /\ h # m
            BY <4>2, <4>4 DEF h
          <6>2. h < m
            BY <6>1
          <6> QED
            BY <6>2 DEF h
        <5> QED
          BY <3>1, <5>1 DEF Before
      <4> QED
        BY <4>3, <4>4
    <3> QED
      BY <3>2 DEF Latest
  <2>9. dest \in hops /\ Latest(dest)
    <3>1. \E i \in hops : Latest(i)
      BY <2>7, <2>8
    <3> QED
      BY <3>1, Zenon DEF dest
  <2>10. fs[dest].attrs.hop = m
    <3>1. Before(j0, dest)
      BY <2>9, <2>6 DEF Latest
    <3>2. fs[dest].attrs.hop \in L
      BY <2>2, <2>9
    <3>3. fs[dest].attrs.hop <= m /\ fs[dest].attrs.hop \in Nat /\ m \in Nat
      BY <2>5, <3>2
    <3> DEFINE h == fs[dest].attrs.hop
    <3>4. m < h \/ m = h
      BY <3>1, <2>6 DEF Before
    <3> HIDE DEF h
    <3>5. h = m
      BY <3>3, <3>4 DEF h
    <3> QED
      BY <3>5 DEF h
  <2>11. Attr(fs[dest], "country") = HostedIn(x)
    BY <2>2, <2>9, <2>10 DEF HostedIn, m, L
  <2> HIDE DEF s
  <2>12. /\ s = Afhankelijk => L # {} /\ HostedIn(x) \notin eeaCountries
         /\ s = Soeverein => L # {} /\ HostedIn(x) \in eeaCountries
    BY <2>1, <2>4, <2>11, Scores
  <2> QED
    BY <2>12 DEF s, L
<1> QED
  BY <1>1, <1>2

\* Convergence is praised only when a path does end behind encryption.
LEMMA DoorsEarned ==
  ASSUME NEW c, NEW fs, Readings(c, fs), variantConvergence(fs).score = Soeverein
  PROVE  \E p \in Open(c.world) : \E o \in Destination(c.world, p) :
           "https" \in {p.scheme, o.scheme}
<1> DEFINE x == c.world
           I == Rows(fs, "http.variants")
           f == fs[LastRow(I)]
           ps == f.attrs.paths
           observed == {k \in DOMAIN ps : ps[k].status \notin {"not_tested", "not_followed_budget"}}
           reachable == {k \in observed : ps[k].status = "reachable"}
           plainHTTP == {k \in reachable : ps[k].scheme = "http" /\ ps[k].final.scheme = "http"}
<1>1. I # {} /\ plainHTTP = {} /\ reachable # {}
  <2> SUFFICES ASSUME I = {} \/ plainHTTP # {} \/ reachable = {}
               PROVE  variantConvergence(fs).score # Soeverein
    BY SMTT(40)
  <2>1. \/ \E e : variantConvergence(fs) = Unavailable(e)
        \/ \E e : variantConvergence(fs) = Scored(Afhankelijk, e)
    BY Zenon DEF variantConvergence
  <2> QED
    BY <2>1, ResultFields, Scores
<1>2. f.probe = "http.variants" /\ RowTrue(c, f)
  BY <1>1, PickedAmong
<1>3. HasDoors(x) /\ \E k \in ReachedPaths(f) : PathTrue(x, ps[k])
  <2>1. ReachedPaths(f) # {}
    BY <1>1 DEF ReachedPaths
  <2> HIDE DEF f
  <2> QED
    BY <1>2, <2>1 DEF RowTrue, DoorsTrue
<1>4. PICK k \in ReachedPaths(f) : PathTrue(x, ps[k])
  BY <1>3
<1>5. ~(ps[k].scheme = "http" /\ ps[k].final.scheme = "http")
  <2>1. k \in reachable
    BY DEF ReachedPaths
  <2> QED
    BY <1>1, <2>1
<1> DEFINE q == ps[k]
<1> HIDE DEF q
<1>6. PICK p \in Open(x) : q.scheme = p.scheme /\ q.final \in Destination(x, p)
  BY <1>4 DEF PathTrue, q
<1>7. p.scheme \in {"http", "https"}
  BY PathFields DEF Open
<1>8. q.final.scheme \in {"http", "https"}
  BY <1>3, <1>6, <1>7, WebOnly
<1>9. "https" \in {p.scheme, q.final.scheme}
  BY <1>5, <1>6, <1>7, <1>8 DEF q
<1> QED
  BY <1>6, <1>9

(***************************************************************************)
(* The imported measurements.                                              *)
(***************************************************************************)
\* Of its type, a measurement is in the newest import that carries it.
Newest(x, k, d) == \A j \in 1 .. k - 1 : \A e \in ToSet(x.imports[j]) : e.type # d.type

Current(x, d) == \E k \in DOMAIN x.imports : d \in ToSet(x.imports[k]) /\ Newest(x, k, d)

ImportRow(x, d, r) ==
  Finding("internetnl", x.domain,
          [type |-> d.type, category |-> r.category, status |-> r.status,
           measured_at |-> d.measured])

StatusRow(x, d) ==
  Finding("internetnl", x.domain,
          [type |-> d.type, status |-> "error", measured_at |-> d.measured])

\* What the row of an imported result holds.
LEMMA ImportRowFields ==
  ASSUME NEW x, NEW d, NEW r
  PROVE  /\ ImportRow(x, d, r).probe = "internetnl"
         /\ Attr(ImportRow(x, d, r), "category") = r.category
         /\ Attr(ImportRow(x, d, r), "status") = r.status
         /\ ImportRow(x, d, r).attrs.measured_at = d.measured
<1> DEFINE f == ImportRow(x, d, r)
           a == [type |-> d.type, category |-> r.category, status |-> r.status,
                 measured_at |-> d.measured]
<1>1. f.probe = "internetnl" /\ f.attrs = a
  BY FindingFields DEF ImportRow
<1>2. /\ "category" \in DOMAIN a /\ a["category"] = r.category
      /\ "status" \in DOMAIN a /\ a["status"] = r.status
      /\ a.measured_at = d.measured
  OBVIOUS
<1> HIDE DEF f, a
<1>3. /\ Attr(f, "category") = r.category /\ Attr(f, "status") = r.status
      /\ f.attrs.measured_at = d.measured
  BY <1>1, <1>2 DEF Attr
<1> QED
  BY <1>1, <1>3 DEF f

\* The row of a measurement without results belongs to no category.
LEMMA StatusRowFields ==
  ASSUME NEW x, NEW d
  PROVE  StatusRow(x, d).probe = "internetnl" /\ Attr(StatusRow(x, d), "category") = ""
<1> DEFINE f == StatusRow(x, d)
           a == [type |-> d.type, status |-> "error", measured_at |-> d.measured]
<1>1. f.probe = "internetnl" /\ f.attrs = a
  BY FindingFields DEF StatusRow
<1>2. "category" \notin DOMAIN a
  OBVIOUS
<1> HIDE DEF f, a
<1>3. Attr(f, "category") = ""
  BY <1>1, <1>2 DEF Attr
<1> QED
  BY <1>1, <1>3 DEF f

\* The rows of a measurement.
LEMMA NetnlRows ==
  ASSUME NEW x, NEW d, IsList(d.results)
  PROVE  LET s == NetnlFindings(x, d)
         IN  /\ IsList(s)
             /\ \A f \in ToSet(s) : \/ f = StatusRow(x, d)
                                    \/ \E r \in ToSet(d.results) : f = ImportRow(x, d, r)
             /\ \A r \in ToSet(d.results) : ImportRow(x, d, r) \in ToSet(s)
<1> DEFINE s == NetnlFindings(x, d)
           t == [i \in DOMAIN d.results |-> ImportRow(x, d, d.results[i])]
<1>1. CASE d.results = <<>>
  <2>1. s = <<StatusRow(x, d)>>
    BY <1>1 DEF NetnlFindings, StatusRow
  <2>2. ToSet(d.results) = {}
    BY <1>1, NoList
  <2> HIDE DEF s
  <2>3. IsList(s) /\ ToSet(s) = {StatusRow(x, d)}
    BY <2>1, OneList
  <2> QED
    BY <2>2, <2>3 DEF s
<1>2. CASE d.results # <<>>
  <2>1. s = t
    BY <1>2 DEF NetnlFindings, Each, ImportRow
  <2>2. t = [i \in DOMAIN d.results |-> t[i]] /\ \A i \in DOMAIN d.results : t[i] = ImportRow(x, d, d.results[i])
    OBVIOUS
  <2> HIDE DEF s, t
  <2>3. /\ IsList(t)
        /\ \A f \in ToSet(t) : \E i \in DOMAIN d.results : d.results[i] \in ToSet(d.results) /\ f = t[i]
        /\ \A i \in DOMAIN d.results : t[i] \in ToSet(t)
    BY <2>2, EachList
  <2>4. \A f \in ToSet(t) : \E r \in ToSet(d.results) : f = ImportRow(x, d, r)
    BY <2>2, <2>3
  <2>5. ASSUME NEW r \in ToSet(d.results) PROVE ImportRow(x, d, r) \in ToSet(t)
    <3>1. PICK i \in DOMAIN d.results : d.results[i] = r
      BY ListDomain
    <3> QED
      BY <2>2, <2>3, <3>1
  <2> QED
    BY <2>1, <2>3, <2>4, <2>5 DEF s
<1> QED
  BY <1>1, <1>2

\* What an import adds.
OfImport(x, k) ==
  FlattenSeq(Each(x.imports[k], LAMBDA d : IF Newest(x, k, d) THEN NetnlFindings(x, d) ELSE <<>>))

\* The rows of an import: those of its measurements that are the newest.
LEMMA OfImportRows ==
  ASSUME NEW x, IsWorld(x), NEW k \in DOMAIN x.imports
  PROVE  /\ IsList(OfImport(x, k))
         /\ \A f \in ToSet(OfImport(x, k)) : \E d \in ToSet(x.imports[k]) :
              Newest(x, k, d) /\ f \in ToSet(NetnlFindings(x, d))
         /\ \A d \in ToSet(x.imports[k]) : Newest(x, k, d)
              => ToSet(NetnlFindings(x, d)) \subseteq ToSet(OfImport(x, k))
<1> DEFINE s == x.imports[k]
           Of(d) == IF Newest(x, k, d) THEN NetnlFindings(x, d) ELSE <<>>
           t == [i \in DOMAIN s |-> Of(s[i])]
<1>1. IsList(s) /\ \A d \in ToSet(s) : IsList(d.results)
  BY DEF IsWorld
<1>2. OfImport(x, k) = FlattenSeq(t)
  BY DEF OfImport, Each
<1>3. \A d \in ToSet(s) : IsList(Of(d))
  BY <1>1, NetnlRows, NoList
<1>4. t = [i \in DOMAIN s |-> t[i]] /\ DOMAIN t = DOMAIN s /\ \A i \in DOMAIN s : t[i] = Of(s[i])
  OBVIOUS
<1> HIDE DEF s, t
<1>5. IsList(t)
  BY <1>1, <1>4, EachList
<1>6. \A i \in DOMAIN s : s[i] \in ToSet(s)
  BY <1>1, ListDomain
<1>7. \A i \in DOMAIN t : IsList(t[i])
  BY <1>3, <1>4, <1>6
<1>8. /\ IsList(FlattenSeq(t))
      /\ ToSet(FlattenSeq(t)) = UNION {ToSet(t[i]) : i \in DOMAIN t}
  BY <1>5, <1>7, FlattenList
<1>9. ASSUME NEW f \in ToSet(FlattenSeq(t))
      PROVE  \E d \in ToSet(s) : Newest(x, k, d) /\ f \in ToSet(NetnlFindings(x, d))
  <2>1. PICK i \in DOMAIN t : f \in ToSet(t[i])
    BY <1>8
  <2>2. f \in ToSet(Of(s[i])) /\ s[i] \in ToSet(s)
    BY <2>1, <1>4, <1>6
  <2>3. Newest(x, k, s[i]) /\ f \in ToSet(NetnlFindings(x, s[i]))
    BY <2>2, NoList
  <2> QED
    BY <2>2, <2>3
<1>10. ASSUME NEW d \in ToSet(s), Newest(x, k, d)
       PROVE  ToSet(NetnlFindings(x, d)) \subseteq ToSet(FlattenSeq(t))
  <2>1. PICK i \in DOMAIN s : s[i] = d
    BY <1>1, ListDomain
  <2>2. t[i] = NetnlFindings(x, d) /\ i \in DOMAIN t
    BY <2>1, <1>4, <1>10
  <2> QED
    BY <2>2, <1>8
<1> QED
  BY <1>2, <1>8, <1>9, <1>10 DEF s

\* The imported rows an assessment reads are those of the current measurements.
LEMMA ImportRows ==
  ASSUME NEW x, IsWorld(x)
  PROVE  LET s == LatestImportFindings(x)
         IN  /\ IsList(s)
             /\ \A f \in ToSet(s) : \E d : Current(x, d) /\ f \in ToSet(NetnlFindings(x, d))
             /\ \A d : Current(x, d) => ToSet(NetnlFindings(x, d)) \subseteq ToSet(s)
<1> DEFINE t == [k \in DOMAIN x.imports |-> OfImport(x, k)]
           s == LatestImportFindings(x)
<1>1. s = FlattenSeq(t)
  BY DEF LatestImportFindings, OfImport, Newest
<1>2. IsList(x.imports)
  BY DEF IsWorld
<1>3. t = [k \in DOMAIN x.imports |-> t[k]] /\ DOMAIN t = DOMAIN x.imports
      /\ \A k \in DOMAIN x.imports : t[k] = OfImport(x, k)
  OBVIOUS
<1> HIDE DEF t, s
<1>4. IsList(t)
  BY <1>2, <1>3, EachList
<1>5. \A k \in DOMAIN t : IsList(t[k])
  BY <1>3, OfImportRows
<1>6. IsList(s) /\ ToSet(s) = UNION {ToSet(t[k]) : k \in DOMAIN t}
  BY <1>1, <1>4, <1>5, FlattenList
<1>7. ASSUME NEW f \in ToSet(s) PROVE \E d : Current(x, d) /\ f \in ToSet(NetnlFindings(x, d))
  <2>1. PICK k \in DOMAIN x.imports : f \in ToSet(OfImport(x, k))
    BY <1>3, <1>6
  <2>2. PICK d \in ToSet(x.imports[k]) : Newest(x, k, d) /\ f \in ToSet(NetnlFindings(x, d))
    BY <2>1, OfImportRows
  <2> QED
    BY <2>2 DEF Current
<1>8. ASSUME NEW d, Current(x, d) PROVE ToSet(NetnlFindings(x, d)) \subseteq ToSet(s)
  <2>1. PICK k \in DOMAIN x.imports : d \in ToSet(x.imports[k]) /\ Newest(x, k, d)
    BY <1>8 DEF Current
  <2>2. ToSet(NetnlFindings(x, d)) \subseteq ToSet(OfImport(x, k))
    BY <2>1, OfImportRows
  <2> QED
    BY <2>2, <1>3, <1>6
<1> QED
  BY <1>6, <1>7, <1>8 DEF s

\* The results of a current measurement are a list.
LEMMA CurrentResults ==
  ASSUME NEW x, IsWorld(x), NEW d, Current(x, d)
  PROVE  IsList(d.results)
BY DEF Current, IsWorld

Stale(day, m) == m[1] = "ok" /\ day - m[2] > StandardsMaxAgeDays

\* A status Internet.nl gave in a measurement that counts.
Said(x, id, day, s) ==
  \E d : /\ Current(x, d) /\ ~Stale(day, d.measured)
         /\ \E r \in ToSet(d.results) : r.category \in standardsCategoriesFor[id] /\ s = r.status

NewestImport(x, t) == Min({k \in DOMAIN x.imports : \E d \in ToSet(x.imports[k]) : d.type = t})

\* The newest import of a type is the one a current measurement is in.
LEMMA NewestPicked ==
  ASSUME NEW x, IsWorld(x), NEW k \in DOMAIN x.imports, NEW d \in ToSet(x.imports[k])
  PROVE  /\ NewestImport(x, d.type) \in DOMAIN x.imports
         /\ Newest(x, NewestImport(x, d.type), d)
         /\ Newest(x, k, d) => NewestImport(x, d.type) = k
<1> DEFINE K == {j \in DOMAIN x.imports : \E e \in ToSet(x.imports[j]) : e.type = d.type}
           n == Min(K)
<1>1. n = NewestImport(x, d.type)
  BY DEF NewestImport
<1>2. DOMAIN x.imports = 1 .. Len(x.imports) /\ Len(x.imports) \in Nat
  BY ListDomain DEF IsWorld
<1>3. k \in K /\ K \subseteq DOMAIN x.imports
  OBVIOUS
<1>4. \A j \in DOMAIN x.imports : j \notin K => \A e \in ToSet(x.imports[j]) : e.type # d.type
  OBVIOUS
<1>5. \A j \in K : \E e \in ToSet(x.imports[j]) : e.type = d.type
  OBVIOUS
<1> HIDE DEF K
<1>6. K \in SUBSET Nat
  BY <1>2, <1>3
<1>7. n \in K /\ \A j \in K : n <= j
  BY <1>3, <1>6, LeastPicked
<1> HIDE DEF n
<1>8. ASSUME NEW j \in 1 .. n - 1 PROVE \A e \in ToSet(x.imports[j]) : e.type # d.type
  <2>1. j \in DOMAIN x.imports /\ ~(n <= j)
    BY <1>2, <1>3, <1>7
  <2> QED
    BY <2>1, <1>4, <1>7
<1>9. Newest(x, n, d)
  BY <1>8 DEF Newest
<1>10. ASSUME Newest(x, k, d) PROVE n = k
  <2> SUFFICES ASSUME n # k PROVE FALSE
    OBVIOUS
  <2>1. n \in 1 .. k - 1
    BY <1>2, <1>3, <1>7
  <2>2. \A e \in ToSet(x.imports[n]) : e.type # d.type
    BY <1>10, <2>1 DEF Newest
  <2> QED
    BY <2>2, <1>5, <1>7
<1> QED
  BY <1>1, <1>3, <1>7, <1>9, <1>10

\* StandardSays, read off the imports, is what the current measurements say.
LEMMA SaysIsSaid ==
  ASSUME NEW x, IsWorld(x), NEW id, NEW day, NEW s
  PROVE  s \in StandardSays(x, id, day) <=> Said(x, id, day, s)
<1> DEFINE At(t) == x.imports[NewestImport(x, t)]
           all == UNION {ToSet(x.imports[k]) : k \in DOMAIN x.imports}
           types == {d.type : d \in all}
           read == {d \in UNION {ToSet(At(t)) : t \in types} :
                      d \in ToSet(At(d.type)) /\ ~Stale(day, d.measured)}
           says == {r.status : r \in {q \in UNION {ToSet(d.results) : d \in read} :
                                        q.category \in standardsCategoriesFor[id]}}
<1>1. StandardSays(x, id, day) = says
  BY DEF StandardSays, NewestImport, Stale
<1>2. ASSUME NEW d \in read PROVE Current(x, d) /\ ~Stale(day, d.measured)
  <2>1. PICK t \in types : d \in ToSet(At(t))
    OBVIOUS
  <2>2. PICK e \in all : e.type = t
    OBVIOUS
  <2>3. PICK j \in DOMAIN x.imports : e \in ToSet(x.imports[j])
    BY <2>2
  <2>4. NewestImport(x, t) \in DOMAIN x.imports
    BY <2>2, <2>3, NewestPicked
  <2>5. NewestImport(x, d.type) \in DOMAIN x.imports /\ Newest(x, NewestImport(x, d.type), d)
    BY <2>1, <2>4, NewestPicked
  <2>6. d \in ToSet(x.imports[NewestImport(x, d.type)]) /\ ~Stale(day, d.measured)
    OBVIOUS
  <2> QED
    BY <2>5, <2>6 DEF Current
<1>3. ASSUME NEW d, Current(x, d), ~Stale(day, d.measured) PROVE d \in read
  <2>1. PICK k \in DOMAIN x.imports : d \in ToSet(x.imports[k]) /\ Newest(x, k, d)
    BY <1>3 DEF Current
  <2>2. NewestImport(x, d.type) = k
    BY <2>1, NewestPicked
  <2>3. d \in all /\ d.type \in types /\ d \in ToSet(At(d.type))
    BY <2>1, <2>2
  <2> QED
    BY <2>3, <1>3
<1> HIDE DEF read
<1>4. s \in says <=> \E d \in read : \E r \in ToSet(d.results) :
                       r.category \in standardsCategoriesFor[id] /\ s = r.status
  OBVIOUS
<1> HIDE DEF says
<1>5. s \in says <=> Said(x, id, day, s)
  BY <1>2, <1>3, <1>4 DEF Said
<1> QED
  BY <1>1, <1>5

\* No category is the empty name.
LEMMA CategoriesNamed ==
  ASSUME NEW id \in StandardRules
  PROVE  "" \notin standardsCategoriesFor[id]
<1>1. DOMAIN standardsCategoriesFor
        = {"dnssec", "mail_auth", "starttls_dane", "ipv6", "rpki", "tls_config"}
  BY DEF standardsCategoriesFor
<1>2. id \in {"dnssec", "mail_auth", "starttls_dane", "ipv6", "rpki", "tls_config"}
  BY <1>1 DEF StandardRules
<1>3. /\ "" \notin standardsCategoriesFor["dnssec"] /\ "" \notin standardsCategoriesFor["mail_auth"]
      /\ "" \notin standardsCategoriesFor["starttls_dane"]
  BY DEF standardsCategoriesFor
<1>4. /\ "" \notin standardsCategoriesFor["ipv6"] /\ "" \notin standardsCategoriesFor["rpki"]
      /\ "" \notin standardsCategoriesFor["tls_config"]
  BY DEF standardsCategoriesFor
<1> QED
  BY <1>2, <1>3, <1>4

\* A standard scores as Internet.nl measured it.
LEMMA StandardGrounded ==
  ASSUME NEW c, NEW fs, Readings(c, fs), IsWorld(c.world), NEW id \in StandardRules, NEW day
  PROVE  LET s == scoreStandardsCategory(fs, id, day).score
             says == StandardSays(c.world, id, day)
         IN  /\ s = Afhankelijk => "failed" \in says
             /\ s = Soeverein => /\ "passed" \in says
                                 /\ says \cap {"failed", "warning", "info"} = {}
<1> DEFINE x == c.world
           s == scoreStandardsCategory(fs, id, day).score
           says == StandardSays(x, id, day)
           R == Rows(fs, "internetnl")
           all == {i \in R : Attr(fs[i], "category") \in standardsCategoriesFor[id]}
           stale == {i \in all : /\ fs[i].attrs.measured_at[1] = "ok"
                                 /\ day - fs[i].attrs.measured_at[2] > StandardsMaxAgeDays}
           With(S) == {i \in all \ stale : Attr(fs[i], "status") \in S}
           passed == With({"passed"})
           failed1 == With({"failed"})
           measured == With({"passed", "failed", "warning", "info"})
<1>1. \A i \in all : i \in R /\ Attr(fs[i], "category") \in standardsCategoriesFor[id]
  OBVIOUS
<1>2. \A i \in all : i \in stale <=> Stale(day, fs[i].attrs.measured_at)
  BY DEF Stale
<1>3. \A i \in R : Attr(fs[i], "category") \in standardsCategoriesFor[id] => i \in all
  OBVIOUS
<1>4. \A S, i : i \in With(S) <=> i \in all /\ i \notin stale /\ Attr(fs[i], "status") \in S
  OBVIOUS
<1>5. IF measured = {} THEN s = Onbekend
      ELSE s = IF passed = measured THEN Soeverein
               ELSE IF failed1 # {} /\ passed = {} THEN Afhankelijk ELSE Voldoende
  <2> DEFINE why == IF all # {} /\ stale = all THEN "measurement_stale" ELSE "not_measured"
             tally == IF passed = measured THEN Soeverein
                      ELSE IF failed1 # {} /\ passed = {} THEN Afhankelijk ELSE Voldoende
  <2>1. scoreStandardsCategory(fs, id, day)
          = IF measured = {} THEN Result(Onbekend, all, why) ELSE Scored(tally, measured)
    BY DEF scoreStandardsCategory
  <2> HIDE DEF why, tally, all, measured
  <2>2. s = IF measured = {} THEN Onbekend ELSE tally
    BY <2>1, ResultFields
  <2> QED
    BY <2>2 DEF tally
<1> HIDE DEF all, stale, With, says, s
<1>6. ASSUME NEW i \in all, i \notin stale PROVE Attr(fs[i], "status") \in says
  <2>1. i \in DOMAIN fs /\ fs[i].probe = "internetnl"
    BY <1>1 DEF Rows
  <2>2. fs[i] \in ToSet(LatestImportFindings(x))
    <3>1. IsList(fs) /\ \A f \in ToSet(fs) : f.probe = "internetnl" => f \in ToSet(LatestImportFindings(x))
      BY DEF Readings
    <3> QED
      BY <2>1, <3>1, ListDomain
  <2>3. PICK d : Current(x, d) /\ fs[i] \in ToSet(NetnlFindings(x, d))
    BY <2>2, ImportRows
  <2>4. IsList(d.results)
    BY <2>3, CurrentResults
  <2>5. fs[i] = StatusRow(x, d) \/ \E r \in ToSet(d.results) : fs[i] = ImportRow(x, d, r)
    BY <2>3, <2>4, NetnlRows
  <2>6. fs[i] # StatusRow(x, d)
    BY <1>1, StatusRowFields, CategoriesNamed
  <2>7. PICK r \in ToSet(d.results) : fs[i] = ImportRow(x, d, r)
    BY <2>5, <2>6
  <2>8. /\ Attr(fs[i], "category") = r.category /\ Attr(fs[i], "status") = r.status
        /\ fs[i].attrs.measured_at = d.measured
    BY <2>7, ImportRowFields
  <2>9. ~Stale(day, d.measured)
    BY <1>2, <1>6, <2>8
  <2>10. Said(x, id, day, Attr(fs[i], "status"))
    BY <1>1, <2>3, <2>8, <2>9 DEF Said
  <2> QED
    BY <2>10, SaysIsSaid DEF says
<1>7. ASSUME NEW t \in says PROVE \E i \in all : i \notin stale /\ Attr(fs[i], "status") = t
  <2>1. Said(x, id, day, t)
    BY SaysIsSaid DEF says
  <2>2. PICK d : /\ Current(x, d) /\ ~Stale(day, d.measured)
                 /\ \E r \in ToSet(d.results) : r.category \in standardsCategoriesFor[id] /\ t = r.status
    BY <2>1 DEF Said
  <2>3. PICK r \in ToSet(d.results) : r.category \in standardsCategoriesFor[id] /\ t = r.status
    BY <2>2
  <2>4. ImportRow(x, d, r) \in ToSet(NetnlFindings(x, d))
    BY <2>2, CurrentResults, NetnlRows
  <2>5. ImportRow(x, d, r) \in ToSet(LatestImportFindings(x))
    BY <2>2, <2>4, ImportRows
  <2>6. IsList(fs) /\ ImportRow(x, d, r) \in ToSet(fs)
    BY <2>5 DEF Readings
  <2>7. PICK i \in DOMAIN fs : fs[i] = ImportRow(x, d, r)
    BY <2>6, ListDomain
  <2>8. /\ fs[i].probe = "internetnl"
        /\ Attr(fs[i], "category") = r.category /\ Attr(fs[i], "status") = r.status
        /\ fs[i].attrs.measured_at = d.measured
    BY <2>7, ImportRowFields
  <2>9. i \in all
    BY <1>3, <2>3, <2>7, <2>8 DEF Rows
  <2>10. i \notin stale
    BY <1>2, <2>2, <2>8, <2>9
  <2> QED
    BY <2>3, <2>8, <2>9, <2>10
<1>8. ASSUME s = Afhankelijk PROVE "failed" \in says
  <2>1. failed1 # {}
    BY <1>5, <1>8, Scores
  <2> QED
    BY <2>1, <1>4, <1>6
<1>9. ASSUME s = Soeverein
      PROVE  "passed" \in says /\ says \cap {"failed", "warning", "info"} = {}
  <2>1. measured # {} /\ passed = measured
    BY <1>5, <1>9, Scores
  <2>2. "passed" \in says
    BY <2>1, <1>4, <1>6
  <2>3. ASSUME NEW t \in says, t \in {"failed", "warning", "info"} PROVE FALSE
    <3>1. PICK i \in all : i \notin stale /\ Attr(fs[i], "status") = t
      BY <1>7
    <3>2. i \in measured
      BY <3>1, <2>3, <1>4
    <3>3. t = "passed"
      BY <2>1, <3>1, <3>2, <1>4
    <3> QED
      BY <2>3, <3>3
  <2> QED
    BY <2>2, <2>3
<1> QED
  BY <1>8, <1>9 DEF s, says

(***************************************************************************)
(* The verdicts on what was read.                                          *)
(***************************************************************************)
\* The ids of the standards.
LEMMA StandardIdSet ==
  StandardRules = {"dnssec", "mail_auth", "starttls_dane", "ipv6", "rpki", "tls_config"}
BY DEF StandardRules, standardsCategoriesFor

\* Every rule that says afhankelijk on true rows has a fact behind it.
LEMMA BlamesDeserved ==
  ASSUME NEW c, NEW fs, Readings(c, fs), IsWorld(c.world), NEW day \in Int,
         NEW id \in GroundedRules,
         ScoreOf(wandDefaultRules(fs, day), id) = Afhankelijk
  PROVE  Deserved(c.world, id, day)
<1> DEFINE x == c.world
           R == wandDefaultRules(fs, day)
<1> USE DEF JurisdictionRules
<1> HIDE DEF R
<1>1. ResultOf(R, id).score = Afhankelijk
  BY ShownIsScored, Scores DEF ScoreOf, R
<1>2. CASE id \in JurisdictionRules
  <2>1. Grounded(x, id, Afhankelijk)
    BY <1>1, <1>2, WandResults, MoreWandResults, ApexGrounded, MailGrounded,
       NameServerGrounded, ThirdPartiesGrounded DEF R
  <2>2. \E g \in Geos(x, id) : OutsideEEA(g)
    BY <2>1 DEF Grounded
  <2> QED
    BY <1>2, <2>2, StandardIdSet DEF Deserved
<1>3. CASE id \in StandardRules
  <2>1. ResultOf(R, id) = scoreStandardsCategory(fs, id, day)
    BY <1>3, StandardResults DEF R
  <2>2. "failed" \in StandardSays(x, id, day)
    BY <1>1, <1>3, <2>1, StandardGrounded
  <2>3. Deserved(x, id, day) <=> "failed" \in StandardSays(x, id, day)
    BY <1>3, StandardIdSet DEF Deserved
  <2> QED
    BY <2>2, <2>3
<1>4. CASE id = "no_us_hyperscaler"
  <2>1. \E g \in Geos(x, id) : usHyperscalerOrg(g.org)
    BY <1>1, <1>4, WandResults, HyperscalerDeserved DEF R
  <2> QED
    BY <1>4, <2>1, StandardIdSet DEF Deserved
<1>5. CASE id = "cert_issuer_eea"
  <2>1. ~(x.cert.countries \subseteq eeaCountries)
    BY <1>1, <1>5, WandResults, IssuerGrounded DEF R
  <2> QED
    BY <1>5, <2>1, StandardIdSet DEF Deserved
<1>6. CASE id = "cert_validity"
  <2>1. x.cert.left < 0
    <3>1. x.cert.left \in Int
      BY DEF IsWorld
    <3> QED
      BY <1>1, <1>6, <3>1, MoreWandResults, ValidityGrounded DEF R
  <2> QED
    BY <1>6, <2>1, StandardIdSet DEF Deserved
<1>7. CASE id = "dns_redundancy"
  <2>1. Cardinality(x.ns) < 2
    BY <1>1, <1>7, MoreWandResults, RedundancyDeserved DEF R
  <2> QED
    BY <1>7, <2>1, StandardIdSet DEF Deserved
<1>8. CASE id = "caa_restricts"
  <2>1. \A k \in DOMAIN x.caa : x.caa[k] = {}
    BY <1>1, <1>8, MoreWandResults, CaaDeserved DEF R
  <2> QED
    BY <1>8, <2>1, StandardIdSet DEF Deserved
<1>9. CASE id = "no_reseller"
  <2>1. x.rdap.reseller
    BY <1>1, <1>9, MoreWandResults, ResellerGrounded DEF R
  <2> QED
    BY <1>9, <2>1, StandardIdSet DEF Deserved
<1>10. CASE id = "securitytxt"
  <2>1. ~x.sectxt.present
    BY <1>1, <1>10, MoreWandResults, SecuritytxtGrounded DEF R
  <2> QED
    BY <1>10, <2>1, StandardIdSet DEF Deserved
<1>11. CASE id = "ns_holder_transparent"
  <2>1. \E d \in DOMAIN x.holder : x.holder[d] # "named"
    BY <1>1, <1>11, MoreWandResults, HolderGrounded DEF R
  <2> QED
    BY <1>11, <2>1, StandardIdSet DEF Deserved
<1>12. CASE id = "domain_expiry"
  <2>1. x.rdap.expiry # <<>> /\ x.rdap.expiry[2] - day <= domainExpiryUrgentDays
    BY <1>1, <1>12, MoreWandResults, ExpiryGrounded DEF R
  <2> QED
    BY <1>12, <2>1, StandardIdSet DEF Deserved
<1>13. CASE id = "registrant_identifiable"
  <2>1. \/ x.rdap.name \in {<<>>, <<"absent">>}
        \/ ToSet(x.rdap.name) \cap PrivacyProxyWords # {}
    BY <1>1, <1>13, MoreWandResults, RegistrantGrounded DEF R
  <2> QED
    BY <1>13, <2>1, StandardIdSet DEF Deserved
<1>14. CASE id = "transit_eu_path"
  <2>1. Located(x) # {} /\ HostedIn(x) \notin eeaCountries
    BY <1>1, <1>14, MoreWandResults, RouteGrounded DEF R
  <2> QED
    BY <1>14, <2>1, StandardIdSet DEF Deserved
<1> QED
  BY <1>2, <1>3, <1>4, <1>5, <1>6, <1>7, <1>8, <1>9, <1>10, <1>11, <1>12, <1>13, <1>14
     DEF GroundedRules

\* What an assessment reads of true rows.
LEMMA RowsRead ==
  ASSUME NEW c, IsWorld(c.world), NEW s, FaithfulList(c, s)
  PROVE  Readings(c, FindingsForAssessment(s, c.world))
<1> DEFINE x == c.world
           t == LatestImportFindings(x)
           fs == FindingsForAssessment(s, x)
<1>1. IsList(t) /\ IsList(s)
  BY ImportRows DEF FaithfulList
<1>2. IsList(fs) /\ ToSet(fs) = ToSet(s) \cup ToSet(t)
  BY <1>1, Concat DEF FindingsForAssessment
<1>3. ASSUME NEW f \in ToSet(t) PROVE f.probe = "internetnl"
  <2>1. PICK d : Current(x, d) /\ f \in ToSet(NetnlFindings(x, d))
    BY ImportRows
  <2>2. IsList(d.results)
    BY <2>1, CurrentResults
  <2>3. f = StatusRow(x, d) \/ \E r \in ToSet(d.results) : f = ImportRow(x, d, r)
    BY <2>1, <2>2, NetnlRows
  <2>4. StatusRow(x, d).probe = "internetnl" /\ \A r : ImportRow(x, d, r).probe = "internetnl"
    BY DEF StatusRow, ImportRow, Finding
  <2> QED
    BY <2>3, <2>4
<1>4. Faithful(c, ToSet(s)) /\ \A f \in ToSet(s) : RowTrue(c, f) /\ f.probe # "internetnl"
  BY DEF FaithfulList, Faithful, RowTrue
<1> HIDE DEF fs, t
<1>5. \A f \in ToSet(fs) : f.probe # "internetnl" => f \in ToSet(s)
  BY <1>2, <1>3
<1>6. \A f \in ToSet(fs) : f.probe = "internetnl" => f \in ToSet(t)
  BY <1>2, <1>4
<1>7. (\E f \in ToSet(fs) : f.probe = "dns.ns" /\ Attr(f, "host") # "")
        => \A h \in x.ns : nsFinding(x, h) \in ToSet(fs)
  <2>1. (\E f \in ToSet(s) : f.probe = "dns.ns" /\ Attr(f, "host") # "")
          => \A h \in x.ns : nsFinding(x, h) \in ToSet(s)
    BY <1>4 DEF Faithful
  <2> QED
    BY <1>2, <1>5, <2>1
<1>8. (\E f \in ToSet(fs) : f.probe = "transit.hop")
        => \A k \in DOMAIN x.hops : hopFinding(x, k) \in ToSet(fs)
  <2>1. (\E f \in ToSet(s) : f.probe = "transit.hop")
          => \A k \in DOMAIN x.hops : hopFinding(x, k) \in ToSet(s)
    BY <1>4 DEF Faithful
  <2> QED
    BY <1>2, <1>5, <2>1
<1>9. \A f \in ToSet(fs) : f.probe # "internetnl" => RowTrue(c, f)
  BY <1>4, <1>5
<1>10. Readings(c, fs)
  BY <1>2, <1>6, <1>7, <1>8, <1>9 DEF Readings, t
<1> QED
  BY <1>10 DEF fs

PraisedRules ==
  (GroundedRules \ {"no_us_hyperscaler", "dns_redundancy", "caa_restricts"})
    \cup {"soa_rname", "http_exposure", "variant_convergence"}

\* Every rule that says soeverein on true rows has a fact behind it.
LEMMA PraisesEarned ==
  ASSUME NEW fs, Readings(case, fs), IsWorld(case.world), NEW day \in Int,
         NEW id \in PraisedRules,
         ScoreOf(wandDefaultRules(fs, day), id) = Soeverein
  PROVE  Earned(case.world, id, day)
<1> DEFINE x == case.world
           R == wandDefaultRules(fs, day)
<1> USE DEF JurisdictionRules
<1> HIDE DEF R
<1>1. ResultOf(R, id).score = Soeverein
  BY ShownIsScored, Scores DEF ScoreOf, R
<1>2. CASE id \in JurisdictionRules
  <2>1. Grounded(x, id, Soeverein)
    BY <1>1, <1>2, WandResults, MoreWandResults, ApexGrounded, MailGrounded,
       NameServerGrounded, ThirdPartiesGrounded DEF R
  <2>2. \E g \in Geos(x, id) : g.country \in eeaCountries
    BY <2>1 DEF Grounded
  <2> QED
    BY <1>2, <2>2, StandardIdSet DEF Earned
<1>3. CASE id \in StandardRules
  <2>1. ResultOf(R, id) = scoreStandardsCategory(fs, id, day)
    BY <1>3, StandardResults DEF R
  <2>2. /\ "passed" \in StandardSays(x, id, day)
        /\ StandardSays(x, id, day) \cap {"failed", "warning", "info"} = {}
    BY <1>1, <1>3, <2>1, StandardGrounded
  <2>3. Earned(x, id, day) <=> /\ "passed" \in StandardSays(x, id, day)
                               /\ StandardSays(x, id, day) \cap {"failed", "warning", "info"} = {}
    BY <1>3, StandardIdSet DEF Earned
  <2> QED
    BY <2>2, <2>3
<1>4. CASE id = "cert_issuer_eea"
  <2>1. x.cert.countries \cap eeaCountries # {}
    BY <1>1, <1>4, WandResults, IssuerGrounded DEF R
  <2> QED
    BY <1>4, <2>1, StandardIdSet DEF Earned
<1>5. CASE id = "cert_validity"
  <2>1. x.cert.left >= expiringSoonThresholdDays
    <3>1. x.cert.left \in Int
      BY DEF IsWorld
    <3> QED
      BY <1>1, <1>5, <3>1, MoreWandResults, ValidityGrounded DEF R
  <2> QED
    BY <1>5, <2>1, StandardIdSet DEF Earned
<1>6. CASE id = "no_reseller"
  <2>1. ~x.rdap.reseller
    BY <1>1, <1>6, MoreWandResults, ResellerGrounded DEF R
  <2> QED
    BY <1>6, <2>1, StandardIdSet DEF Earned
<1>7. CASE id = "securitytxt"
  <2>1. x.sectxt.present /\ x.sectxt.expires[2] > day
    BY <1>1, <1>7, MoreWandResults, SecuritytxtGrounded DEF R
  <2> QED
    BY <1>7, <2>1, StandardIdSet DEF Earned
<1>8. CASE id = "ns_holder_transparent"
  <2>1. \E d \in DOMAIN x.holder : x.holder[d] = "named"
    BY <1>1, <1>8, MoreWandResults, HolderGrounded DEF R
  <2> QED
    BY <1>8, <2>1, StandardIdSet DEF Earned
<1>9. CASE id = "domain_expiry"
  <2>1. x.rdap.expiry[2] - day > domainExpirySafeDays
    BY <1>1, <1>9, MoreWandResults, ExpiryGrounded DEF R
  <2> QED
    BY <1>9, <2>1, StandardIdSet DEF Earned
<1>10. CASE id = "registrant_identifiable"
  <2>1. x.rdap.name # <<>> /\ case.expected # {}
    BY <1>1, <1>10, MoreWandResults, RegistrantGrounded DEF R
  <2> QED
    BY <1>10, <2>1, StandardIdSet DEF Earned
<1>11. CASE id = "soa_rname"
  <2>1. x.soa.mx /\ Resolve(x, x.soa.mailbox) # <<>>
    BY <1>1, <1>11, MoreWandResults, SoaEarned DEF R
  <2> QED
    BY <1>11, <2>1, StandardIdSet DEF Earned
<1>12. CASE id = "transit_eu_path"
  <2>1. Located(x) # {} /\ HostedIn(x) \in eeaCountries
    BY <1>1, <1>12, MoreWandResults, RouteGrounded DEF R
  <2> QED
    BY <1>12, <2>1, StandardIdSet DEF Earned
<1>13. CASE id = "variant_convergence"
  <2>1. \E p \in Open(x) : \E o \in Destination(x, p) : "https" \in {p.scheme, o.scheme}
    BY <1>1, <1>13, MoreWandResults, DoorsEarned DEF R
  <2> QED
    BY <1>13, <2>1, StandardIdSet DEF Earned
<1>14. CASE id = "http_exposure"
  <2>1. {} \in {x.http.missing, x.http.missingPlain}
    BY <1>1, <1>14, MoreWandResults, ExposureEarned DEF R
  <2> QED
    BY <1>14, <2>1, StandardIdSet DEF Earned
<1> QED
  BY <1>2, <1>3, <1>4, <1>5, <1>6, <1>7, <1>8, <1>9, <1>10, <1>11, <1>12, <1>13, <1>14
     DEF GroundedRules, PraisedRules

\* The operators that lead.
LEMMA LeadsAreOperators ==
  ASSUME NEW c, NEW fs, Readings(c, fs), NEW day
  PROVE  LET Lead(id) == ToSet(ResultOf(wandDefaultRules(fs, day), id).lead)
             x == c.world
         IN  /\ Lead("mx_vendor_jurisdiction") \subseteq
                  OperatorsOf(x, "mx_vendor_jurisdiction", mailOperatorSuffixes)
             /\ Lead("ns_vendor_jurisdiction") \subseteq
                  OperatorsOf(x, "ns_vendor_jurisdiction", dnsOperatorSuffixes)
             /\ Lead("apex_ip_eea") \subseteq
                  {hostingOperator(g.org) : g \in Geos(x, "apex_ip_eea")}
             /\ Lead("third_parties_eea") \subseteq OutsideVendors(x)
BY WandResults, MoreWandResults, ApexGrounded, MailGrounded, NameServerGrounded,
   ThirdPartiesGrounded

(***************************************************************************)
(* The invariant is inductive.                                             *)
(***************************************************************************)
\* A scan starts with true rows.
LEMMA IInvInit == Init => IInv
<1> SUFFICES ASSUME Init PROVE IInv
  OBVIOUS
<1>1. case \in Cases /\ pending = case.probes /\ verdict.wand = {}
  BY DEF Init, NoVerdict
<1>2. mem = [p \in ToSet(Registered) \cup {"ip"} |-> <<>>]
  BY DEF Init
<1>3. VerdictIsOfRows
  BY <1>1 DEF VerdictIsOfRows, Perimeter, Assessed
<1>4. FaithfulList(case, rows)
  <2>1. rows = <<>> \/ rows = <<expectedRegistrantFinding(case.world.domain, case.expected)>>
    BY DEF Init
  <2> QED
    BY <2>1, FaithfulNone, RegistrantTrue
<1>5. mem = [p \in ToSet(Registered) \cup {"ip"} |-> mem[p]] /\ \A p \in DOMAIN mem : mem[p] = <<>>
  BY <1>2
<1>6. RowsAreTrue
  BY <1>1, <1>4, <1>5, FaithfulNone DEF RowsAreTrue
<1> QED
  BY <1>3, <1>6 DEF IInv

\* What the probe of a true world returns is true.
LEMMA ProbeTrue ==
  ASSUME case.kind = "perimeter", case \in Cases, NEW p \in ToSet(Registered),
         p \in case.probes, NEW out \in RunProbe(p)
  PROVE  FaithfulList(case, out)
<1>1. IsWorld(case.world) /\ ("variants" \in case.probes => HasDoors(case.world))
  BY WorldsAssumption
<1>2. p \in {"dns", "tls", "http", "whois", "soa", "variants", "transit"}
  <2>1. \A k \in DOMAIN Registered :
          Registered[k] \in {"dns", "tls", "http", "whois", "soa", "variants", "transit"}
    BY DEF Registered
  <2> QED
    BY <2>1 DEF ToSet
<1>3. CASE p = "dns"
  <2>1. out = dnsRun(case.world, failed)
    BY <1>3 DEF RunProbe, w
  <2> QED
    BY <1>1, <2>1, DnsTrue
<1>4. CASE p = "tls"
  <2>1. out \in tlsRun(case.world, failed)
    BY <1>4 DEF RunProbe, w
  <2> QED
    BY <1>1, <2>1, TlsTrue
<1>5. CASE p = "http"
  <2>1. out \in httpRun(case.world, failed)
    BY <1>5 DEF RunProbe, w
  <2> QED
    BY <1>1, <2>1, HttpTrue
<1>6. CASE p = "whois"
  <2>1. out = whoisRun(case.world, failed)
    BY <1>6 DEF RunProbe, w
  <2> QED
    BY <1>1, <2>1, WhoisTrue
<1>7. CASE p = "soa"
  <2>1. out = soaRun(case.world, failed)
    BY <1>7 DEF RunProbe, w
  <2> QED
    BY <1>1, <2>1, SoaTrue
<1>8. CASE p = "variants"
  <2>1. out = variantsRun(case.world, failed) /\ HasDoors(case.world)
    BY <1>1, <1>8 DEF RunProbe, w
  <2> QED
    BY <2>1, VariantsTrue
<1>9. CASE p = "transit"
  <2>1. out = transitRun(case.world, failed)
    BY <1>9 DEF RunProbe, w
  <2> QED
    BY <1>1, <2>1, TransitTrue
<1> QED
  BY <1>2, <1>3, <1>4, <1>5, <1>6, <1>7, <1>8, <1>9

\* More rows, and the memory of one more probe.
LEMMA RowsGrow ==
  ASSUME RowsAreTrue, case' = case, pending' \subseteq pending,
         NEW p \in ToSet(Registered) \cup {"ip"}, NEW out,
         rows' = rows \o out,
         mem' = mem \/ mem' = [mem EXCEPT ![p] = out],
         case.kind = "perimeter" => FaithfulList(case, out)
  PROVE  RowsAreTrue'
<1> SUFFICES ASSUME case.kind = "perimeter"
             PROVE  /\ case' \in Cases
                    /\ pending' \subseteq case'.probes
                    /\ FaithfulList(case', rows')
                    /\ mem' = [q \in ToSet(Registered) \cup {"ip"} |-> mem'[q]]
                    /\ \A q \in DOMAIN mem' : FaithfulList(case', mem'[q])
  BY DEF RowsAreTrue
<1>1. /\ case \in Cases /\ pending \subseteq case.probes /\ FaithfulList(case, rows)
      /\ mem = [q \in ToSet(Registered) \cup {"ip"} |-> mem[q]]
      /\ \A q \in DOMAIN mem : FaithfulList(case, mem[q])
  BY DEF RowsAreTrue
<1>2. FaithfulList(case, rows')
  BY <1>1, FaithfulConcat
<1> DEFINE D == ToSet(Registered) \cup {"ip"}
<1> HIDE DEF D
<1>3. mem' = [q \in D |-> mem'[q]] /\ \A q \in D : FaithfulList(case, mem'[q])
  <2>1. mem = [q \in D |-> mem[q]] /\ DOMAIN mem = D /\ p \in D
    BY <1>1 DEF D
  <2>2. CASE mem' = mem
    BY <1>1, <2>1, <2>2
  <2>3. CASE mem' = [mem EXCEPT ![p] = out]
    <3>1. mem' = [q \in D |-> mem'[q]] /\ mem'[p] = out /\ \A q \in D : q # p => mem'[q] = mem[q]
      BY <2>1, <2>3
    <3> QED
      BY <1>1, <2>1, <3>1
  <2> QED
    BY <2>2, <2>3
<1>4. DOMAIN mem' = D
  BY <1>3
<1> QED
  BY <1>1, <1>2, <1>3, <1>4 DEF D

\* Every step keeps the rows true and the verdict that of the rows.
LEMMA IInvNext == IInv /\ [Next]_vars => IInv'
<1> SUFFICES ASSUME IInv, [Next]_vars PROVE IInv'
  OBVIOUS
<1>0. RowsAreTrue /\ VerdictIsOfRows
  BY DEF IInv
<1> DEFINE Quiet == case' = case /\ verdict' = verdict /\ phase # "done"
<1>q. Quiet => VerdictIsOfRows'
  BY <1>0 DEF VerdictIsOfRows, Perimeter, Assessed
<1>m. case.kind = "perimeter" => FaithfulList(case, InMemory(mem)) /\ FaithfulList(case, mem["ip"])
                                 /\ IsWorld(case.world)
  <2> SUFFICES ASSUME case.kind = "perimeter"
               PROVE  FaithfulList(case, InMemory(mem)) /\ FaithfulList(case, mem["ip"])
                      /\ IsWorld(case.world)
    OBVIOUS
  <2>1. case \in Cases /\ DOMAIN mem = ToSet(Registered) \cup {"ip"}
        /\ \A p \in DOMAIN mem : FaithfulList(case, mem[p])
    BY <1>0 DEF RowsAreTrue
  <2>2. IsWorld(case.world)
    BY <2>1, WorldsAssumption
  <2> QED
    BY <2>1, <2>2, MemoryTrue
<1>1. ASSUME NEW p \in ToSet(Registered), FinishProbe(p) PROVE IInv'
  <2>1. PICK out \in RunProbe(p) : mem' = [mem EXCEPT ![p] = out] /\ rows' = rows \o out
    BY <1>1 DEF FinishProbe
  <2>2. p \in pending /\ pending' = pending \ {p} /\ case' = case /\ Quiet
    BY <1>1 DEF FinishProbe
  <2>3. case.kind = "perimeter" => FaithfulList(case, out)
    BY <1>0, <2>2, ProbeTrue DEF RowsAreTrue
  <2>4. RowsAreTrue'
    BY <1>0, <2>1, <2>2, <2>3, RowsGrow
  <2> QED
    BY <1>q, <2>2, <2>4 DEF IInv
<1>2. CASE SecondPass
  <2> DEFINE related == expandRelatedFromFindings(case.world.domain, InMemory(mem))
             out == ipRun(case.world, failed, related)
  <2>1. /\ mem' = [mem EXCEPT !["ip"] = out] /\ rows' = rows \o out
        /\ case.kind = "perimeter" /\ pending' = pending /\ case' = case /\ Quiet
    BY <1>2 DEF SecondPass, w
  <2>2. IsList(related) /\ ToSet(related) \subseteq HostsAsked(case.world, "no_us_hyperscaler")
    BY <1>m, <2>1, RelatedAsked
  <2> HIDE DEF related
  <2>3. FaithfulList(case, out)
    BY <1>m, <2>1, <2>2, IpTrue
  <2> HIDE DEF out
  <2>4. RowsAreTrue'
    BY <1>0, <2>1, <2>3, RowsGrow
  <2> QED
    BY <1>q, <2>1, <2>4 DEF IInv
<1>3. CASE Synthesise
  <2> DEFINE fs == InMemory(mem) \o mem["ip"]
             out == syntheses(case.world.domain, fs)
  <2>1. rows' = rows \o out /\ mem' = mem /\ pending' = pending /\ case' = case /\ Quiet
    BY <1>3 DEF Synthesise, w
  <2>2. case.kind = "perimeter" => FaithfulList(case, fs)
    BY <1>m, FaithfulConcat
  <2> HIDE DEF fs
  <2>3. case.kind = "perimeter" => FaithfulList(case, out)
    BY <1>m, <2>2, SynthesesTrue
  <2> HIDE DEF out
  <2>4. RowsAreTrue'
    BY <1>0, <2>1, <2>3, RowsGrow
  <2> QED
    BY <1>q, <2>1, <2>4 DEF IInv
<1>4. CASE HolderLookups
  <2> DEFINE out == nsHolderFindings(case.world, failed, InMemory(mem))
  <2>1. rows' = rows \o out /\ mem' = mem /\ pending' = pending /\ case' = case /\ Quiet
    BY <1>4 DEF HolderLookups, w
  <2>3. case.kind = "perimeter" => FaithfulList(case, out)
    BY <1>m, HoldersTrue
  <2> HIDE DEF out
  <2>4. RowsAreTrue'
    BY <1>0, <2>1, <2>3, RowsGrow
  <2> QED
    BY <1>q, <2>1, <2>4 DEF IInv
<1>5. CASE InspectHost
  <2>1. case.kind = "host" /\ Quiet
    BY <1>5 DEF InspectHost
  <2>2. RowsAreTrue'
    BY <2>1 DEF RowsAreTrue
  <2> QED
    BY <1>q, <2>1, <2>2 DEF IInv
<1>6. ASSUME NEW day \in Days, AssessScan(day) PROVE IInv'
  <2>1. /\ phase = "done" /\ now' = day /\ phase' = phase /\ case' = case
        /\ rows' = rows /\ mem' = mem /\ pending' = pending
        /\ case.kind = "perimeter"
             => verdict'.wand = wandDefaultRules(FindingsForAssessment(rows, case.world), day)
    BY <1>6 DEF AssessScan, w
  <2>2. RowsAreTrue'
    BY <1>0, <2>1 DEF RowsAreTrue
  <2>3. VerdictIsOfRows'
    BY <2>1 DEF VerdictIsOfRows, Perimeter, Assessed, w
  <2> QED
    BY <2>2, <2>3 DEF IInv
<1>7. CASE UNCHANGED vars
  BY <1>0, <1>7 DEF vars, IInv, RowsAreTrue, VerdictIsOfRows, Perimeter, Assessed, w
<1> QED
  BY <1>1, <1>2, <1>3, <1>4, <1>5, <1>6, <1>7 DEF Next

\* Whatever fails and whatever order the probes finish in, every row in
\* memory and in the store is true of the world, and the verdict is that of
\* the stored rows (runPassConcurrent, the second pass, the syntheses and the
\* holder lookups only ever add true rows).
THEOREM RowsTrueAlways == Spec => []IInv
BY IInvInit, IInvNext, PTL DEF Spec

\* What the verdict on a perimeter was made of.
LEMMA VerdictRead ==
  ASSUME IInv, Perimeter
  PROVE  LET fs == FindingsForAssessment(rows, case.world)
         IN  /\ IsWorld(case.world) /\ Readings(case, fs) /\ now \in Int
             /\ verdict.wand = wandDefaultRules(fs, now)
<1>1. case.kind = "perimeter" /\ RowsAreTrue /\ VerdictIsOfRows
  BY DEF Perimeter, IInv
<1>2. case \in Cases /\ FaithfulList(case, rows)
  BY <1>1 DEF RowsAreTrue
<1>3. IsWorld(case.world)
  BY <1>1, <1>2, WorldsAssumption
<1>4. Readings(case, FindingsForAssessment(rows, case.world))
  BY <1>2, <1>3, RowsRead
<1>5. now \in Int
  <2>1. now \in Days
    BY <1>1 DEF VerdictIsOfRows
  <2>2. \A d \in Days : d \in Nat
    BY PostureAssumption
  <2>3. now \in Nat
    BY <2>1, <2>2
  <2> QED
    BY <2>3
<1> QED
  BY <1>1, <1>3, <1>4, <1>5 DEF VerdictIsOfRows, w

\* BlameIsDeserved, for every world and every failed lookup: afhankelijk is
\* said only when the world holds a fact that deserves it.
THEOREM BlameDeserved == Spec => []BlameIsDeserved
<1>1. IInv => BlameIsDeserved
  BY VerdictRead, BlamesDeserved DEF BlameIsDeserved, Wand, w
<1> QED
  BY <1>1, RowsTrueAlways, PTL

\* PraiseIsEarned, for every world and every failed lookup: soeverein is said
\* only when the world holds a fact for it.
THEOREM PraiseEarned == Spec => []PraiseIsEarned
<1>1. IInv => PraiseIsEarned
  BY VerdictRead, PraisesEarned DEF PraiseIsEarned, PraisedRules, Wand, w
<1> QED
  BY <1>1, RowsTrueAlways, PTL

\* LeadIsAnOperator, for every world and every failed lookup: an operator
\* that leads a verdict runs a host the verdict is about.
THEOREM LeadsAreTrue == Spec => []LeadIsAnOperator
<1>1. IInv => LeadIsAnOperator
  BY VerdictRead, LeadsAreOperators DEF LeadIsAnOperator, OutsideVendors, w
<1> QED
  BY <1>1, RowsTrueAlways, PTL

(***************************************************************************)
(* Where the walk leads when nothing fails.                                *)
(***************************************************************************)
\* A walk that stops after k redirects, what ends it there, and how that is
\* reported.
StopsAt(x, p, Down, budget, known, k) ==
  LET at   == urlsFrom(x, StartOf(x, p))
      url  == at[k]
      left == budget - k
  IN  /\ \A n \in 0 .. 5 : n < k => Live(x, p, at[n]) /\ Redirects(x, at[n])
      /\ \/ origin(url) \in known \/ k = budget \/ url[2] \in Down
         \/ Refused(x, p.family, url[2])
         \/ ~Answers(x, p.family, url) \/ ~Redirects(x, url) \/ k = 5
      /\ follow(x, Down, p.family, StartOf(x, p), budget, known)
           = IF origin(url) \in known THEN Reached(url, left)
             ELSE IF left = 0 THEN Unended("not_followed_budget", left)
             ELSE IF url[2] \in Down \/ OfFamily(x, p.family, url[2]) = {}
             THEN Unended("unreachable", left)
             ELSE IF Refused(x, p.family, url[2]) THEN Unended("refused", left)
             ELSE IF Answers(x, p.family, url) /\ ~Redirects(x, url) THEN Reached(url, left - 1)
             ELSE Unended("unreachable", left - 1)

\* Every walk stops.
LEMMA FollowStops ==
  ASSUME NEW x, NEW p, NEW Down, NEW budget, NEW known
  PROVE  \E k \in 0 .. 5 : StopsAt(x, p, Down, budget, known, k)
<1> DEFINE at == urlsFrom(x, StartOf(x, p))
           Undialled(n) == \/ origin(at[n]) \in known
                           \/ n = budget
                           \/ at[n][2] \in Down
                           \/ Refused(x, p.family, at[n][2])
           ends == {n \in 0 .. 5 : \/ Undialled(n)
                                   \/ ~Answers(x, p.family, at[n]) \/ ~Redirects(x, at[n])
                                   \/ n = 5}
           k == Min(ends)
           left == budget - k
           e == follow(x, Down, p.family, StartOf(x, p), budget, known)
<1>1. e = IF origin(at[k]) \in known THEN Reached(at[k], left)
          ELSE IF left = 0 THEN Unended("not_followed_budget", left)
          ELSE IF at[k][2] \in Down \/ OfFamily(x, p.family, at[k][2]) = {}
          THEN Unended("unreachable", left)
          ELSE IF Refused(x, p.family, at[k][2]) THEN Unended("refused", left)
          ELSE IF Answers(x, p.family, at[k]) /\ ~Redirects(x, at[k]) THEN Reached(at[k], left - 1)
          ELSE Unended("unreachable", left - 1)
  BY DEF follow, maxRedirectsPerPath
<1>2. k \in ends /\ \A n \in ends : k <= n
  <2>1. ends \in SUBSET Nat /\ 5 \in ends
    OBVIOUS
  <2> HIDE DEF ends
  <2> QED
    BY <2>1, LeastPicked
<1>3. k \in 0 .. 5 /\ \A n \in 0 .. 5 : n < k => Live(x, p, at[n]) /\ Redirects(x, at[n])
  <2>1. k \in 0 .. 5
    BY <1>2
  <2>2. ASSUME NEW n \in 0 .. 5, n < k PROVE n \notin ends
    <3> HIDE DEF ends, k
    <3> QED
      BY SMTT(40), <1>2, <2>1, <2>2
  <2> QED
    BY <2>1, <2>2 DEF Live
<1>4. \/ origin(at[k]) \in known \/ k = budget \/ at[k][2] \in Down
      \/ Refused(x, p.family, at[k][2])
      \/ ~Answers(x, p.family, at[k]) \/ ~Redirects(x, at[k]) \/ k = 5
  BY <1>2
<1>5. StopsAt(x, p, Down, budget, known, k)
  <2> HIDE DEF k
  <2> QED
    BY <1>1, <1>3, <1>4, Zenon DEF StopsAt
<1> HIDE DEF k
<1> QED
  BY <1>3, <1>5

\* As far as a walk is redirected, it visits what the redirects lead to.
LEMMA WalkVisits ==
  ASSUME NEW x, NEW p, NEW k \in 0 .. 5,
         \A n \in 0 .. 5 : n < k => Live(x, p, urlsFrom(x, StartOf(x, p))[n])
                                    /\ Redirects(x, urlsFrom(x, StartOf(x, p))[n])
  PROVE  \A n \in 0 .. 5 : n <= k => urlsFrom(x, StartOf(x, p))[n] \in Visited(x, p)
<1> DEFINE at == urlsFrom(x, StartOf(x, p))
<1>1. at[0] = StartOf(x, p) /\ \A n \in 1 .. 5 : at[n] = nextUrl(x, at[n - 1])
  BY UrlsInTurn
<1>2. \A n \in 0 .. 5 : n < k => Live(x, p, at[n]) /\ Redirects(x, at[n])
  OBVIOUS
<1> HIDE DEF at
<1> DEFINE B == {n \in 0 .. 5 : n <= k /\ at[n] \notin Visited(x, p)}
<1> SUFFICES ASSUME B # {} PROVE FALSE
  BY DEF at
<1>3. PICK m \in B : \A y \in B : m <= y
  <2>1. B \in SUBSET Nat
    OBVIOUS
  <2> HIDE DEF B
  <2> QED
    BY <2>1, LeastPicked
<1>4. m # 0
  BY <1>1, VisitedStart
<1>5. m \in 1 .. 5 /\ m - 1 \in 0 .. 5 /\ m - 1 < k /\ m - 1 <= k /\ ~(m <= m - 1)
  BY <1>4
<1>6. at[m - 1] \in Visited(x, p)
  BY <1>3, <1>5
<1>7. Live(x, p, at[m - 1]) /\ Redirects(x, at[m - 1])
  BY <1>2, <1>5
<1>8. at[m] = x.site[at[m - 1]][2]
  BY <1>1, <1>5, <1>7 DEF nextUrl
<1> QED
  BY <1>3, <1>6, <1>7, <1>8, VisitedNext

\* Where a walk that is not redirected any more has come to is all there is.
LEMMA WalkEnds ==
  ASSUME NEW x, NEW p, NEW k \in 0 .. 5,
         \A n \in 0 .. 5 : n < k => Live(x, p, urlsFrom(x, StartOf(x, p))[n])
                                    /\ Redirects(x, urlsFrom(x, StartOf(x, p))[n]),
         LET url == urlsFrom(x, StartOf(x, p))[k]
         IN  ~(Live(x, p, url) /\ Redirects(x, url))
  PROVE  LET url == urlsFrom(x, StartOf(x, p))[k]
         IN  Destination(x, p) = IF Live(x, p, url) /\ x.site[url][1] = "serves"
                                 THEN {origin(url)} ELSE {}
<1> DEFINE at == urlsFrom(x, StartOf(x, p))
           V == {at[n] : n \in 0 .. k}
<1>1. at[0] = StartOf(x, p) /\ \A n \in 1 .. 5 : at[n] = nextUrl(x, at[n - 1])
  BY UrlsInTurn
<1>2. \A n \in 0 .. 5 : n <= k => at[n] \in Visited(x, p)
  BY WalkVisits
<1>3. /\ \A n \in 0 .. 5 : n < k => Live(x, p, at[n]) /\ Redirects(x, at[n])
      /\ ~(Live(x, p, at[k]) /\ Redirects(x, at[k]))
  OBVIOUS
<1> HIDE DEF at
<1>4. \A n \in 0 .. k : n \in 0 .. 5 /\ n <= k /\ (n = k \/ n < k)
  OBVIOUS
<1>5. V \subseteq Visited(x, p) /\ StartOf(x, p) \in V /\ at[k] \in V
  BY <1>1, <1>2, <1>4
<1>6. LedOn(x, p, V)
  <2> SUFFICES ASSUME NEW u \in V, Live(x, p, u), Redirects(x, u) PROVE x.site[u][2] \in V
    BY DEF LedOn
  <2>1. PICK n \in 0 .. k : u = at[n]
    OBVIOUS
  <2>2. n < k
    BY <1>3, <1>4, <2>1
  <2>3. n + 1 \in 0 .. k /\ n + 1 \in 1 .. 5 /\ n + 1 - 1 = n
    BY <2>2
  <2>4. at[n + 1] = x.site[u][2]
    BY <1>1, <2>1, <2>3 DEF nextUrl
  <2> QED
    BY <2>3, <2>4
<1>7. V = Visited(x, p)
  <2>1. V \in SUBSET Urls(x, p)
    BY <1>5 DEF Visited
  <2> HIDE DEF V
  <2>2. \A u \in Visited(x, p) : u \in V
    BY <1>5, <1>6, <2>1 DEF Visited
  <2> QED
    BY <1>5, <2>2
<1>8. ASSUME NEW u \in V, Live(x, p, u), x.site[u][1] = "serves" PROVE u = at[k]
  <2>1. PICK n \in 0 .. k : u = at[n]
    BY <1>8
  <2>2. ~Redirects(x, u)
    BY <1>8 DEF Redirects
  <2> QED
    BY <1>3, <1>4, <2>1, <2>2
<1> HIDE DEF V
<1>9. Destination(x, p) = IF Live(x, p, at[k]) /\ x.site[at[k]][1] = "serves"
                          THEN {origin(at[k])} ELSE {}
  BY <1>5, <1>7, <1>8 DEF Destination
<1> QED
  BY <1>9 DEF at

\* An origin that serves a page to a family.
Served(x, fam, o) ==
  \E v \in DOMAIN x.site : /\ x.site[v][1] = "serves" /\ origin(v) = o
                           /\ ~Refused(x, fam, v[2]) /\ <<fam, v[2]>> \notin x.silent

\* What the end of a path says of where it leads.
EndExact(x, p, e) ==
  /\ e.status # "not_tested"
  /\ e.status = "reachable" => Destination(x, p) = {e.final} /\ Served(x, p.family, e.final)
  /\ e.status \notin {"reachable", "not_followed_budget"} => Destination(x, p) = {}

\* A walk in which nothing fails tells where the path leads, also when it
\* stops at an origin that its family reached before.
LEMMA FollowExact ==
  ASSUME NEW x, HasDoors(x), OneRoomPerOrigin(x), CapSuffices(x), NEW p \in ToSet(paths),
         NEW budget \in Int, NEW known, \A o \in known : Served(x, p.family, o)
  PROVE  LET e == follow(x, {}, p.family, StartOf(x, p), budget, known)
         IN  e.left \in Int /\ EndExact(x, p, e)
<1> DEFINE at == urlsFrom(x, StartOf(x, p))
           e == follow(x, {}, p.family, StartOf(x, p), budget, known)
<1>0. PICK k \in 0 .. 5 : StopsAt(x, p, {}, budget, known, k)
  BY FollowStops
<1> DEFINE url == at[k]
<1>1. /\ \A n \in 0 .. 5 : n < k => Live(x, p, at[n]) /\ Redirects(x, at[n])
      /\ \/ origin(url) \in known \/ k = budget \/ Refused(x, p.family, url[2])
         \/ ~Answers(x, p.family, url) \/ ~Redirects(x, url) \/ k = 5
      /\ e = IF origin(url) \in known THEN Reached(url, budget - k)
             ELSE IF budget - k = 0 THEN Unended("not_followed_budget", budget - k)
             ELSE IF url[2] \in {} \/ OfFamily(x, p.family, url[2]) = {}
             THEN Unended("unreachable", budget - k)
             ELSE IF Refused(x, p.family, url[2]) THEN Unended("refused", budget - k)
             ELSE IF Answers(x, p.family, url) /\ ~Redirects(x, url)
             THEN Reached(url, budget - k - 1)
             ELSE Unended("unreachable", budget - k - 1)
  BY <1>0 DEF StopsAt
<1>2. ~(Live(x, p, url) /\ Redirects(x, url))
        => Destination(x, p) = IF Live(x, p, url) /\ x.site[url][1] = "serves"
                               THEN {origin(url)} ELSE {}
  BY <1>1, WalkEnds
<1>3. url \in Urls(x, p)
  BY <1>1, WalkVisits DEF Visited
<1>4. Redirects(x, url) /\ k = 5 => Destination(x, p) = {}
  BY DEF CapSuffices, maxRedirectsPerPath
<1>5. /\ \A s, l : Unended(s, l).status = s /\ Unended(s, l).left = l
      /\ \A u, l : /\ Reached(u, l).status = "reachable" /\ Reached(u, l).left = l
                   /\ Reached(u, l).final = origin(u)
  BY DEF Unended, Reached
<1>6. Redirects(x, url) => x.site[url][1] # "serves"
  BY DEF Redirects
<1>7. budget - k \in Int /\ budget - k - 1 \in Int /\ (k = budget => budget - k = 0)
  OBVIOUS
<1> HIDE DEF at, e, url
<1>8. CASE origin(url) \in known
  <2>1. e = Reached(url, budget - k)
    BY <1>1, <1>8
  <2>2. PICK v \in DOMAIN x.site : /\ x.site[v][1] = "serves" /\ origin(v) = origin(url)
                                   /\ ~Refused(x, p.family, v[2])
                                   /\ <<p.family, v[2]>> \notin x.silent
    BY <1>8 DEF Served
  <2>3. url \in DOMAIN x.site /\ x.site[url][1] = "serves"
    BY <1>3, <2>2 DEF OneRoomPerOrigin
  <2>4. v[2] = url[2]
    BY <2>2 DEF origin
  <2>5. Live(x, p, url) /\ x.site[url][1] = "serves"
    BY <2>2, <2>3, <2>4 DEF Live, Answers
  <2>6. Destination(x, p) = {origin(url)}
    BY <1>2, <1>6, <2>5
  <2>7. e.status = "reachable" /\ e.final = origin(url) /\ e.left = budget - k
    BY <1>5, <2>1
  <2>8. Served(x, p.family, e.final)
    BY <1>8, <2>7
  <2> QED
    BY <1>7, <2>6, <2>7, <2>8 DEF EndExact, e
<1>9. CASE origin(url) \notin known /\ budget - k = 0
  <2>1. e.status = "not_followed_budget" /\ e.left = budget - k
    BY <1>1, <1>5, <1>9
  <2> QED
    BY <1>7, <2>1 DEF EndExact, e
<1>10. CASE origin(url) \notin known /\ budget - k # 0 /\ ~Live(x, p, url)
  <2>1. Destination(x, p) = {}
    BY <1>2, <1>10
  <2>2. e.status \in {"unreachable", "refused"} /\ e.left \in {budget - k, budget - k - 1}
    BY <1>1, <1>5, <1>10 DEF Live
  <2> QED
    BY <1>7, <2>1, <2>2 DEF EndExact, e
<1>11. CASE origin(url) \notin known /\ budget - k # 0 /\ Live(x, p, url) /\ Redirects(x, url)
  <2>1. k = 5
    BY <1>1, <1>7, <1>11 DEF Live
  <2>2. Destination(x, p) = {}
    BY <1>4, <1>11, <2>1
  <2>3. e.status \in {"unreachable", "refused"} /\ e.left \in {budget - k, budget - k - 1}
    BY <1>1, <1>5, <1>11
  <2> QED
    BY <1>7, <2>2, <2>3 DEF EndExact, e
<1>12. CASE origin(url) \notin known /\ budget - k # 0 /\ Live(x, p, url) /\ ~Redirects(x, url)
  <2>1. url \in DOMAIN x.site /\ ~Refused(x, p.family, url[2]) /\ Answers(x, p.family, url)
        /\ <<p.family, url[2]>> \notin x.silent
    BY <1>12 DEF Live, Answers
  <2>2. x.site[url][1] = "serves"
    BY <1>12, <2>1 DEF Redirects, HasDoors
  <2>3. OfFamily(x, p.family, url[2]) # {}
    BY <2>1 DEF Refused
  <2>4. e = Reached(url, budget - k - 1)
    BY <1>1, <1>12, <2>1, <2>3
  <2>5. e.status = "reachable" /\ e.final = origin(url) /\ e.left = budget - k - 1
    BY <1>5, <2>4
  <2>6. Destination(x, p) = {origin(url)}
    BY <1>2, <1>12, <2>2
  <2>7. Served(x, p.family, origin(url))
    BY <2>1, <2>2 DEF Served
  <2> QED
    BY <1>7, <2>5, <2>6, <2>7 DEF EndExact, e
<1> QED
  BY <1>8, <1>9, <1>10, <1>11, <1>12

\* The record of a walked path keeps the path.
LEMMA EndedPath ==
  ASSUME NEW p \in ToSet(paths), NEW e
  PROVE  /\ Ended(p, e).family = p.family /\ Ended(p, e).scheme = p.scheme
         /\ "reason" \in DOMAIN e => Ended(p, e).reason = e.reason
<1>1. DOMAIN p = {"host_part", "family", "scheme"}
  BY PathFields
<1> DEFINE D == DOMAIN p \cup DOMAIN e
           r == [f \in D |-> IF f \in DOMAIN p THEN p[f] ELSE e[f]]
<1>2. \A f \in D : r[f] = IF f \in DOMAIN p THEN p[f] ELSE e[f]
  OBVIOUS
<1>3. Ended(p, e) = r
  BY DEF Ended
<1> HIDE DEF r
<1>4. r["family"] = p["family"] /\ r["scheme"] = p["scheme"]
      /\ ("reason" \in DOMAIN e => r["reason"] = e["reason"])
  BY <1>1, <1>2
<1> QED
  BY <1>3, <1>4

\* The walks, one path after the other.
NoWalk == [left |-> connectionBudget, results |-> <<>>, known |-> [f \in {"v4", "v6"} |-> {}]]

LEMMA WalksInTurn ==
  ASSUME NEW x, NEW F
  PROVE  LET after == walkPaths(x, F)
         IN  /\ after[0] = NoWalk
             /\ \A k \in 1 .. 8 : after[k] = walkPath(x, F, after[k - 1], paths[k])
<1> DEFINE b == NoWalk
           Def(g) == [k \in 0 .. Len(paths) |->
                        IF k = 0 THEN b ELSE walkPath(x, F, g[k - 1], paths[k])]
           after == CHOOSE g : g = Def(g)
<1>1. walkPaths(x, F) = after
  BY Zenon DEF walkPaths, NoWalk
<1>0. Len(paths) = 8
  BY DEF paths
<1> HIDE DEF b
<1>3. \E g : g = Def(g)
  <2> DEFINE Go(acc, k) == walkPath(x, F, acc, paths[k])
             a1 == Go(b, 1)
             a2 == Go(a1, 2)
             a3 == Go(a2, 3)
             a4 == Go(a3, 4)
             a5 == Go(a4, 5)
             a6 == Go(a5, 6)
             a7 == Go(a6, 7)
             a8 == Go(a7, 8)
             g == [k \in 0 .. 8 |-> IF k = 0 THEN b ELSE IF k = 1 THEN a1
                                    ELSE IF k = 2 THEN a2 ELSE IF k = 3 THEN a3
                                    ELSE IF k = 4 THEN a4 ELSE IF k = 5 THEN a5
                                    ELSE IF k = 6 THEN a6 ELSE IF k = 7 THEN a7 ELSE a8]
  <2> HIDE DEF Go
  <2>1. /\ g[0] = b /\ g[1] = a1 /\ g[2] = a2 /\ g[3] = a3 /\ g[4] = a4
        /\ g[5] = a5 /\ g[6] = a6 /\ g[7] = a7 /\ g[8] = a8
    <3> HIDE DEF a1, a2, a3, a4, a5, a6, a7, a8
    <3> QED
      OBVIOUS
  <2>2. \A k \in 0 .. 8 : \/ k = 0 \/ k = 1 \/ k = 2 \/ k = 3 \/ k = 4
                          \/ k = 5 \/ k = 6 \/ k = 7 \/ k = 8
    OBVIOUS
  <2>3. g = [k \in 0 .. 8 |-> g[k]]
    OBVIOUS
  <2>4. \A k \in 0 .. 8 : g[k] = IF k = 0 THEN b ELSE Go(g[k - 1], k)
    <3> HIDE DEF g
    <3>1. /\ 1 - 1 = 0 /\ 2 - 1 = 1 /\ 3 - 1 = 2 /\ 4 - 1 = 3 /\ 5 - 1 = 4
          /\ 6 - 1 = 5 /\ 7 - 1 = 6 /\ 8 - 1 = 7
      OBVIOUS
    <3>2. /\ g[1] = Go(g[0], 1) /\ g[2] = Go(g[1], 2) /\ g[3] = Go(g[2], 3) /\ g[4] = Go(g[3], 4)
          /\ g[5] = Go(g[4], 5) /\ g[6] = Go(g[5], 6) /\ g[7] = Go(g[6], 7) /\ g[8] = Go(g[7], 8)
      BY <2>1
    <3> QED
      BY <2>1, <2>2, <3>1, <3>2
  <2> HIDE DEF g
  <2>5. g = Def(g)
    BY <2>3, <2>4, <1>0 DEF Go
  <2> QED
    BY <2>5
<1>4. after = Def(after)
  BY <1>3, Zenon
<1> HIDE DEF after
<1>5. \A k \in 0 .. 8 : after[k] = IF k = 0 THEN b ELSE walkPath(x, F, after[k - 1], paths[k])
  BY <1>4, <1>0
<1>6. after[0] = b /\ \A k \in 1 .. 8 : after[k] = walkPath(x, F, after[k - 1], paths[k])
  BY <1>5
<1> QED
  BY <1>1, <1>6 DEF b

\* What a report says of its path, when nothing failed.
PathExact(x, p, r) ==
  /\ r.family = p.family /\ r.scheme = p.scheme
  /\ IF p.family = "v6" /\ ~x.ipv6
     THEN r.status = "not_tested" /\ r.reason = "scanner_no_ipv6"
     ELSE /\ r.status # "not_tested"
          /\ r.status = "reachable" => Destination(x, p) = {r.final}
          /\ r.status \notin {"reachable", "not_followed_budget"} => Destination(x, p) = {}

ExactWalk(x, acc, n) ==
  /\ acc = [left |-> acc.left, known |-> acc.known, results |-> acc.results]
  /\ acc.left \in Int
  /\ acc.known = [f \in {"v4", "v6"} |-> acc.known[f]]
  /\ \A f \in {"v4", "v6"} : \A o \in acc.known[f] : Served(x, f, o)
  /\ IsList(acc.results) /\ Len(acc.results) = n
  /\ \A k \in 1 .. n : PathExact(x, paths[k], acc.results[k])

\* One more path.
LEMMA ExactStep ==
  ASSUME NEW x, HasDoors(x), OneRoomPerOrigin(x), CapSuffices(x), NEW n \in 0 .. 7,
         NEW acc, ExactWalk(x, acc, n)
  PROVE  ExactWalk(x, walkPath(x, {}, acc, paths[n + 1]), n + 1)
<1> DEFINE s == acc.results
           p == paths[n + 1]
<1>0. n + 1 \in 1 .. 8 /\ DOMAIN paths = 1 .. 8 /\ n \in Nat /\ n + 1 \in Nat
  BY DEF paths
<1>1. p \in ToSet(paths)
  BY <1>0 DEF ToSet
<1> HIDE DEF p
<1>2. IsList(s) /\ Len(s) = n /\ DOMAIN s = 1 .. n /\ p.family \in {"v4", "v6"}
  BY <1>1, PathFields, ListDomain DEF ExactWalk
<1>3. ASSUME NEW a, PathExact(x, p, a)
      PROVE  LET t == Append(s, a)
             IN  /\ IsList(t) /\ Len(t) = n + 1
                 /\ \A k \in 1 .. n + 1 : PathExact(x, paths[k], t[k])
  <2> DEFINE t == Append(s, a)
  <2>1. /\ IsList(t) /\ n + 1 \in DOMAIN t /\ t[n + 1] = a /\ \A k \in DOMAIN s : t[k] = s[k]
        /\ \A k \in DOMAIN t : k \in DOMAIN s \/ k = n + 1
    BY <1>2, AppendList
  <2>2. DOMAIN t = 1 .. Len(t) /\ Len(t) \in Nat
    BY <2>1, ListDomain
  <2> HIDE DEF t, s
  <2>3. Len(t) = n + 1
    <3>1. Len(t) \in DOMAIN t
      BY <2>1, <2>2
    <3>2. n + 1 <= Len(t)
      BY <2>1, <2>2
    <3>3. Len(t) <= n + 1
      BY <1>0, <1>2, <2>1, <3>1
    <3>4. \A l \in Nat : n + 1 <= l /\ l <= n + 1 => l = n + 1
      BY <1>0
    <3> QED
      BY Zenon, <2>2, <3>2, <3>3, <3>4
  <2>4. \A k \in 1 .. n : PathExact(x, paths[k], s[k])
    BY DEF ExactWalk, s
  <2>5. \A k \in 1 .. n + 1 : k \in 1 .. n \/ k = n + 1
    BY <1>0
  <2> QED
    BY <1>2, <1>3, <2>1, <2>3, <2>4, <2>5 DEF t, p
<1>4. CASE p.family = "v6" /\ ~x.ipv6
  <2> DEFINE e == [status |-> "not_tested", reason |-> "scanner_no_ipv6"]
             a == Ended(p, e)
             t == Append(s, a)
             acc2 == [acc EXCEPT !.results = t]
  <2>1. walkPath(x, {}, acc, p) = acc2
    BY <1>4 DEF walkPath
  <2>2. /\ "status" \in DOMAIN e /\ e.status = "not_tested"
        /\ "reason" \in DOMAIN e /\ e.reason = "scanner_no_ipv6"
    OBVIOUS
  <2> HIDE DEF e
  <2>3. PathExact(x, p, a)
    <3>1. /\ a.status = "not_tested" /\ a.reason = "scanner_no_ipv6"
          /\ a.family = p.family /\ a.scheme = p.scheme
      BY <1>1, <2>2, EndedFields, EndedPath
    <3> HIDE DEF a
    <3> QED
      BY <1>4, <3>1 DEF PathExact
  <2> HIDE DEF a
  <2>4. IsList(t) /\ Len(t) = n + 1 /\ \A k \in 1 .. n + 1 : PathExact(x, paths[k], t[k])
    BY <1>3, <2>3
  <2> HIDE DEF t
  <2>5. acc2 = [left |-> acc.left, known |-> acc.known, results |-> t]
    BY DEF ExactWalk
  <2>6. acc2.results = t /\ acc2.known = acc.known /\ acc2.left = acc.left
    BY <2>5
  <2> HIDE DEF acc2, s
  <2>7. ExactWalk(x, acc2, n + 1)
    BY <2>4, <2>5, <2>6 DEF ExactWalk
  <2> QED
    BY <2>1, <2>7 DEF p
<1>5. CASE ~(p.family = "v6" /\ ~x.ipv6)
  <2> DEFINE hosts == {x.domain, x.www} \cup {url[2] : url \in DOMAIN x.site}
             cut == \E k \in 1 .. Len(acc.results) + 1 : <<"cut", k>> \in {}
             Down == IF cut THEN hosts ELSE {h \in hosts : <<"variants", h>> \in {}}
             known == acc.known[p.family]
             e == follow(x, Down, p.family, StartOf(x, p), acc.left, known)
             a == Ended(p, e)
             t == Append(s, a)
             K == IF e.status = "reachable"
                  THEN [acc.known EXCEPT ![p.family] = @ \cup {e.final}] ELSE acc.known
             acc2 == [left |-> e.left, known |-> K, results |-> t]
  <2>1. walkPath(x, {}, acc, p) = acc2
    BY <1>5 DEF walkPath, verified
  <2>2. Down = {}
    OBVIOUS
  <2> HIDE DEF Down
  <2>3. \A o \in known : Served(x, p.family, o)
    BY <1>2 DEF ExactWalk
  <2>4. acc.left \in Int
    BY DEF ExactWalk
  <2>5. e.left \in Int /\ EndExact(x, p, e)
    BY <1>1, <2>2, <2>3, <2>4, FollowExact
  <2>6. "status" \in DOMAIN e /\ (e.status = "reachable" => "final" \in DOMAIN e)
    BY FollowFields
  <2> HIDE DEF e
  <2>7. PathExact(x, p, a)
    <3>1. /\ a.status = e.status /\ (e.status = "reachable" => a.final = e.final)
          /\ a.family = p.family /\ a.scheme = p.scheme
      BY <1>1, <2>6, EndedFields, EndedPath
    <3> HIDE DEF a
    <3> QED
      BY <1>5, <2>5, <3>1 DEF PathExact, EndExact
  <2> HIDE DEF a
  <2>8. IsList(t) /\ Len(t) = n + 1 /\ \A k \in 1 .. n + 1 : PathExact(x, paths[k], t[k])
    BY <1>3, <2>7
  <2> HIDE DEF t, s
  <2>9. acc.known = [f \in {"v4", "v6"} |-> acc.known[f]]
        /\ \A f \in {"v4", "v6"} : \A o \in acc.known[f] : Served(x, f, o)
    BY DEF ExactWalk
  <2>10. K = [f \in {"v4", "v6"} |-> K[f]] /\ \A f \in {"v4", "v6"} : \A o \in K[f] : Served(x, f, o)
    <3>1. CASE e.status = "reachable"
      <4>1. Served(x, p.family, e.final)
        BY <2>5, <3>1 DEF EndExact
      <4>2. K = [acc.known EXCEPT ![p.family] = acc.known[p.family] \cup {e.final}]
        BY <3>1
      <4> HIDE DEF K
      <4>3. /\ K = [f \in {"v4", "v6"} |-> K[f]]
            /\ \A f \in {"v4", "v6"} : K[f] = IF f = p.family THEN acc.known[f] \cup {e.final}
                                              ELSE acc.known[f]
        BY <1>2, <2>9, <4>2
      <4> QED
        BY <2>9, <4>1, <4>3
    <3>2. CASE e.status # "reachable"
      BY <2>9, <3>2
    <3> QED
      BY <3>1, <3>2
  <2> HIDE DEF K
  <2>11. /\ acc2.results = t /\ acc2.known = K /\ acc2.left = e.left
         /\ acc2 = [left |-> acc2.left, known |-> acc2.known, results |-> acc2.results]
    OBVIOUS
  <2> HIDE DEF acc2
  <2>12. ExactWalk(x, acc2, n + 1)
    BY <2>5, <2>8, <2>10, <2>11 DEF ExactWalk
  <2> QED
    BY <2>1, <2>12 DEF p
<1> QED
  BY <1>4, <1>5

\* When nothing fails, the report of every path says where it leads, unless
\* the budget was spent.
LEMMA WalksExact ==
  ASSUME NEW x, HasDoors(x), OneRoomPerOrigin(x), CapSuffices(x)
  PROVE  LET ends == walkPaths(x, {})[Len(paths)].results
         IN  /\ IsList(ends) /\ DOMAIN ends = 1 .. 8
             /\ \A k \in 1 .. 8 : PathExact(x, paths[k], ends[k])
<1> DEFINE after == walkPaths(x, {})
<1>1. after[0] = NoWalk /\ \A k \in 1 .. 8 : after[k] = walkPath(x, {}, after[k - 1], paths[k])
  BY WalksInTurn
<1>2. ExactWalk(x, NoWalk, 0)
  <2> DEFINE b == NoWalk
  <2>1. /\ b.left = 24 /\ b.results = <<>> /\ b.known = [f \in {"v4", "v6"} |-> {}]
        /\ b = [left |-> b.left, known |-> b.known, results |-> b.results]
    BY DEF NoWalk, connectionBudget
  <2> HIDE DEF b
  <2>2. \A f \in {"v4", "v6"} : b.known[f] = {}
    BY <2>1
  <2>3. IsList(b.results) /\ Len(b.results) = 0
    BY <2>1, NoList
  <2>4. ExactWalk(x, b, 0)
    BY <2>1, <2>2, <2>3 DEF ExactWalk
  <2> QED
    BY <2>4 DEF b
<1> HIDE DEF after
<1>3. ExactWalk(x, after[8], 8)
  <2> DEFINE B == {k \in 0 .. 8 : ~ExactWalk(x, after[k], k)}
  <2> SUFFICES ASSUME B # {} PROVE FALSE
    OBVIOUS
  <2>1. PICK m \in B : \A y \in B : m <= y
    <3>1. B \in SUBSET Nat
      OBVIOUS
    <3> HIDE DEF B
    <3> QED
      BY <3>1, LeastPicked
  <2>2. m # 0
    BY <1>1, <1>2
  <2>3. m \in 1 .. 8 /\ m - 1 \in 0 .. 7 /\ m - 1 \in 0 .. 8 /\ ~(m <= m - 1) /\ m - 1 + 1 = m
    BY <2>2
  <2>4. ExactWalk(x, after[m - 1], m - 1)
    BY <2>1, <2>3
  <2>5. ExactWalk(x, walkPath(x, {}, after[m - 1], paths[m - 1 + 1]), m - 1 + 1)
    BY <2>3, <2>4, ExactStep
  <2>6. ExactWalk(x, after[m], m)
    BY <1>1, <2>3, <2>5
  <2> QED
    BY <2>6
<1>4. Len(paths) = 8
  BY DEF paths
<1>5. /\ IsList(after[8].results) /\ DOMAIN after[8].results = 1 .. 8
      /\ \A k \in 1 .. 8 : PathExact(x, paths[k], after[8].results[k])
  <2> DEFINE a == after[8]
             s == a.results
  <2>1. IsList(s) /\ Len(s) = 8 /\ \A k \in 1 .. 8 : PathExact(x, paths[k], s[k])
    BY <1>3 DEF ExactWalk
  <2> HIDE DEF s
  <2>2. DOMAIN s = 1 .. 8
    BY SMTT(40), <2>1, ListDomain
  <2> QED
    BY <2>1, <2>2 DEF s
<1> QED
  BY <1>4, <1>5 DEF after

\* What the reports of the walks say, when nothing fails: obs are the paths
\* that were walked, rch those that led somewhere.
Told(x, ps, obs, rch) ==
  /\ DOMAIN ps = 1 .. 8
  /\ \A k \in 1 .. 8 : ps[k].family = paths[k].family /\ ps[k].scheme = paths[k].scheme
  /\ obs = {k \in 1 .. 8 : paths[k].family = "v4" \/ x.ipv6}
  /\ \A k \in (1 .. 8) \ obs : ps[k].status = "not_tested" /\ ps[k].reason = "scanner_no_ipv6"
  /\ \A k \in obs : ps[k].status # "not_tested"
  /\ rch = {k \in 1 .. 8 : paths[k] \in Open(x)}
  /\ \A k \in rch : Destination(x, paths[k]) = {ps[k].final}
  /\ Open(x) = {paths[k] : k \in rch}

\* The reports of the walks in which nothing fails say what the world holds.
LEMMA DoorsTold ==
  ASSUME NEW x, HasDoors(x), OneRoomPerOrigin(x), CapSuffices(x), BudgetSuffices(x),
         NEW ps, ps = walkPaths(x, {})[Len(paths)].results,
         NEW obs,
         obs = {k \in DOMAIN ps : ps[k].status \notin {"not_tested", "not_followed_budget"}},
         NEW rch, rch = {k \in obs : ps[k].status = "reachable"}
  PROVE  Told(x, ps, obs, rch)
<1>1. DOMAIN ps = 1 .. 8 /\ \A k \in 1 .. 8 : PathExact(x, paths[k], ps[k])
  BY WalksExact
<1>2. \A k \in 1 .. 8 : ps[k].status # "not_followed_budget"
  BY <1>1, Zenon DEF BudgetSuffices
<1>3. DOMAIN paths = 1 .. 8 /\ \A k \in 1 .. 8 : paths[k] \in ToSet(paths)
  <2>1. DOMAIN paths = 1 .. 8
    BY DEF paths
  <2> QED
    BY <2>1 DEF ToSet
<1>4. \A k \in 1 .. 8 : paths[k].family \in {"v4", "v6"}
  BY SMTT(40), <1>3, PathFields
<1>5. \A k \in 1 .. 8 : ps[k].family = paths[k].family /\ ps[k].scheme = paths[k].scheme
  BY <1>1 DEF PathExact
<1>6. \A k \in 1 .. 8 : IF paths[k].family = "v4" \/ x.ipv6
                         THEN ps[k].status \notin {"not_tested", "not_followed_budget"}
                         ELSE ps[k].status = "not_tested" /\ ps[k].reason = "scanner_no_ipv6"
  BY <1>1, <1>2, <1>4 DEF PathExact
<1>7. obs = {k \in 1 .. 8 : paths[k].family = "v4" \/ x.ipv6}
  BY SMTT(40), <1>1, <1>6
<1>8. \A k \in obs : IF ps[k].status = "reachable" THEN Destination(x, paths[k]) = {ps[k].final}
                     ELSE Destination(x, paths[k]) = {}
  BY <1>1, <1>2, <1>4, <1>7 DEF PathExact
<1>9. \A k \in 1 .. 8 : paths[k] \in Open(x)
                          <=> (paths[k].family = "v4" \/ x.ipv6) /\ Destination(x, paths[k]) # {}
  BY <1>3 DEF Open
<1>10. rch = {k \in 1 .. 8 : paths[k] \in Open(x)}
  BY <1>7, <1>8, <1>9
<1>11. \A p \in Open(x) : \E k \in 1 .. 8 : p = paths[k]
  BY <1>3 DEF Open, ToSet
<1>12. Open(x) = {paths[k] : k \in rch}
  BY <1>10, <1>11
<1>13. /\ \A k \in (1 .. 8) \ obs : /\ ps[k].status = "not_tested"
                                    /\ ps[k].reason = "scanner_no_ipv6"
       /\ \A k \in obs : ps[k].status # "not_tested"
       /\ \A k \in rch : Destination(x, paths[k]) = {ps[k].final}
  BY <1>6, <1>7, <1>8
<1> QED
  BY Zenon, <1>1, <1>5, <1>7, <1>10, <1>12, <1>13 DEF Told

\* What variant_convergence makes of such reports is what the doors deserve.
LEMMA DoorsExact ==
  ASSUME NEW x, HasDoors(x), OneRoomPerOrigin(x), CapSuffices(x), BudgetSuffices(x),
         NEW fs, Rows(fs, "http.variants") # {},
         fs[LastRow(Rows(fs, "http.variants"))].attrs.paths
           = walkPaths(x, {})[Len(paths)].results,
         \A fam \in {"v4", "v6"} : familyHasDNSRecord(fs, fam) <=> OfFamily(x, fam, x.domain) # {}
  PROVE  RationaleScore(variantConvergence(fs)) = ConvergenceTruth(x)
<1> DEFINE I == Rows(fs, "http.variants")
           gone == Rows(fs, "http.variants.unavailable")
           i == LastRow(I)
           ps == fs[i].attrs.paths
           obs == {k \in DOMAIN ps : ps[k].status \notin {"not_tested", "not_followed_budget"}}
           rch == {k \in obs : ps[k].status = "reachable"}
           plain == {k \in rch : ps[k].scheme = "http" /\ ps[k].final.scheme = "http"}
           ends == {ps[k].final : k \in rch}
           tried(fam) == \E k \in obs : ps[k].family = fam
           found(fam) == \E k \in rch : ps[k].family = fam
           dead == {fam \in {"v4", "v6"} : /\ tried(fam) /\ ~found(fam)
                                           /\ familyHasDNSRecord(fs, fam)}
           blind == \E k \in DOMAIN ps : ps[k].status = "not_tested"
                                         /\ ps[k].reason = "scanner_no_ipv6"
<1>18. variantConvergence(fs)
         = IF I = {} THEN Unavailable(IF gone = {} THEN {} ELSE {LastRow(gone)})
           ELSE IF ps = <<>> THEN Unavailable({i})
           ELSE IF plain # {} \/ rch = {} THEN Scored(Afhankelijk, {i})
           ELSE Result(IF Cardinality(ends) = 1 /\ dead = {} THEN Soeverein ELSE Voldoende,
                       {i}, IF blind THEN "scanner_no_ipv6" ELSE "")
  BY DEF variantConvergence
<1>1. variantConvergence(fs)
        = IF ps = <<>> THEN Unavailable({i})
          ELSE IF plain # {} \/ rch = {} THEN Scored(Afhankelijk, {i})
          ELSE Result(IF Cardinality(ends) = 1 /\ dead = {} THEN Soeverein ELSE Voldoende,
                      {i}, IF blind THEN "scanner_no_ipv6" ELSE "")
  <2> HIDE DEF ps, plain, rch, ends, dead, blind, i
  <2> QED
    BY <1>18
<1>0. ps = walkPaths(x, {})[Len(paths)].results
  OBVIOUS
<1>17. Told(x, ps, obs, rch)
  <2>1. obs = {k \in DOMAIN ps : ps[k].status \notin {"not_tested", "not_followed_budget"}}
        /\ rch = {k \in obs : ps[k].status = "reachable"}
    OBVIOUS
  <2> HIDE DEF ps, obs, rch
  <2> QED
    BY <1>0, <2>1, DoorsTold
<1>2. /\ DOMAIN ps = 1 .. 8
      /\ \A k \in 1 .. 8 : ps[k].family = paths[k].family /\ ps[k].scheme = paths[k].scheme
      /\ obs = {k \in 1 .. 8 : paths[k].family = "v4" \/ x.ipv6}
      /\ \A k \in (1 .. 8) \ obs : ps[k].status = "not_tested" /\ ps[k].reason = "scanner_no_ipv6"
      /\ \A k \in obs : ps[k].status # "not_tested"
      /\ rch = {k \in 1 .. 8 : paths[k] \in Open(x)}
      /\ \A k \in rch : Destination(x, paths[k]) = {ps[k].final}
      /\ Open(x) = {paths[k] : k \in rch}
  <2> HIDE DEF ps, obs, rch
  <2> QED
    BY <1>17 DEF Told
<1>3. paths[1].family = "v4" /\ paths[3].family = "v6" /\ 1 \in 1 .. 8 /\ 3 \in 1 .. 8
  BY DEF paths, Path
<1> HIDE DEF i, ps
<1>4. ps # <<>>
  <2>1. DOMAIN ps # {} /\ \A q : q = <<>> => DOMAIN q = {}
    BY <1>2, <1>3
  <2> QED
    BY <2>1
<1>5. rch \subseteq 1 .. 8 /\ obs \subseteq 1 .. 8
  BY <1>2
<1> HIDE DEF obs
<1>6. blind <=> ~x.ipv6
  BY <1>2, <1>3
<1> HIDE DEF rch
<1> DEFINE fin(k) == ps[k].final
<1>19. /\ \A k \in rch : /\ paths[k] \in Open(x) /\ Destination(x, paths[k]) = {fin(k)}
                          /\ ps[k].family = paths[k].family /\ ps[k].scheme = paths[k].scheme
       /\ \A p \in Open(x) : \E k \in rch : p = paths[k]
  BY <1>2, <1>5
<1> HIDE DEF fin
<1>7. rch = {} <=> Open(x) = {}
  BY <1>2
<1>8. ends = Origins(x)
  <2>1. \A o \in Origins(x) : \E k \in rch : o = fin(k)
    <3> TAKE o \in Origins(x)
    <3>1. PICK p \in Open(x) : o \in Destination(x, p)
      BY DEF Origins
    <3>2. PICK k \in rch : p = paths[k]
      BY <1>19
    <3> QED
      BY <1>19, <3>1, <3>2
  <2>2. \A k \in rch : fin(k) \in Origins(x)
    <3> TAKE k \in rch
    <3>1. paths[k] \in Open(x) /\ fin(k) \in Destination(x, paths[k])
      BY <1>19
    <3> QED
      BY <3>1 DEF Origins
  <2> QED
    BY <2>1, <2>2 DEF fin
<1>9. plain # {} <=> PlainDoor(x)
  <2>1. ASSUME plain # {} PROVE PlainDoor(x)
    <3>1. PICK k \in rch : ps[k].scheme = "http" /\ fin(k).scheme = "http"
      BY <2>1 DEF fin
    <3>2. paths[k] \in Open(x) /\ paths[k].scheme = "http" /\ fin(k) \in Destination(x, paths[k])
      BY <1>19, <3>1
    <3> QED
      BY <3>1, <3>2 DEF PlainDoor
  <2>2. ASSUME PlainDoor(x) PROVE plain # {}
    <3>1. PICK p \in Open(x) : p.scheme = "http" /\ \E o \in Destination(x, p) : o.scheme = "http"
      BY <2>2 DEF PlainDoor
    <3>2. PICK k \in rch : p = paths[k]
      BY <1>19
    <3>3. ps[k].scheme = "http" /\ fin(k).scheme = "http"
      BY <1>19, <3>1, <3>2
    <3>4. k \in plain
      BY <3>3 DEF fin
    <3> QED
      BY <3>4
  <2> QED
    BY <2>1, <2>2
<1>10. \A fam \in {"v4", "v6"} :
         /\ (\E k \in obs : ps[k].family = fam) <=> fam = "v4" \/ x.ipv6
         /\ (\E k \in rch : ps[k].family = fam) <=> \E p \in Open(x) : p.family = fam
  <2> SUFFICES ASSUME NEW fam \in {"v4", "v6"}
               PROVE  /\ (\E k \in obs : ps[k].family = fam) <=> fam = "v4" \/ x.ipv6
                      /\ (\E k \in rch : ps[k].family = fam) <=> \E p \in Open(x) : p.family = fam
    OBVIOUS
  <2>1. (\E k \in obs : ps[k].family = fam) => fam = "v4" \/ x.ipv6
    BY <1>2, <1>5
  <2>2. fam = "v4" \/ x.ipv6 => \E k \in obs : ps[k].family = fam
    BY <1>2, <1>3
  <2>3. (\E k \in rch : ps[k].family = fam) <=> \E p \in Open(x) : p.family = fam
    BY <1>19
  <2> QED
    BY <2>1, <2>2, <2>3
<1>11. dead # {} <=> DeadFamily(x)
  <2>1. dead = {fam \in {"v4", "v6"} : /\ fam = "v4" \/ x.ipv6
                                       /\ ~\E p \in Open(x) : p.family = fam
                                       /\ OfFamily(x, fam, x.domain) # {}}
    BY <1>10
  <2> HIDE DEF dead
  <2> QED
    BY <2>1 DEF DeadFamily
<1> DEFINE B == IF blind THEN "scanner_no_ipv6" ELSE ""
           S == IF Cardinality(Origins(x)) = 1 /\ ~DeadFamily(x) THEN Soeverein ELSE Voldoende
<1>12. variantConvergence(fs)
         = IF PlainDoor(x) \/ Open(x) = {} THEN Scored(Afhankelijk, {i}) ELSE Result(S, {i}, B)
  BY <1>1, <1>4, <1>7, <1>8, <1>9, <1>11
<1>13. B = IF x.ipv6 THEN "" ELSE "scanner_no_ipv6"
  BY <1>6
<1> HIDE DEF B, S
<1>14. S # Afhankelijk
  BY Scores DEF S
<1>15. DoorsDeserve(x) = IF PlainDoor(x) \/ Open(x) = {} THEN Afhankelijk ELSE S
  BY DEF DoorsDeserve, S
<1>16. \A s : RationaleScore(Scored(s, {i})) = s
  BY ShownScore
<1>20. RationaleScore(Result(S, {i}, B)) = IF x.ipv6 THEN S ELSE Onbekend
  BY <1>13 DEF RationaleScore, Result
<1> QED
  BY <1>12, <1>14, <1>15, <1>16, <1>20 DEF ConvergenceTruth

(***************************************************************************)
(* What a scan in which nothing fails cannot miss: the rows that no other  *)
(* one stands in for say exactly what the world holds (ExactRow), and each *)
(* probe that finished left a row for everything it looks for (SeenBy).    *)
(***************************************************************************)
ExactRow(c, f) ==
  LET x == c.world
  IN  /\ f.probe = "http.third_party" => f.subject \in Readable(x).http.third
      /\ f.probe \in {"dns.a", "dns.aaaa"} /\ IsEvidenceLike(f)
           => \E a \in ToSet(Resolve(x, x.domain)) : a.v6 = (f.probe = "dns.aaaa")
      /\ f.probe = "http.variants" => f.attrs.paths = walkPaths(x, {})[Len(paths)].results
      /\ f.probe = "ip.asn" =>
           x.geoip /\ f.subject \in HostsAsked(Readable(x), "no_us_hyperscaler")

SeenBy(x, p, S) ==
  /\ p = "dns" =>
       /\ \E f \in S : f.probe \in {"dns.a", "dns.aaaa"}
       /\ \A a \in ToSet(Resolve(x, x.domain)) :
            \E f \in S : f.probe = (IF a.v6 THEN "dns.aaaa" ELSE "dns.a") /\ IsEvidenceLike(f)
       /\ \A m \in x.mx : \E f \in S : f.probe = "dns.mx" /\ Attr(f, "host") = m.host
       /\ \A h \in x.ns : nsFinding(x, h) \in S
       /\ ~Wildcard(x) => \A h \in {g \in x.subs : Resolve(x, g) # <<>>} :
                            \E f \in S : f.probe = "dns.subdomain" /\ f.subject = h
  /\ p = "tls" =>
       \A h \in x.ct : \E f \in S : f.probe = "dns.subdomain" /\ f.subject = h
  /\ p = "http" =>
       \A h \in Readable(x).http.third :
         \E f \in S : f.probe = "http.third_party" /\ f.subject = h
  /\ p = "variants" => \E f \in S : f.probe = "http.variants"

\* The hosts that the probes of a case lead to.
HostsSeen(c) ==
  LET x == c.world
  IN  {x.domain}
      \cup (IF "dns" \notin c.probes THEN {}
            ELSE {m.host : m \in x.mx} \cup x.ns
                 \cup (IF Wildcard(x) THEN {} ELSE {h \in x.subs : Resolve(x, h) # <<>>}))
      \cup (IF "tls" \notin c.probes THEN {} ELSE x.ct)
      \cup (IF "http" \notin c.probes THEN {} ELSE Readable(x).http.third)

AddressesSeen(c, S) ==
  c.world.geoip =>
    \A h \in HostsSeen(c) \ {""} : \A g \in ToSet(Resolve(c.world, h)) :
      \E f \in S : f.probe = "ip.asn" /\ f.subject = h /\ SaysOf(f, g)

NothingMissed ==
  case.kind = "perimeter" /\ failed = {} =>
    /\ \A f \in ToSet(rows) : ExactRow(case, f)
    /\ \A q \in DOMAIN mem : \A f \in ToSet(mem[q]) : ExactRow(case, f)
    /\ \A p \in (ToSet(Registered) \cap case.probes) \ pending :
         SeenBy(w, p, ToSet(rows)) /\ SeenBy(w, p, ToSet(mem[p]))
    /\ phase # "pass1" => pending = {} /\ AddressesSeen(case, ToSet(rows))

(***************************************************************************)
(* What the rules make of rows that miss nothing.                          *)
(***************************************************************************)
\* The fields of a world do not depend on whether its page may be read.
LEMMA ReadableFields ==
  ASSUME NEW x, IsWorld(x)
  PROVE  LET y == Readable(x)
         IN  /\ y.domain = x.domain /\ y.mx = x.mx /\ y.ns = x.ns /\ y.ct = x.ct
             /\ y.http.third = IF PageSeen(x) THEN x.http.third ELSE {}
             /\ \A h : Resolve(y, h) = Resolve(x, h)
             /\ HostsAsked(y, "no_us_hyperscaler")
                  = {x.domain} \cup {m.host : m \in x.mx} \cup x.ns \cup x.ct
                    \cup y.http.third \cup (IF Wildcard(x) THEN {} ELSE x.subs)
<1> DEFINE y == Readable(x)
<1>1. {"domain", "hosts", "mx", "ns", "ct", "subs", "http"} \subseteq DOMAIN x
      /\ "third" \in DOMAIN x.http
  BY DEF IsWorld
<1>2. y = IF PageSeen(x) THEN x ELSE [x EXCEPT !.http.third = {}]
  BY DEF Readable
<1> HIDE DEF y
<1>3. /\ y.domain = x.domain /\ y.hosts = x.hosts /\ y.mx = x.mx /\ y.ns = x.ns /\ y.ct = x.ct
      /\ y.subs = x.subs /\ y.http.third = IF PageSeen(x) THEN x.http.third ELSE {}
  <2>1. CASE PageSeen(x)
    BY <1>2, <2>1
  <2>2. CASE ~PageSeen(x)
    <3> DEFINE third == [x.http EXCEPT !.third = {}]
    <3>1. y = [x EXCEPT !.http = third]
      BY <1>2, <2>2
    <3>2. third.third = {}
      BY <1>1
    <3> HIDE DEF third
    <3> QED
      BY <1>1, <2>2, <3>1, <3>2
  <2> QED
    BY <2>1, <2>2
<1>4. \A h : Resolve(y, h) = Resolve(x, h)
  BY <1>3 DEF Resolve
<1>5. Wildcard(y) = Wildcard(x)
  BY <1>3, <1>4 DEF Wildcard
<1>6. HostsAsked(y, "no_us_hyperscaler")
        = {x.domain} \cup {m.host : m \in x.mx} \cup x.ns \cup x.ct
          \cup y.http.third \cup (IF Wildcard(x) THEN {} ELSE x.subs)
  BY <1>3, <1>5 DEF HostsAsked
<1> QED
  BY <1>3, <1>4, <1>6 DEF y

\* A tally over rows that say exactly what is true of a set of addresses is
\* the verdict these deserve.
LEMMA TallyTold ==
  ASSUME NEW fs, NEW I, NEW also, NEW G,
         \A i \in I : \E g \in G : SaysOf(fs[i], g),
         \A g \in G : \E i \in I : SaysOf(fs[i], g)
  PROVE  RationaleScore(jurisdictionTally(fs, I, also)) = JurisdictionTruth(G)
<1> DEFINE seen == WithCountry(fs, I)
           N == NoCountry(fs, I)
           known == {g \in G : g.country # ""}
           inside == {g \in known : g.country \in eeaCountries}
           good == InEEA(fs, seen)
<1>1. \A i \in I : \E g \in G : /\ Attr(fs[i], "organisation") = g.org
                               /\ Attr(fs[i], "country") = g.country
  BY DEF SaysOf
<1>2. \A g \in G : \E i \in I : /\ Attr(fs[i], "organisation") = g.org
                               /\ Attr(fs[i], "country") = g.country
  BY DEF SaysOf
<1>3. seen = {} <=> known = {}
  BY <1>1, <1>2 DEF WithCountry
<1>4. CASE seen = {}
  <2>1. jurisdictionTally(fs, I, also)
          = IF \E i \in N : usHyperscalerOrg(Attr(fs[i], "organisation"))
            THEN Scored(Afhankelijk, N) ELSE Scored(Onbekend, N)
    BY <1>4, Zenon DEF jurisdictionTally, noCountryResult
  <2>2. \A g \in G : g.country = ""
    BY <1>3, <1>4
  <2>3. ~usHyperscalerOrg("")
    BY DEF usHyperscalerOrg, knownUSHyperscalerOrgs
  <2>4. (\E i \in N : usHyperscalerOrg(Attr(fs[i], "organisation"))) <=> \E g \in G : OutsideEEA(g)
    <3>1. \A g \in G : OutsideEEA(g) <=> usHyperscalerOrg(g.org)
      BY <2>2 DEF OutsideEEA
    <3>2. \A i \in N : i \in I
      BY DEF NoCountry
    <3>3. ASSUME NEW g \in G, usHyperscalerOrg(g.org)
          PROVE  \E i \in N : usHyperscalerOrg(Attr(fs[i], "organisation"))
      <4>1. PICK i \in I : Attr(fs[i], "organisation") = g.org /\ Attr(fs[i], "country") = g.country
        BY <1>2
      <4>2. g.org # "" /\ g.country = ""
        BY <2>2, <2>3, <3>3
      <4>3. i \in N
        BY <4>1, <4>2 DEF NoCountry
      <4> QED
        BY <3>3, <4>1, <4>3
    <3>4. ASSUME NEW i \in N, usHyperscalerOrg(Attr(fs[i], "organisation"))
          PROVE  \E g \in G : usHyperscalerOrg(g.org)
      BY <1>1, <3>2, <3>4
    <3> QED
      BY <3>1, <3>3, <3>4
  <2>5. JurisdictionTruth(G) = IF \E g \in G : OutsideEEA(g) THEN Afhankelijk ELSE Onbekend
    BY <1>3, <1>4 DEF JurisdictionTruth
  <2>6. (\E i \in N : usHyperscalerOrg(Attr(fs[i], "organisation"))) => N # {}
    OBVIOUS
  <2> HIDE DEF N
  <2> QED
    BY <2>1, <2>4, <2>5, <2>6, ShownScore
<1>5. CASE seen # {}
  <2>1. jurisdictionTally(fs, I, also) = Scored(Share(good, seen), seen \cup also)
    BY <1>5 DEF jurisdictionTally
  <2>2. \A i \in seen : i \in I /\ Attr(fs[i], "country") # ""
    BY DEF WithCountry
  <2>3. good = {i \in seen : Attr(fs[i], "country") \in eeaCountries}
    BY DEF InEEA
  <2>4. good = seen <=> inside = known
    <3>1. good = seen <=> \A i \in seen : Attr(fs[i], "country") \in eeaCountries
      BY <2>3
    <3>2. inside = known <=> \A g \in known : g.country \in eeaCountries
      OBVIOUS
    <3>3. ASSUME \A i \in seen : Attr(fs[i], "country") \in eeaCountries, NEW g \in known
          PROVE  g.country \in eeaCountries
      <4>1. PICK i \in I : Attr(fs[i], "country") = g.country
        BY <1>2
      <4>2. i \in seen
        BY <4>1 DEF WithCountry
      <4> QED
        BY <3>3, <4>1, <4>2
    <3>4. ASSUME \A g \in known : g.country \in eeaCountries, NEW i \in seen
          PROVE  Attr(fs[i], "country") \in eeaCountries
      BY <1>1, <2>2, <3>4
    <3> QED
      BY <3>1, <3>2, <3>3, <3>4
  <2>5. good = {} <=> inside = {}
    <3>1. ASSUME NEW i \in good PROVE inside # {}
      <4>1. i \in I /\ Attr(fs[i], "country") # "" /\ Attr(fs[i], "country") \in eeaCountries
        BY <2>2, <2>3
      <4>2. PICK g \in G : Attr(fs[i], "country") = g.country
        BY <1>1, <4>1
      <4> QED
        BY <4>1, <4>2
    <3>2. ASSUME NEW g \in inside PROVE good # {}
      <4>1. PICK i \in I : Attr(fs[i], "country") = g.country
        BY <1>2
      <4>2. i \in seen
        BY <4>1 DEF WithCountry
      <4> QED
        BY <2>3, <4>1, <4>2
    <3> QED
      BY <3>1, <3>2
  <2>6. JurisdictionTruth(G) = IF inside = known THEN Soeverein
                               ELSE IF inside = {} THEN Afhankelijk ELSE Voldoende
    BY <1>3, <1>5 DEF JurisdictionTruth
  <2>7. Share(good, seen) = JurisdictionTruth(G)
    <3> HIDE DEF good, seen, inside, known
    <3> QED
      BY <2>4, <2>5, <2>6 DEF Share
  <2>8. seen \cup also # {}
    BY <1>5
  <2> QED
    BY <2>1, <2>7, <2>8, ShownScore
<1> QED
  BY <1>4, <1>5

\* Naming operators does not change the score that a tally shows.
LEMMA LedShown ==
  ASSUME NEW fs, NEW I, NEW also, NEW names
  PROVE  RationaleScore(LedBy(fs, I, jurisdictionTally(fs, I, also), names))
           = RationaleScore(jurisdictionTally(fs, I, also))
<1> DEFINE res == jurisdictionTally(fs, I, also)
<1>1. \E s, e : res = Scored(s, e)
  BY DEF jurisdictionTally, noCountryResult
<1> HIDE DEF res
<1>2. RationaleScore(LedBy(fs, I, res, names)) = RationaleScore(res)
  BY <1>1 DEF LedBy, Scored, Result, RationaleScore
<1> QED
  BY <1>2 DEF res

(***************************************************************************)
(* What the rules make of rows that miss nothing.                          *)
(***************************************************************************)
\* Rows that miss nothing: each is exact, every registered probe has left its
\* rows, and every host that they lead to has been located.
Complete(c, S) ==
  /\ \A f \in S : ExactRow(c, f)
  /\ \A p \in ToSet(Registered) \cap c.probes : SeenBy(c.world, p, S)
  /\ AddressesSeen(c, S)

\* What an assessment reads of them.
FullReadings(c, fs) == IsWorld(c.world) /\ Readings(c, fs) /\ Complete(c, ToSet(fs))

\* The probes by name.
LEMMA RegisteredNames ==
  ToSet(Registered) = {"dns", "tls", "http", "whois", "soa", "variants", "transit"}
<1>1. /\ DOMAIN Registered = 1 .. 7 /\ Registered[1] = "dns" /\ Registered[2] = "tls"
      /\ Registered[3] = "http" /\ Registered[4] = "whois" /\ Registered[5] = "soa"
      /\ Registered[6] = "variants" /\ Registered[7] = "transit"
  BY DEF Registered
<1>2. \A k \in 1 .. 7 : \/ k = 1 \/ k = 2 \/ k = 3 \/ k = 4 \/ k = 5 \/ k = 6 \/ k = 7
  OBVIOUS
<1> QED
  BY <1>1, <1>2 DEF ToSet

\* A row of a set of rows has a position in the list.
LEMMA RowAt ==
  ASSUME NEW fs, IsList(fs), NEW f \in ToSet(fs), NEW p, f.probe = p
  PROVE  \E i \in Rows(fs, p) : fs[i] = f
<1>1. PICK i \in DOMAIN fs : fs[i] = f
  BY ListDomain
<1> QED
  BY <1>1 DEF Rows

\* The ip.asn rows of hosts that were looked at say exactly where they are.
LEMMA HostsLocated ==
  ASSUME NEW c, NEW fs, FullReadings(c, fs), NEW hosts, hosts \ {""} \subseteq HostsSeen(c)
  PROVE  LET x == c.world
             G == IF x.geoip THEN UNION {ToSet(Resolve(x, h)) : h \in hosts} ELSE {}
             I == AsnRows(fs, hosts \ {""})
         IN  /\ \A i \in I : \E g \in G : SaysOf(fs[i], g)
             /\ \A g \in G : \E i \in I : SaysOf(fs[i], g)
<1> DEFINE x == c.world
           G == IF x.geoip THEN UNION {ToSet(Resolve(x, h)) : h \in hosts} ELSE {}
           I == AsnRows(fs, hosts \ {""})
<1>1. /\ IsWorld(x) /\ Readings(c, fs) /\ AddressesSeen(c, ToSet(fs))
      /\ \A f \in ToSet(fs) : ExactRow(c, f)
  BY DEF FullReadings, Complete
<1>2. \A g \in ToSet(Resolve(x, "")) : FALSE
  BY <1>1, NoList DEF IsWorld, Resolve
<1>3. ASSUME NEW i \in I PROVE \E g \in G : SaysOf(fs[i], g)
  <2>1. i \in Rows(fs, "ip.asn") /\ fs[i].subject \in hosts
    BY DEF AsnRows
  <2>2. fs[i] \in ToSet(fs) /\ RowTrue(c, fs[i]) /\ fs[i].probe = "ip.asn"
    BY <1>1, <2>1, ReadRow
  <2>3. x.geoip
    BY <1>1, <2>2 DEF ExactRow
  <2>4. PICK g \in ToSet(Resolve(x, fs[i].subject)) : SaysOf(fs[i], g)
    BY <2>2 DEF RowTrue, NameTrue
  <2>5. g \in G
    BY <2>1, <2>3
  <2> QED
    BY <2>4, <2>5
<1>4. ASSUME NEW g \in G PROVE \E i \in I : SaysOf(fs[i], g)
  <2>1. x.geoip
    BY <1>4
  <2>2. PICK h \in hosts : g \in ToSet(Resolve(x, h))
    BY <1>4, <2>1
  <2>3. h # "" /\ h \in HostsSeen(c) \ {""}
    BY <1>2, <2>2
  <2>4. PICK f \in ToSet(fs) : f.probe = "ip.asn" /\ f.subject = h /\ SaysOf(f, g)
    BY <1>1, <2>1, <2>2, <2>3 DEF AddressesSeen
  <2>5. PICK i \in Rows(fs, "ip.asn") : fs[i] = f
    <3>1. IsList(fs)
      BY <1>1 DEF Readings
    <3> QED
      BY <2>4, <3>1, RowAt
  <2>6. i \in I
    BY <2>3, <2>4, <2>5 DEF AsnRows
  <2> QED
    BY <2>4, <2>5, <2>6
<1> QED
  BY <1>3, <1>4

\* The rule a jurisdiction question is answered by, as a tally of the ip.asn
\* rows of the hosts it asks about.
LEMMA TallyIsTruth ==
  ASSUME NEW c, NEW fs, FullReadings(c, fs), NEW id \in JurisdictionRules,
         HostsAsked(Readable(c.world), id) \ {""} \subseteq HostsSeen(c), NEW also
  PROVE  LET hosts == HostsAsked(Readable(c.world), id)
             J   == AsnRows(fs, hosts \ {""})
         IN  RationaleScore(jurisdictionTally(fs, J, also)) = Truth(c.world, id)
<1> DEFINE x == c.world
           hosts == HostsAsked(Readable(x), id)
           G == IF x.geoip THEN UNION {ToSet(Resolve(x, h)) : h \in hosts} ELSE {}
           J == AsnRows(fs, hosts \ {""})
<1>1. /\ \A i \in J : \E g \in G : SaysOf(fs[i], g)
      /\ \A g \in G : \E i \in J : SaysOf(fs[i], g)
  BY HostsLocated
<1>2. \A h : Resolve(Readable(x), h) = Resolve(x, h)
  BY ReadableFields DEF FullReadings
<1>3. Geos(Readable(x), id) = UNION {ToSet(Resolve(x, h)) : h \in hosts}
  <2>1. Geos(Readable(x), id) = UNION {ToSet(Resolve(Readable(x), h)) : h \in hosts}
    BY DEF Geos
  <2> HIDE DEF x
  <2> QED
    BY <1>2, <2>1
<1>4. id # "variant_convergence"
  BY DEF JurisdictionRules
<1>5. Truth(x, id) = IF G = {} THEN Onbekend ELSE JurisdictionTruth(G)
  BY <1>3, <1>4 DEF Truth
<1>6. JurisdictionTruth({}) = Onbekend
  BY DEF JurisdictionTruth
<1> HIDE DEF G, x, J, hosts
<1>7. RationaleScore(jurisdictionTally(fs, J, also)) = JurisdictionTruth(G)
  BY <1>1, TallyTold
<1>8. RationaleScore(jurisdictionTally(fs, J, also)) = Truth(x, id)
  BY <1>5, <1>6, <1>7
<1> QED
  BY <1>8 DEF x, J, hosts

\* A question about no host but the nameless one has no answer.
LEMMA NoHostsNoTruth ==
  ASSUME NEW x, IsWorld(x), NEW id \in JurisdictionRules, HostsAsked(Readable(x), id) \subseteq {""}
  PROVE  Truth(x, id) = Onbekend /\ RationaleScore(NoEvidence) = Onbekend
<1>1. \A h : Resolve(Readable(x), h) = Resolve(x, h)
  BY ReadableFields
<1>2. ToSet(Resolve(x, "")) = {}
  BY NoList DEF IsWorld, Resolve
<1>3. Geos(Readable(x), id) = {}
  BY <1>1, <1>2 DEF Geos
<1>4. id # "variant_convergence"
  BY DEF JurisdictionRules
<1>5. Truth(x, id) = Onbekend
  BY <1>3, <1>4 DEF Truth
<1> QED
  BY <1>5, ShownScore DEF NoEvidence

\* The named hosts that a question is about, all of which the probes lead to.
Asks(c, id, H) ==
  H = HostsAsked(Readable(c.world), id) \ {""} /\ H \subseteq HostsSeen(c)

\* The tally a jurisdiction rule makes of the hosts that it asks about, with
\* or without the operators that lead it, shows the truth.
LEMMA LedIsTruth ==
  ASSUME NEW c, NEW fs, FullReadings(c, fs), NEW id \in JurisdictionRules, NEW H, Asks(c, id, H),
         NEW also, NEW names
  PROVE  LET I   == AsnRows(fs, H)
             res == jurisdictionTally(fs, I, also)
         IN  /\ RationaleScore(res) = Truth(c.world, id)
             /\ RationaleScore(LedBy(fs, I, res, names)) = Truth(c.world, id)
<1>1. RationaleScore(jurisdictionTally(fs, AsnRows(fs, H), also)) = Truth(c.world, id)
  BY TallyIsTruth DEF Asks
<1> QED
  BY <1>1, LedShown

\* The hosts that each question is about, of a page that may be read.
LEMMA AskedHosts ==
  ASSUME NEW x, IsWorld(x)
  PROVE  LET y == Readable(x)
         IN  /\ HostsAsked(y, "apex_ip_eea") = {x.domain}
             /\ HostsAsked(y, "mx_vendor_jurisdiction") = {m.host : m \in x.mx}
             /\ HostsAsked(y, "ns_vendor_jurisdiction") = x.ns
             /\ HostsAsked(y, "third_parties_eea") = y.http.third
<1> DEFINE y == Readable(x)
<1>1. y.domain = x.domain /\ y.mx = x.mx /\ y.ns = x.ns
  BY ReadableFields
<1> HIDE DEF y
<1>2. /\ HostsAsked(y, "apex_ip_eea") = {y.domain}
      /\ HostsAsked(y, "mx_vendor_jurisdiction") = {m.host : m \in y.mx}
      /\ HostsAsked(y, "ns_vendor_jurisdiction") = y.ns
      /\ HostsAsked(y, "third_parties_eea") = y.http.third
  BY DEF HostsAsked
<1> QED
  BY <1>1, <1>2 DEF y

\* What full readings hold.
LEMMA FullyRead ==
  ASSUME NEW c, NEW fs, FullReadings(c, fs)
  PROVE  /\ IsWorld(c.world) /\ Readings(c, fs) /\ IsList(fs)
         /\ \A f \in ToSet(fs) : ExactRow(c, f)
         /\ \A p \in ToSet(Registered) \cap c.probes : SeenBy(c.world, p, ToSet(fs))
         /\ AddressesSeen(c, ToSet(fs))
BY DEF FullReadings, Complete, Readings

\* Where the apex is hosted.
LEMMA ApexExact ==
  ASSUME NEW c, NEW fs, FullReadings(c, fs), "dns" \in c.probes
  PROVE  RationaleScore(apexIPInEEA(fs)) = Truth(c.world, "apex_ip_eea")
<1> DEFINE x == c.world
           A == Rows(fs, "dns.a") \cup Rows(fs, "dns.aaaa")
<1>1. IsWorld(x) /\ Readings(c, fs) /\ IsList(fs) /\ SeenBy(x, "dns", ToSet(fs))
  BY FullyRead, RegisteredNames
<1>2. A # {}
  <2>1. PICK f \in ToSet(fs) : f.probe \in {"dns.a", "dns.aaaa"}
    BY <1>1 DEF SeenBy
  <2> QED
    BY <1>1, <2>1, RowAt
<1>3. Apex(fs) = fs[FirstRow(A)].subject
  BY <1>2 DEF Apex
<1>4. A \in SUBSET DOMAIN fs
  BY DEF Rows
<1>5. FirstRow(A) \in A
  <2> HIDE DEF A
  <2> QED
    BY <1>1, <1>2, <1>4, PickedRow
<1>6. RowTrue(c, fs[FirstRow(A)]) /\ fs[FirstRow(A)].probe \in {"dns.a", "dns.aaaa"}
  BY <1>1, <1>5, ReadRow
<1>7. Apex(fs) = x.domain
  BY <1>3, <1>6 DEF RowTrue, NameTrue
<1>8. x.domain # ""
  BY <1>1 DEF IsWorld
<1> DEFINE H == {x.domain}
           names == observedOperators(fs, "ip.hosting")
<1>9. apexIPInEEA(fs) = LedBy(fs, AsnRows(fs, H), jurisdictionTally(fs, AsnRows(fs, H), {}), names)
  BY <1>7, <1>8 DEF apexIPInEEA
<1>10. Asks(c, "apex_ip_eea", H)
  <2>1. HostsAsked(Readable(x), "apex_ip_eea") = {x.domain}
    BY <1>1, AskedHosts
  <2>2. x.domain \in HostsSeen(c)
    BY DEF HostsSeen
  <2> QED
    BY <1>8, <2>1, <2>2 DEF Asks
<1>11. "apex_ip_eea" \in JurisdictionRules
  BY DEF JurisdictionRules
<1> HIDE DEF H, names
<1> QED
  BY <1>9, <1>10, <1>11, LedIsTruth

\* A rule over the hosts that the rows of one probe name.
LEMMA VendorExact ==
  ASSUME NEW c, NEW fs, FullReadings(c, fs), NEW id \in JurisdictionRules, NEW p, NEW synthesis,
         Asks(c, id, HostsOf(fs, HostRows(fs, p)))
  PROVE  RationaleScore(HostVendorJurisdiction(fs, p, synthesis)) = Truth(c.world, id)
<1> DEFINE H == HostRows(fs, p)
           hosts == HostsOf(fs, H)
           names == observedOperators(fs, synthesis)
<1>1. CASE H = {}
  <2>1. hosts = {}
    BY <1>1 DEF HostsOf
  <2>2. HostsAsked(Readable(c.world), id) \subseteq {""}
    BY <2>1 DEF Asks
  <2>3. HostVendorJurisdiction(fs, p, synthesis) = NoEvidence
    BY <1>1 DEF HostVendorJurisdiction
  <2> QED
    BY <2>2, <2>3, FullyRead, NoHostsNoTruth
<1>2. CASE H # {}
  <2>1. HostVendorJurisdiction(fs, p, synthesis)
          = LedBy(fs, AsnRows(fs, hosts),
                  jurisdictionTally(fs, AsnRows(fs, hosts), LastPerHost(fs, H)), names)
    BY <1>2 DEF HostVendorJurisdiction
  <2> HIDE DEF hosts, names
  <2>2. Asks(c, id, hosts)
    BY DEF hosts
  <2> QED
    BY <2>1, <2>2, LedIsTruth
<1> QED
  BY <1>1, <1>2

\* Where the mail is handled.
LEMMA MailExact ==
  ASSUME NEW c, NEW fs, FullReadings(c, fs), "dns" \in c.probes
  PROVE  RationaleScore(mxVendorJurisdiction(fs)) = Truth(c.world, "mx_vendor_jurisdiction")
<1> DEFINE x == c.world
           M == {m.host : m \in x.mx}
           hosts == HostsOf(fs, HostRows(fs, "dns.mx"))
<1>1. IsWorld(x) /\ Readings(c, fs) /\ IsList(fs) /\ SeenBy(x, "dns", ToSet(fs))
  BY FullyRead, RegisteredNames
<1>2. ASSUME NEW h \in hosts PROVE h \in M \ {""}
  <2>1. PICK i \in HostRows(fs, "dns.mx") : h = Attr(fs[i], "host")
    BY DEF HostsOf
  <2>2. i \in Rows(fs, "dns.mx") /\ h # ""
    BY <2>1 DEF HostRows
  <2>3. fs[i].probe = "dns.mx" /\ RowTrue(c, fs[i])
    BY <1>1, <2>2, ReadRow
  <2> QED
    BY <2>1, <2>2, <2>3 DEF RowTrue, NameTrue
<1>3. ASSUME NEW h \in M \ {""} PROVE h \in hosts
  <2>1. PICK m \in x.mx : m.host = h
    OBVIOUS
  <2>a. \A n \in x.mx : \E f \in ToSet(fs) : f.probe = "dns.mx" /\ Attr(f, "host") = n.host
    BY <1>1 DEF SeenBy
  <2>2. PICK f \in ToSet(fs) : f.probe = "dns.mx" /\ Attr(f, "host") = h
    BY <2>1, <2>a
  <2>3. PICK i \in Rows(fs, "dns.mx") : fs[i] = f
    BY <1>1, <2>2, RowAt
  <2>4. i \in HostRows(fs, "dns.mx")
    BY <2>2, <2>3 DEF HostRows
  <2> QED
    BY <2>2, <2>3, <2>4 DEF HostsOf
<1>4. hosts = M \ {""}
  BY <1>2, <1>3
<1>5. HostsAsked(Readable(x), "mx_vendor_jurisdiction") = M
  BY <1>1, AskedHosts
<1>6. M \subseteq HostsSeen(c)
  BY DEF HostsSeen
<1>7. "mx_vendor_jurisdiction" \in JurisdictionRules
  BY DEF JurisdictionRules
<1>8. mxVendorJurisdiction(fs) = HostVendorJurisdiction(fs, "dns.mx", "dns.mx_routing")
  BY DEF mxVendorJurisdiction
<1>9. Asks(c, "mx_vendor_jurisdiction", hosts)
  BY <1>4, <1>5, <1>6 DEF Asks
<1> QED
  BY <1>7, <1>8, <1>9, VendorExact

\* Where the zone is served.
LEMMA NameServerExact ==
  ASSUME NEW c, NEW fs, FullReadings(c, fs), "dns" \in c.probes
  PROVE  RationaleScore(nsVendorJurisdiction(fs)) = Truth(c.world, "ns_vendor_jurisdiction")
<1> DEFINE x == c.world
           hosts == HostsOf(fs, HostRows(fs, "dns.ns"))
<1>1. IsWorld(x) /\ Readings(c, fs) /\ IsList(fs) /\ SeenBy(x, "dns", ToSet(fs))
  BY FullyRead, RegisteredNames
<1>2. ASSUME NEW h \in hosts PROVE h \in x.ns
  <2>1. PICK i \in HostRows(fs, "dns.ns") : h = Attr(fs[i], "host")
    BY DEF HostsOf
  <2>2. i \in Rows(fs, "dns.ns") /\ h # ""
    BY <2>1 DEF HostRows
  <2> QED
    BY <1>1, <2>1, <2>2, ReadNameServer
<1>3. ASSUME NEW h \in x.ns PROVE h \in hosts
  <2>1. nsFinding(x, h) \in ToSet(fs)
    BY <1>1 DEF SeenBy
  <2>2. nsFinding(x, h).probe = "dns.ns" /\ Attr(nsFinding(x, h), "host") = h
    BY NsHost
  <2>3. PICK i \in Rows(fs, "dns.ns") : fs[i] = nsFinding(x, h)
    BY <1>1, <2>1, <2>2, RowAt
  <2>4. h # ""
    BY <1>1 DEF IsWorld
  <2>5. i \in HostRows(fs, "dns.ns")
    BY <2>2, <2>3, <2>4 DEF HostRows
  <2> QED
    BY <2>2, <2>3, <2>5 DEF HostsOf
<1>4. hosts = x.ns /\ "" \notin x.ns
  BY <1>1, <1>2, <1>3 DEF IsWorld
<1>5. HostsAsked(Readable(x), "ns_vendor_jurisdiction") = x.ns
  BY <1>1, AskedHosts
<1>6. x.ns \subseteq HostsSeen(c)
  BY DEF HostsSeen
<1>7. "ns_vendor_jurisdiction" \in JurisdictionRules
  BY DEF JurisdictionRules
<1>8. nsVendorJurisdiction(fs) = HostVendorJurisdiction(fs, "dns.ns", "dns.ns_hosting")
  BY DEF nsVendorJurisdiction
<1>9. Asks(c, "ns_vendor_jurisdiction", hosts)
  BY <1>4, <1>5, <1>6 DEF Asks
<1> QED
  BY <1>7, <1>8, <1>9, VendorExact

\* No host without a name is located.
LEMMA NamelessNowhere ==
  ASSUME NEW c, NEW fs, FullReadings(c, fs), NEW H
  PROVE  AsnRows(fs, H \ {""}) = AsnRows(fs, H)
<1>1. ASSUME NEW i \in Rows(fs, "ip.asn") PROVE fs[i].subject # ""
  <2>1. Readings(c, fs) /\ IsWorld(c.world)
    BY FullyRead
  <2>2. fs[i].probe = "ip.asn" /\ RowTrue(c, fs[i])
    BY <2>1, ReadRow
  <2>3. \E g \in ToSet(Resolve(c.world, fs[i].subject)) : SaysOf(fs[i], g)
    BY <2>2 DEF RowTrue, NameTrue
  <2>4. \A g \in ToSet(Resolve(c.world, "")) : FALSE
    BY <2>1, NoList DEF IsWorld, Resolve
  <2> QED
    BY <2>3, <2>4
<1> QED
  BY <1>1 DEF AsnRows

\* Where the third parties of the page are.
LEMMA ThirdPartiesExact ==
  ASSUME NEW c, NEW fs, FullReadings(c, fs), "http" \in c.probes
  PROVE  RationaleScore(thirdPartiesEEA(fs)) = Truth(c.world, "third_parties_eea")
<1> DEFINE x == c.world
           id == "third_parties_eea"
           T == Rows(fs, "http.third_party")
           hosts == {fs[i].subject : i \in T}
           last == {i \in T : \A j \in T : fs[j].subject = fs[i].subject => j <= i}
           I == AsnRows(fs, hosts)
           res == jurisdictionTally(fs, I, last)
           names == observedNonEEAVendors(fs)
           V == Truth(x, id)
<1>1. /\ IsWorld(x) /\ Readings(c, fs) /\ IsList(fs) /\ SeenBy(x, "http", ToSet(fs))
      /\ \A f \in ToSet(fs) : ExactRow(c, f)
  BY FullyRead, RegisteredNames
<1>2. ASSUME NEW i \in T PROVE fs[i].subject \in Readable(x).http.third
  <2>1. fs[i].probe = "http.third_party" /\ fs[i] \in ToSet(fs)
    BY <1>1, ReadRow
  <2> QED
    BY <1>1, <2>1 DEF ExactRow
<1>3. ASSUME NEW h \in Readable(x).http.third PROVE \E i \in T : fs[i].subject = h
  <2>1. PICK f \in ToSet(fs) : f.probe = "http.third_party" /\ f.subject = h
    BY <1>1 DEF SeenBy
  <2> QED
    BY <1>1, <2>1, RowAt
<1>4. hosts = Readable(x).http.third
  BY <1>2, <1>3
<1>5. HostsAsked(Readable(x), id) = Readable(x).http.third
  BY <1>1, AskedHosts
<1>6. id \in JurisdictionRules
  BY DEF JurisdictionRules
<1>7. CASE T = {}
  <2>1. HostsAsked(Readable(x), id) \subseteq {""}
    BY <1>4, <1>5, <1>7
  <2>2. thirdPartiesEEA(fs) = NoEvidence
    BY <1>7 DEF thirdPartiesEEA
  <2>3. RationaleScore(NoEvidence) = Onbekend /\ V = Onbekend
    BY <1>1, <1>6, <2>1, NoHostsNoTruth
  <2> QED
    BY <2>2, <2>3
<1>8. CASE T # {}
  <2>1. thirdPartiesEEA(fs) = res \/ thirdPartiesEEA(fs) = LedBy(fs, I, res, names)
    BY <1>8 DEF thirdPartiesEEA
  <2> DEFINE H == hosts \ {""}
  <2>2. Asks(c, id, H)
    <3>1. Readable(x).http.third \subseteq HostsSeen(c)
      BY DEF HostsSeen
    <3> QED
      BY <1>4, <1>5, <3>1 DEF Asks
  <2> HIDE DEF V, id, hosts, last, names
  <2>3. /\ RationaleScore(jurisdictionTally(fs, AsnRows(fs, H), last)) = V
        /\ RationaleScore(LedBy(fs, AsnRows(fs, H), jurisdictionTally(fs, AsnRows(fs, H), last), names)) = V
    <3> HIDE DEF H
    <3> QED
      BY <1>6, <2>2, LedIsTruth DEF V
  <2>4. AsnRows(fs, H) = I
    BY NamelessNowhere
  <2> HIDE DEF H, I
  <2>5. RationaleScore(res) = V /\ RationaleScore(LedBy(fs, I, res, names)) = V
    BY <2>3, <2>4
  <2> HIDE DEF res
  <2>6. RationaleScore(thirdPartiesEEA(fs)) = V
    BY <2>1, <2>5
  <2> QED
    BY <2>6 DEF V, id
<1> QED
  BY <1>7, <1>8

\* The ip.asn rows say exactly where all the hosts are that the question on
\* American operators is about.
LEMMA AllLocated ==
  ASSUME NEW c, NEW fs, FullReadings(c, fs), Answerable(c, "no_us_hyperscaler")
  PROVE  LET x == c.world
             G == IF x.geoip THEN Geos(Readable(x), "no_us_hyperscaler") ELSE {}
             I == Rows(fs, "ip.asn")
         IN  /\ \A i \in I : \E g \in G : SaysOf(fs[i], g)
             /\ \A g \in G : \E i \in I : SaysOf(fs[i], g)
<1> DEFINE x == c.world
           A == HostsAsked(Readable(x), "no_us_hyperscaler")
           G == IF x.geoip THEN Geos(Readable(x), "no_us_hyperscaler") ELSE {}
           I == Rows(fs, "ip.asn")
<1>1. /\ IsWorld(x) /\ Readings(c, fs) /\ IsList(fs) /\ AddressesSeen(c, ToSet(fs))
      /\ \A f \in ToSet(fs) : ExactRow(c, f)
  BY FullyRead
<1>2. \A h : Resolve(Readable(x), h) = Resolve(x, h)
  BY <1>1, ReadableFields
<1>3. x.geoip => \A g : g \in G <=> \E h \in A : g \in ToSet(Resolve(x, h))
  BY <1>2 DEF Geos
<1>4. /\ A = {x.domain} \cup {m.host : m \in x.mx} \cup x.ns \cup x.ct
                \cup Readable(x).http.third \cup (IF Wildcard(x) THEN {} ELSE x.subs)
      /\ Readable(x).http.third \subseteq x.http.third
  BY <1>1, ReadableFields
<1>5. /\ "dns" \in c.probes
      /\ x.ct # {} => "tls" \in c.probes
      /\ x.http.third # {} => "http" \in c.probes
  BY DEF Answerable
<1>6. ASSUME NEW h \in A, Resolve(x, h) # <<>> PROVE h \in HostsSeen(c)
  <2>1. HostsSeen(c) = {x.domain} \cup {m.host : m \in x.mx} \cup x.ns
          \cup (IF Wildcard(x) THEN {} ELSE {k \in x.subs : Resolve(x, k) # <<>>})
          \cup (IF "tls" \notin c.probes THEN {} ELSE x.ct)
          \cup (IF "http" \notin c.probes THEN {} ELSE Readable(x).http.third)
    BY <1>5 DEF HostsSeen
  <2> QED
    BY <1>4, <1>5, <1>6, <2>1
<1>7. ASSUME NEW i \in I PROVE \E g \in G : SaysOf(fs[i], g)
  <2>1. fs[i] \in ToSet(fs) /\ RowTrue(c, fs[i]) /\ fs[i].probe = "ip.asn"
    BY <1>1, ReadRow
  <2>2. x.geoip /\ fs[i].subject \in A
    BY <1>1, <2>1 DEF ExactRow
  <2>3. PICK g \in ToSet(Resolve(x, fs[i].subject)) : SaysOf(fs[i], g)
    BY <2>1 DEF RowTrue, NameTrue
  <2> HIDE DEF A, G
  <2>4. g \in G
    BY <1>3, <2>2, <2>3
  <2> QED
    BY <2>3, <2>4
<1>8. ASSUME NEW g \in G PROVE \E i \in I : SaysOf(fs[i], g)
  <2>1. x.geoip
    BY <1>8
  <2>2. PICK h \in A : g \in ToSet(Resolve(x, h))
    BY <1>3, <1>8, <2>1
  <2>3. \A k \in ToSet(<<>>) : FALSE
    BY NoList
  <2>4. Resolve(x, h) # <<>>
    BY <2>2, <2>3
  <2>5. h # ""
    BY <1>1, <2>4 DEF IsWorld, Resolve
  <2>6. h \in HostsSeen(c) \ {""}
    BY <1>6, <2>4, <2>5
  <2>7. PICK f \in ToSet(fs) : f.probe = "ip.asn" /\ SaysOf(f, g)
    BY <1>1, <2>1, <2>2, <2>6 DEF AddressesSeen
  <2>8. PICK i \in I : fs[i] = f
    BY <1>1, <2>7, RowAt
  <2> QED
    BY <2>7, <2>8
<1> QED
  BY <1>7, <1>8

\* Whether an American operator runs one of the hosts.
LEMMA HyperscalerExact ==
  ASSUME NEW c, NEW fs, FullReadings(c, fs), Answerable(c, "no_us_hyperscaler")
  PROVE  RationaleScore(noUSHyperscaler(fs)) = Truth(c.world, "no_us_hyperscaler")
<1> DEFINE x == c.world
           G == IF x.geoip THEN Geos(Readable(x), "no_us_hyperscaler") ELSE {}
           I == Rows(fs, "ip.asn")
           matched == {i \in I : usHyperscalerOrg(Attr(fs[i], "organisation"))}
<1>1. /\ \A i \in I : \E g \in G : Attr(fs[i], "organisation") = g.org
      /\ \A g \in G : \E i \in I : Attr(fs[i], "organisation") = g.org
  BY AllLocated DEF SaysOf
<1>2. Truth(x, "no_us_hyperscaler")
        = IF G = {} THEN Onbekend
          ELSE IF \E g \in G : usHyperscalerOrg(g.org) THEN Afhankelijk ELSE Voldoende
  BY DEF Truth, JurisdictionRules
<1> HIDE DEF G
<1>3. (I = {} <=> G = {}) /\ (matched # {} <=> \E g \in G : usHyperscalerOrg(g.org))
  BY <1>1
<1>4. CASE I = {}
  <2>1. noUSHyperscaler(fs) = NoEvidence
    BY <1>4 DEF noUSHyperscaler
  <2> QED
    BY <1>2, <1>3, <1>4, <2>1, ShownScore DEF NoEvidence
<1>5. CASE I # {} /\ matched = {}
  <2>1. noUSHyperscaler(fs) = Scored(Voldoende, {FirstRow(I)})
    BY <1>5 DEF noUSHyperscaler
  <2>2. RationaleScore(Scored(Voldoende, {FirstRow(I)})) = Voldoende
    BY ShownScore
  <2> QED
    BY <1>2, <1>3, <1>5, <2>1, <2>2
<1>6. CASE I # {} /\ matched # {}
  <2>1. \E lead : noUSHyperscaler(fs) = [Scored(Afhankelijk, matched) EXCEPT !.lead = lead]
    BY <1>6 DEF noUSHyperscaler
  <2> HIDE DEF matched
  <2>2. \A lead : RationaleScore([Scored(Afhankelijk, matched) EXCEPT !.lead = lead]) = Afhankelijk
    BY <1>6 DEF RationaleScore, Scored, Result
  <2>3. RationaleScore(noUSHyperscaler(fs)) = Afhankelijk
    BY <2>1, <2>2
  <2> QED
    BY <1>2, <1>3, <1>6, <2>3
<1> QED
  BY <1>4, <1>5, <1>6

\* The rows of the dns probe tell which families the apex is published in.
LEMMA FamiliesExact ==
  ASSUME NEW c, NEW fs, FullReadings(c, fs), "dns" \in c.probes, NEW fam \in {"v4", "v6"}
  PROVE  familyHasDNSRecord(fs, fam) <=> OfFamily(c.world, fam, c.world.domain) # {}
<1> DEFINE x == c.world
           addrs == ToSet(Resolve(x, x.domain))
           p == IF fam = "v4" THEN "dns.a" ELSE "dns.aaaa"
<1>1. /\ IsWorld(x) /\ Readings(c, fs) /\ IsList(fs) /\ SeenBy(x, "dns", ToSet(fs))
      /\ \A f \in ToSet(fs) : ExactRow(c, f)
  BY FullyRead, RegisteredNames
<1>2. p \in {"dns.a", "dns.aaaa"} /\ (p = "dns.aaaa" <=> fam = "v6")
  OBVIOUS
<1>3. \A a \in addrs : a.v6 \in BOOLEAN
  BY <1>1, NoList DEF IsWorld, Resolve
<1>4. OfFamily(x, fam, x.domain) = {a \in addrs : a.v6 = (fam = "v6")}
  BY DEF OfFamily
<1>5. familyHasDNSRecord(fs, fam) <=> \E i \in Rows(fs, p) : IsEvidenceLike(fs[i])
  BY DEF familyHasDNSRecord
<1> HIDE DEF addrs, p
<1>6. ASSUME NEW i \in Rows(fs, p), IsEvidenceLike(fs[i])
      PROVE  OfFamily(x, fam, x.domain) # {}
  <2>1. fs[i].probe = p /\ fs[i] \in ToSet(fs)
    BY <1>1, <1>2, ReadRow
  <2>2. ExactRow(c, fs[i])
    BY <1>1, <2>1
  <2>3. \E a \in addrs : a.v6 = (p = "dns.aaaa")
    BY <1>2, <1>6, <2>1, <2>2 DEF ExactRow, addrs
  <2> QED
    BY <1>2, <1>4, <2>3
<1>7. ASSUME NEW a \in OfFamily(x, fam, x.domain)
      PROVE  \E i \in Rows(fs, p) : IsEvidenceLike(fs[i])
  <2>1. a \in addrs /\ a.v6 = (fam = "v6")
    BY <1>4
  <2>2. PICK f \in ToSet(fs) : f.probe = (IF a.v6 THEN "dns.aaaa" ELSE "dns.a") /\ IsEvidenceLike(f)
    BY <1>1, <2>1 DEF SeenBy, addrs
  <2>3. f.probe = p
    BY <2>1, <2>2 DEF p
  <2> QED
    BY <1>1, <2>2, <2>3, RowAt
<1> QED
  BY <1>5, <1>6, <1>7

\* Whether all doors lead to one secured room.
LEMMA ConvergenceExact ==
  ASSUME NEW c, NEW fs, FullReadings(c, fs), Answerable(c, "variant_convergence"),
         HasDoors(c.world)
  PROVE  RationaleScore(variantConvergence(fs)) = Truth(c.world, "variant_convergence")
<1> DEFINE x == c.world
           I == Rows(fs, "http.variants")
<1>1. /\ "dns" \in c.probes /\ "variants" \in c.probes
      /\ OneRoomPerOrigin(x) /\ CapSuffices(x) /\ BudgetSuffices(x)
  BY DEF Answerable
<1>2. /\ Readings(c, fs) /\ IsList(fs) /\ SeenBy(x, "variants", ToSet(fs))
      /\ \A f \in ToSet(fs) : ExactRow(c, f)
  BY <1>1, FullyRead, RegisteredNames
<1>3. I # {}
  <2>1. PICK f \in ToSet(fs) : f.probe = "http.variants"
    BY <1>2 DEF SeenBy
  <2> QED
    BY <1>2, <2>1, RowAt
<1>4. fs[LastRow(I)].attrs.paths = walkPaths(x, {})[Len(paths)].results
  <2>1. I \in SUBSET DOMAIN fs
    BY DEF Rows
  <2>2. LastRow(I) \in I
    <3> HIDE DEF I
    <3> QED
      BY <1>2, <1>3, <2>1, PickedRow
  <2>3. fs[LastRow(I)].probe = "http.variants" /\ fs[LastRow(I)] \in ToSet(fs)
    BY <1>2, <2>2, ReadRow
  <2> QED
    BY <1>2, <2>3 DEF ExactRow
<1>5. \A fam \in {"v4", "v6"} : familyHasDNSRecord(fs, fam) <=> OfFamily(x, fam, x.domain) # {}
  BY <1>1, FamiliesExact
<1>6. RationaleScore(variantConvergence(fs)) = ConvergenceTruth(x)
  BY <1>1, <1>3, <1>4, <1>5, DoorsExact
<1> QED
  BY <1>6 DEF Truth

\* Every rule that says what is true of the world does so on full readings.
LEMMA VerdictsTold ==
  ASSUME NEW c \in Cases, c.kind = "perimeter", NEW fs, FullReadings(c, fs), NEW day,
         NEW id \in c.asks \cap AskedRules
  PROVE  ScoreOf(wandDefaultRules(fs, day), id) = Truth(c.world, id)
<1> DEFINE x == c.world
           R == wandDefaultRules(fs, day)
<1>1. Answerable(c, id) /\ ("variants" \in c.probes => HasDoors(x))
  BY AsksAssumption, WorldsAssumption
<1>2. ScoreOf(R, id) = RationaleScore(ResultOf(R, id))
  BY DEF ScoreOf
<1> HIDE DEF R
<1>3. CASE id = "apex_ip_eea"
  BY <1>1, <1>2, <1>3, WandResults, ApexExact DEF Answerable, R
<1>4. CASE id = "mx_vendor_jurisdiction"
  BY <1>1, <1>2, <1>4, WandResults, MailExact DEF Answerable, R
<1>5. CASE id = "ns_vendor_jurisdiction"
  BY <1>1, <1>2, <1>5, MoreWandResults, NameServerExact DEF Answerable, R
<1>6. CASE id = "third_parties_eea"
  BY <1>1, <1>2, <1>6, WandResults, ThirdPartiesExact DEF Answerable, R
<1>7. CASE id = "no_us_hyperscaler"
  BY <1>1, <1>2, <1>7, WandResults, HyperscalerExact DEF R
<1>8. CASE id = "variant_convergence"
  <2>1. "variants" \in c.probes
    BY <1>1, <1>8 DEF Answerable
  <2> QED
    BY <1>1, <1>2, <1>8, <2>1, MoreWandResults, ConvergenceExact DEF R
<1> QED
  BY <1>3, <1>4, <1>5, <1>6, <1>7, <1>8 DEF AskedRules, JurisdictionRules

(***************************************************************************)
(* What a scan in which nothing fails writes down.                         *)
(***************************************************************************)
\* Rows of these probes have to be exact.
ExactProbes == {"dns.a", "dns.aaaa", "http.third_party", "http.variants", "ip.asn"}

ExactList(c, s) == IsList(s) /\ \A f \in ToSet(s) : ExactRow(c, f)

\* Other rows are exact whatever they say.
LEMMA OtherRow ==
  ASSUME NEW c, NEW f, f.probe \notin ExactProbes
  PROVE  ExactRow(c, f)
BY DEF ExactRow, ExactProbes

\* Exact rows behind exact rows.
LEMMA ExactConcat ==
  ASSUME NEW c, NEW s, NEW t, ExactList(c, s), ExactList(c, t)
  PROVE  /\ ExactList(c, s \o t)
         /\ ToSet(s) \subseteq ToSet(s \o t) /\ ToSet(t) \subseteq ToSet(s \o t)
BY Concat DEF ExactList

\* No row, one exact row, and one that may be left out.
LEMMA ExactOne ==
  ASSUME NEW c, NEW f
  PROVE  /\ ExactList(c, <<>>)
         /\ ExactRow(c, f) => ExactList(c, <<f>>) /\ f \in ToSet(<<f>>)
         /\ ExactRow(c, f) => \A cond : ExactList(c, Optional(cond, f))
BY NoList, OneList DEF ExactList, Optional

\* Each list that a finite set is read as has all its members.
LEMMA WholeSet ==
  ASSUME NEW S, IsFiniteSet(S), NEW s \in SetToSeqs(S)
  PROVE  IsList(s) /\ ToSet(s) = S
<1> DEFINE n == Cardinality(S)
<1>1. n \in Nat
  BY FS_CardinalityType
<1>2. s \in [1 .. n -> S]
  BY DEF SetToSeqs
<1>3. s \in Injection(1 .. n, S)
  <2>1. \A i, j \in 1 .. n : i # j => s[i] # s[j]
    BY DEF SetToSeqs
  <2> HIDE DEF n
  <2> QED
    BY <1>2, <2>1 DEF Injection, IsInjective
<1>4. Cardinality(1 .. n) = n
  BY <1>1, FS_Interval
<1>5. s \in Surjection(1 .. n, S)
  BY <1>3, <1>4, FS_Injection
<1>6. ToSet(s) = S
  BY <1>2, <1>5 DEF Surjection, ToSet
<1> HIDE DEF n
<1> QED
  BY <1>1, <1>2, <1>6, ListOf

\* So has the one in the order of a key.
LEMMA WholeInOrder ==
  ASSUME NEW S, IsFiniteSet(S), NEW key, \A m \in S : key[m] \in Int
  PROVE  IsList(InOrder(S, key)) /\ ToSet(InOrder(S, key)) = S
<1>1. \E s \in SetToSeqs(S) : \A i, j \in DOMAIN s : i < j => key[s[i]] <= key[s[j]]
  BY CanBeOrdered DEF ByKey
<1>2. InOrder(S, key) \in SetToSeqs(S)
  BY <1>1, Zenon DEF InOrder
<1> QED
  BY <1>2, WholeSet

\* What a probe saw, it has seen when there are more rows.
LEMMA SeenMore ==
  ASSUME NEW x, NEW p, NEW S, NEW T, SeenBy(x, p, S), S \subseteq T
  PROVE  SeenBy(x, p, T)
BY DEF SeenBy

\* The addresses of the apex.
LEMMA AddressesExact ==
  ASSUME NEW c, IsWorld(c.world)
  PROVE  LET x == c.world
             S == ToSet(addressFindings(x, {}))
         IN  /\ ExactList(c, addressFindings(x, {}))
             /\ \E f \in S : f.probe \in {"dns.a", "dns.aaaa"}
             /\ \A a \in ToSet(Resolve(x, x.domain)) :
                  \E f \in S : f.probe = (IF a.v6 THEN "dns.aaaa" ELSE "dns.a") /\ IsEvidenceLike(f)
<1> DEFINE x == c.world
           addrs == Resolve(x, x.domain)
           P(a) == IF a.v6 THEN "dns.aaaa" ELSE "dns.a"
           Row(a) == Finding(P(a), x.domain, [address |-> a.addr])
           t == [i \in DOMAIN addrs |-> Row(addrs[i])]
           N == noAnswer(x, "dns.a")
<1>1. addressFindings(x, {}) = IF addrs = <<>> THEN <<N>> ELSE t
  BY DEF addressFindings, Each
<1>2. \A a : Row(a).probe = P(a) /\ P(a) \in {"dns.a", "dns.aaaa"} /\ IsEvidenceLike(Row(a))
  <2> SUFFICES ASSUME NEW a PROVE Row(a).probe = P(a) /\ IsEvidenceLike(Row(a))
    OBVIOUS
  <2>1. Row(a).probe = P(a) /\ Row(a).attrs = [address |-> a.addr]
    BY FindingFields
  <2> HIDE DEF Row
  <2>2. DOMAIN Row(a).attrs = {"address"}
    BY <2>1
  <2> QED
    BY <2>1, <2>2 DEF IsEvidenceLike, Attr, Flag
<1>3. \A a \in ToSet(addrs) : a.v6 \in BOOLEAN
  BY NoList DEF IsWorld, Resolve
<1>4. IsList(addrs)
  BY ResolveList
<1>5. CASE addrs = <<>>
  <2>1. N.probe = "dns.a" /\ N.attrs = [no_answer |-> TRUE]
    BY FindingFields DEF noAnswer
  <2> HIDE DEF N, addrs
  <2>2. ~IsEvidenceLike(N)
    BY <2>1 DEF IsEvidenceLike, Flag
  <2>3. ExactRow(c, N)
    BY <2>1, <2>2 DEF ExactRow
  <2>4. ExactList(c, <<N>>) /\ N \in ToSet(<<N>>)
    BY <2>3, ExactOne
  <2>5. ToSet(addrs) = {}
    BY <1>5, NoList
  <2> QED
    BY <1>1, <1>5, <2>1, <2>4, <2>5 DEF addrs
<1>6. CASE addrs # <<>>
  <2>1. \A i \in DOMAIN addrs : addrs[i] \in ToSet(addrs)
    BY <1>4, ListDomain
  <2>2. ASSUME NEW a \in ToSet(addrs) PROVE ExactRow(c, Row(a))
    <3>1. Row(a).probe = P(a) /\ a.v6 \in BOOLEAN
      BY <1>2, <1>3
    <3>2. a.v6 = (Row(a).probe = "dns.aaaa") /\ Row(a).probe \in {"dns.a", "dns.aaaa"}
      BY <3>1
    <3> HIDE DEF Row, P
    <3> QED
      BY <3>2 DEF ExactRow, addrs
  <2>3. \E i \in DOMAIN addrs : TRUE
    <3> DEFINE A == ToSet(addrs)
    <3>1. addrs \in Seq(A)
      BY <1>4 DEF IsList
    <3> HIDE DEF addrs, A
    <3> QED
      BY <1>6, <3>1
  <2>4. \A a \in ToSet(addrs) : \E i \in DOMAIN addrs : addrs[i] = a
    BY <1>4, ListDomain
  <2> HIDE DEF addrs, Row, P
  <2>5. /\ IsList(t)
        /\ \A f \in ToSet(t) : \E i \in DOMAIN addrs : addrs[i] \in ToSet(addrs) /\ f = t[i]
        /\ \A i \in DOMAIN addrs : t[i] \in ToSet(t)
    BY <1>4, EachList
  <2>6. ExactList(c, t)
    BY <2>2, <2>5 DEF ExactList
  <2>7. \E f \in ToSet(t) : f.probe \in {"dns.a", "dns.aaaa"}
    BY <1>2, <2>3, <2>5
  <2>8. \A a \in ToSet(addrs) : \E f \in ToSet(t) : f.probe = P(a) /\ IsEvidenceLike(f)
    BY <1>2, <2>4, <2>5
  <2>9. addressFindings(x, {}) = t
    BY <1>1, <1>6
  <2> HIDE DEF t
  <2> QED
    BY <2>6, <2>7, <2>8, <2>9 DEF addrs, P
<1> QED
  BY <1>5, <1>6

\* A list with one row of another probe per member of a list.
LEMMA OtherEach ==
  ASSUME NEW c, NEW s, IsList(s), NEW t, t = [i \in DOMAIN s |-> t[i]],
         \A i \in DOMAIN s : t[i].probe \notin ExactProbes
  PROVE  /\ ExactList(c, t)
         /\ \A a \in ToSet(s) : \E i \in DOMAIN s : s[i] = a /\ t[i] \in ToSet(t)
<1>1. /\ IsList(t) /\ \A f \in ToSet(t) : \E i \in DOMAIN s : f = t[i]
      /\ \A i \in DOMAIN s : t[i] \in ToSet(t)
  BY EachList
<1>2. \A a \in ToSet(s) : \E i \in DOMAIN s : s[i] = a
  BY ListDomain
<1>3. \A f \in ToSet(t) : ExactRow(c, f)
  BY <1>1, OtherRow
<1> QED
  BY <1>1, <1>2, <1>3 DEF ExactList

\* The mail hosts.
LEMMA MailSeen ==
  ASSUME NEW c, IsWorld(c.world)
  PROVE  LET x == c.world
         IN  /\ ExactList(c, mxFindings(x, {}))
             /\ \A m \in x.mx : \E f \in ToSet(mxFindings(x, {})) :
                  f.probe = "dns.mx" /\ Attr(f, "host") = m.host
<1> DEFINE x == c.world
           Row(m) == Finding("dns.mx", x.domain, [host |-> m.host, preference |-> m.pref])
           s == InOrder(x.mx, [m \in x.mx |-> m.pref])
           t == [i \in DOMAIN s |-> Row(s[i])]
           N == noAnswer(x, "dns.mx")
<1>1. mxFindings(x, {}) = IF x.mx = {} THEN <<N>> ELSE t
  BY DEF mxFindings, Each
<1>2. \A m : Row(m).probe = "dns.mx" /\ Attr(Row(m), "host") = m.host
  <2> SUFFICES ASSUME NEW m PROVE Row(m).probe = "dns.mx" /\ Attr(Row(m), "host") = m.host
    OBVIOUS
  <2>1. Row(m).probe = "dns.mx" /\ Row(m).attrs = [host |-> m.host, preference |-> m.pref]
    BY FindingFields
  <2> HIDE DEF Row
  <2>2. "host" \in DOMAIN Row(m).attrs /\ Row(m).attrs["host"] = m.host
    BY <2>1
  <2> QED
    BY <2>1, <2>2 DEF Attr
<1>3. IsList(s) /\ ToSet(s) = x.mx
  <2> DEFINE key == [m \in x.mx |-> m.pref]
  <2>1. IsFiniteSet(x.mx) /\ \A m \in x.mx : key[m] \in Int
    BY DEF IsWorld
  <2> HIDE DEF key
  <2>2. IsList(InOrder(x.mx, key)) /\ ToSet(InOrder(x.mx, key)) = x.mx
    BY <2>1, WholeInOrder
  <2> QED
    BY <2>2 DEF key
<1> HIDE DEF s, Row
<1>4. /\ ExactList(c, t)
      /\ \A m \in x.mx : \E i \in DOMAIN s : s[i] = m /\ t[i] \in ToSet(t)
  <2>1. t = [i \in DOMAIN s |-> t[i]] /\ \A i \in DOMAIN s : t[i].probe \notin ExactProbes
    BY <1>2 DEF ExactProbes
  <2> HIDE DEF t
  <2> QED
    BY <1>3, <2>1, OtherEach
<1>5. \A m \in x.mx : \E f \in ToSet(t) : f.probe = "dns.mx" /\ Attr(f, "host") = m.host
  BY <1>2, <1>4
<1>6. ExactList(c, <<N>>)
  <2>1. N.probe = "dns.mx"
    BY FindingFields DEF noAnswer
  <2> HIDE DEF N
  <2> QED
    BY <2>1, OtherRow, ExactOne DEF ExactProbes
<1> HIDE DEF t, N
<1> QED
  BY <1>1, <1>4, <1>5, <1>6

\* The name servers.
LEMMA ServersSeen ==
  ASSUME NEW c, IsWorld(c.world)
  PROVE  LET x == c.world
         IN  /\ ExactList(c, nsFindings(x, {}))
             /\ \A h \in x.ns : nsFinding(x, h) \in ToSet(nsFindings(x, {}))
<1> DEFINE x == c.world
           s == Sorted(x.ns)
           t == [i \in DOMAIN s |-> nsFinding(x, s[i])]
<1>1. nsFindings(x, {}) = t
  BY DEF nsFindings, Each, nsFinding
<1>2. IsList(s) /\ ToSet(s) = x.ns
  BY SortedList DEF IsWorld
<1> HIDE DEF s
<1>3. \A i \in DOMAIN s : t[i].probe \notin ExactProbes
  BY NsHost DEF ExactProbes
<1>4. t = [i \in DOMAIN s |-> t[i]] /\ \A i \in DOMAIN s : t[i] = nsFinding(x, s[i])
  OBVIOUS
<1> HIDE DEF t
<1>5. /\ ExactList(c, t)
      /\ \A h \in x.ns : \E i \in DOMAIN s : s[i] = h /\ t[i] \in ToSet(t)
  BY <1>2, <1>3, <1>4, OtherEach
<1> QED
  BY <1>1, <1>4, <1>5

\* The CAA records.
LEMMA CaaExact ==
  ASSUME NEW c, IsWorld(c.world)
  PROVE  ExactList(c, caaFindings(c.world, {}))
<1> DEFINE x == c.world
           stops == {k \in DOMAIN x.caa : x.caa[k] # {} \/ <<"caa", k>> \in {}}
           k == Min(stops)
           Row(r) == Finding("dns.caa", x.domain, [tag |-> r.tag, value |-> r.value])
           s == Sorted(x.caa[k])
           t == [i \in DOMAIN s |-> Row(s[i])]
           N == noAnswer(x, "dns.caa")
<1>1. ExactList(c, <<N>>)
  <2>1. N.probe = "dns.caa"
    BY FindingFields DEF noAnswer
  <2> HIDE DEF N
  <2> QED
    BY <2>1, OtherRow, ExactOne DEF ExactProbes
<1>2. stops # {} => ExactList(c, t)
  <2> SUFFICES ASSUME stops # {} PROVE ExactList(c, t)
    OBVIOUS
  <2>1. IsList(x.caa)
    BY DEF IsWorld
  <2>2. stops \in SUBSET Nat
    BY <2>1, ListDomain
  <2>3. k \in DOMAIN x.caa
    <3> HIDE DEF stops
    <3>1. k \in stops
      BY <2>2, LeastPicked
    <3> QED
      BY <3>1 DEF stops
  <2>4. IsList(s)
    BY <2>3, SortedList DEF IsWorld
  <2>5. \A r : Row(r).probe = "dns.caa"
    BY FindingFields
  <2> HIDE DEF s, Row
  <2>6. t = [i \in DOMAIN s |-> t[i]] /\ \A i \in DOMAIN s : t[i].probe \notin ExactProbes
    BY <2>5 DEF ExactProbes
  <2> HIDE DEF t
  <2> QED
    BY <2>4, <2>6, OtherEach
<1>3. caaFindings(x, {}) = IF stops = {} THEN <<N>> ELSE t
  BY DEF caaFindings, Each
<1> HIDE DEF stops, t, N
<1> QED
  BY <1>1, <1>2, <1>3

\* The prefix sweep.
LEMMA SweepSeen ==
  ASSUME NEW c, IsWorld(c.world)
  PROVE  LET x == c.world
         IN  /\ ExactList(c, subdomainSweep(x, {}))
             /\ ~Wildcard(x) => \A h \in {g \in x.subs : Resolve(x, g) # <<>>} :
                  \E f \in ToSet(subdomainSweep(x, {})) : f.probe = "dns.subdomain" /\ f.subject = h
<1> DEFINE x == c.world
           hits == {h \in x.subs : Resolve(x, h) # <<>>}
           Row(h) == Finding("dns.subdomain", h, [source |-> "prefix_probe"])
           s == Sorted(hits)
           t == [i \in DOMAIN s |-> Row(s[i])]
<1>1. IsFiniteSet(hits)
  BY FS_Subset DEF IsWorld
<1>2. IsList(s) /\ ToSet(s) = hits
  BY <1>1, SortedList
<1>3. subdomainSweep(x, {}) = IF Wildcard(x) THEN <<>> ELSE t
  BY DEF subdomainSweep, Wildcard, Each
<1>4. \A h : Row(h).probe = "dns.subdomain" /\ Row(h).subject = h
  BY FindingFields
<1> HIDE DEF s, Row, hits
<1>5. /\ t = [i \in DOMAIN s |-> t[i]] /\ \A i \in DOMAIN s : t[i].probe \notin ExactProbes
      /\ \A i \in DOMAIN s : t[i].probe = "dns.subdomain" /\ t[i].subject = s[i]
  BY <1>4 DEF ExactProbes
<1> HIDE DEF t
<1>6. ExactList(c, t) /\ \A h \in hits : \E i \in DOMAIN s : s[i] = h /\ t[i] \in ToSet(t)
  BY <1>2, <1>5, OtherEach
<1>7. \A h \in hits : \E f \in ToSet(t) : f.probe = "dns.subdomain" /\ f.subject = h
  BY <1>5, <1>6
<1>8. ExactList(c, <<>>)
  BY ExactOne
<1> QED
  BY <1>3, <1>6, <1>7, <1>8 DEF hits

\* All that the dns probe has to see.
LEMMA DnsSeen ==
  ASSUME NEW c, IsWorld(c.world)
  PROVE  ExactList(c, dnsRun(c.world, {})) /\ SeenBy(c.world, "dns", ToSet(dnsRun(c.world, {})))
<1> DEFINE x == c.world
           a == addressFindings(x, {})
           m == mxFindings(x, {})
           n == nsFindings(x, {})
           k == caaFindings(x, {})
           u == subdomainSweep(x, {})
           S == ToSet(dnsRun(x, {}))
<1>1. ExactList(c, a) /\ ExactList(c, m) /\ ExactList(c, n) /\ ExactList(c, k) /\ ExactList(c, u)
  BY AddressesExact, MailSeen, ServersSeen, CaaExact, SweepSeen
<1>2. dnsRun(x, {}) = a \o m \o n \o k \o u
  BY DEF dnsRun
<1>3. /\ \E f \in ToSet(a) : f.probe \in {"dns.a", "dns.aaaa"}
      /\ \A g \in ToSet(Resolve(x, x.domain)) :
           \E f \in ToSet(a) : f.probe = (IF g.v6 THEN "dns.aaaa" ELSE "dns.a") /\ IsEvidenceLike(f)
  BY AddressesExact
<1>4. /\ \A y \in x.mx : \E f \in ToSet(m) : f.probe = "dns.mx" /\ Attr(f, "host") = y.host
      /\ \A h \in x.ns : nsFinding(x, h) \in ToSet(n)
      /\ ~Wildcard(x) => \A h \in {g \in x.subs : Resolve(x, g) # <<>>} :
                           \E f \in ToSet(u) : f.probe = "dns.subdomain" /\ f.subject = h
  BY MailSeen, ServersSeen, SweepSeen
<1> HIDE DEF a, m, n, k, u
<1>5. ExactList(c, a \o m) /\ ToSet(a) \subseteq ToSet(a \o m) /\ ToSet(m) \subseteq ToSet(a \o m)
  BY <1>1, ExactConcat
<1>6. /\ ExactList(c, a \o m \o n) /\ ToSet(a \o m) \subseteq ToSet(a \o m \o n)
      /\ ToSet(n) \subseteq ToSet(a \o m \o n)
  BY <1>1, <1>5, ExactConcat
<1>7. ExactList(c, a \o m \o n \o k) /\ ToSet(a \o m \o n) \subseteq ToSet(a \o m \o n \o k)
  BY <1>1, <1>6, ExactConcat
<1>8. /\ ExactList(c, a \o m \o n \o k \o u)
      /\ ToSet(a \o m \o n \o k) \subseteq ToSet(a \o m \o n \o k \o u)
      /\ ToSet(u) \subseteq ToSet(a \o m \o n \o k \o u)
  BY <1>1, <1>7, ExactConcat
<1>9. ToSet(a) \subseteq S /\ ToSet(m) \subseteq S /\ ToSet(n) \subseteq S /\ ToSet(u) \subseteq S
  BY <1>2, <1>5, <1>6, <1>7, <1>8
<1> HIDE DEF S
<1>10. SeenBy(x, "dns", S)
  BY <1>3, <1>4, <1>9 DEF SeenBy
<1> QED
  BY <1>2, <1>8, <1>10 DEF S

\* One row per host.
RowPerHost(p, H, a) == {Finding(p, h, a) : h \in H}

\* Go's map order leaves none of them out.
LEMMA WholeRows ==
  ASSUME NEW H, IsFiniteSet(H), NEW p, NEW a, NEW v \in AnyOrder(RowPerHost(p, H, a))
  PROVE  IsList(v) /\ ToSet(v) = RowPerHost(p, H, a)
<1> DEFINE S == RowPerHost(p, H, a)
           g == [h \in H |-> Finding(p, h, a)]
<1>1. S = {g[h] : h \in H} /\ g = [h \in H |-> g[h]]
  BY DEF RowPerHost
<1> HIDE DEF g, S
<1>2. IsFiniteSet(S)
  BY <1>1, FiniteImage
<1>3. v \in SetToSeqs(S)
  BY DEF AnyOrder, S
<1>4. IsList(v) /\ ToSet(v) = S
  BY <1>2, <1>3, WholeSet
<1> QED
  BY <1>4 DEF S

\* Two exact rows.
LEMMA ExactTwo ==
  ASSUME NEW c, NEW f, NEW g, ExactRow(c, f), ExactRow(c, g)
  PROVE  ExactList(c, <<f, g>>)
<1> DEFINE s == <<f, g>>
<1>1. DOMAIN s = 1 .. 2 /\ s[1] = f /\ s[2] = g /\ s = [i \in 1 .. 2 |-> s[i]]
  OBVIOUS
<1> HIDE DEF s
<1>2. IsList(s)
  BY <1>1, ListOf
<1>3. \A h \in ToSet(s) : h = f \/ h = g
  BY <1>1 DEF ToSet
<1> QED
  BY <1>2, <1>3 DEF ExactList, s

\* The certificate, and the names of the CT log.
LEMMA TlsSeen ==
  ASSUME NEW c, IsWorld(c.world), NEW s \in tlsRun(c.world, {})
  PROVE  ExactList(c, s) /\ SeenBy(c.world, "tls", ToSet(s))
<1> DEFINE x == c.world
           at == [source |-> "ct_log"]
           S == RowPerHost("dns.subdomain", x.ct, at)
           T == Finding("tls.ct", x.domain, [total_entries |-> Cardinality(x.ct)])
<1>1. ExactList(c, inspect(x, {}))
  <2> DEFINE validity == IF x.cert.left < 0 THEN [expired |-> TRUE]
                         ELSE IF x.cert.left < expiringSoonThresholdDays
                         THEN [expiring_soon |-> TRUE] ELSE [days_left |-> x.cert.left]
             H == Finding("tls.handshake", x.domain, [error |-> "failed"])
             N == Finding("tls.verify", x.domain, [verified |-> FALSE])
             I == Finding("tls.issuer", x.domain,
                          [issuer_country |-> x.cert.countries, issuer_o |-> x.cert.org])
             V == Finding("tls.validity", x.domain, validity)
  <2>1. inspect(x, {}) = IF ~x.cert.up \/ <<"tls", "dial">> \in {} THEN <<H>>
                         ELSE Optional(~x.cert.verified, N) \o <<I, V>>
    BY DEF inspect
  <2> HIDE DEF validity
  <2>2. /\ H.probe = "tls.handshake" /\ N.probe = "tls.verify"
        /\ I.probe = "tls.issuer" /\ V.probe = "tls.validity"
    BY FindingFields
  <2> HIDE DEF H, N, I, V
  <2>3. ExactRow(c, H) /\ ExactRow(c, N) /\ ExactRow(c, I) /\ ExactRow(c, V)
    BY <2>2, OtherRow DEF ExactProbes
  <2>5. ExactList(c, <<H>>) /\ ExactList(c, Optional(~x.cert.verified, N)) /\ ExactList(c, <<I, V>>)
    BY <2>3, ExactOne, ExactTwo
  <2> QED
    BY <2>1, <2>5, ExactConcat
<1>2. PICK v \in AnyOrder(S) : s = inspect(x, {}) \o (<<T>> \o v)
  <2>1. PICK u \in crtShLookup(x, {}) : s = inspect(x, {}) \o u
    BY DEF tlsRun
  <2>2. \E v \in AnyOrder(S) : u = <<T>> \o v
    BY <2>1 DEF crtShLookup, RowPerHost
  <2> QED
    BY <2>1, <2>2
<1>3. IsList(v) /\ ToSet(v) = S
  <2>1. IsFiniteSet(x.ct)
    BY DEF IsWorld
  <2> HIDE DEF at
  <2> QED
    BY <1>2, <2>1, WholeRows
<1>4. \A h : Finding("dns.subdomain", h, at).probe = "dns.subdomain"
             /\ Finding("dns.subdomain", h, at).subject = h
  BY FindingFields
<1>5. T.probe = "tls.ct"
  BY FindingFields
<1> HIDE DEF T, at
<1>6. ExactList(c, v)
  <2>1. \A f \in S : ExactRow(c, f)
    BY <1>4, OtherRow DEF ExactProbes, RowPerHost
  <2> QED
    BY <1>3, <2>1 DEF ExactList
<1>7. ExactList(c, <<T>>)
  BY <1>5, OtherRow, ExactOne DEF ExactProbes
<1>8. ExactList(c, <<T>> \o v) /\ ToSet(v) \subseteq ToSet(<<T>> \o v)
  BY <1>6, <1>7, ExactConcat
<1> DEFINE u == <<T>> \o v
           i == inspect(x, {})
<1>9. ExactList(c, s) /\ ToSet(u) \subseteq ToSet(s)
  <2>1. ExactList(c, i) /\ ExactList(c, u) /\ s = i \o u
    BY <1>1, <1>2, <1>8
  <2> HIDE DEF i, u
  <2> QED
    BY <2>1, ExactConcat
<1>10. \A h \in x.ct : Finding("dns.subdomain", h, at) \in ToSet(s)
  BY <1>3, <1>8, <1>9 DEF RowPerHost
<1>11. \A h \in x.ct : \E f \in ToSet(s) : f.probe = "dns.subdomain" /\ f.subject = h
  BY <1>4, <1>10
<1>12. SeenBy(x, "tls", ToSet(s))
  BY <1>11 DEF SeenBy
<1> QED
  BY <1>9, <1>12

\* The page, where it may be read.
LEMMA HttpSeen ==
  ASSUME NEW c, IsWorld(c.world), NEW s \in httpRun(c.world, {})
  PROVE  ExactList(c, s) /\ SeenBy(c.world, "http", ToSet(s))
<1> DEFINE x == c.world
           at == [kinds |-> {"script"}]
           S == RowPerHost("http.third_party", x.http.third, at)
           sec == fetchSecurityTxt(x, {})
           D == Finding("http.scheme_downgrade", x.domain, [reason |-> "failed"])
           B == Finding("http.robots_blocked", x.domain, [fetched |-> TRUE])
           E == Finding("http.fetch_failed", x.domain, [error |-> "failed"])
           R == Finding("http.response", x.domain, [server |-> x.http.server])
           H(m) == Finding("http.security_headers", x.domain, [missing |-> m])
           Page(m, v) == <<sec>> \o Optional(~x.http.https, D) \o responseFindings(x, m) \o v
<1>0. \A what : HttpsAnswers(x, {}, what) <=> x.http.https
  BY DEF HttpsAnswers
<1>1. /\ ~PageSeen(x) => s = <<B>> \/ s = <<sec>> \o <<E>>
      /\ PageSeen(x) => \E m \in {x.http.missing, x.http.missingPlain} :
                          \E v \in AnyOrder(S) : s = Page(m, v)
  BY <1>0 DEF httpRun, PageSeen, RowPerHost
<1>2. sec.probe \notin ExactProbes
  BY FindingFields DEF fetchSecurityTxt, ExactProbes
<1>3. /\ D.probe = "http.scheme_downgrade" /\ B.probe = "http.robots_blocked"
      /\ E.probe = "http.fetch_failed" /\ R.probe = "http.response"
      /\ \A m : H(m).probe = "http.security_headers"
  BY FindingFields
<1>4. \A m : responseFindings(x, m) = <<R, H(m)>>
  BY DEF responseFindings
<1>5. \A h : Finding("http.third_party", h, at).probe = "http.third_party"
             /\ Finding("http.third_party", h, at).subject = h
  BY FindingFields
<1> HIDE DEF sec, D, B, E, R, H, at
<1>6. /\ ExactRow(c, sec) /\ ExactRow(c, D) /\ ExactRow(c, B) /\ ExactRow(c, E) /\ ExactRow(c, R)
      /\ \A m : ExactRow(c, H(m))
  BY <1>2, <1>3, OtherRow DEF ExactProbes
<1>7. Readable(x).http.third = IF PageSeen(x) THEN x.http.third ELSE {}
  BY ReadableFields
<1>8. CASE ~PageSeen(x)
  <2>1. ExactList(c, s)
    BY <1>1, <1>6, <1>8, ExactOne, ExactConcat
  <2>2. SeenBy(x, "http", ToSet(s))
    BY <1>7, <1>8 DEF SeenBy
  <2> QED
    BY <2>1, <2>2
<1>9. CASE PageSeen(x)
  <2>1. PICK m \in {x.http.missing, x.http.missingPlain}, v \in AnyOrder(S) : s = Page(m, v)
    BY Zenon, <1>1, <1>9
  <2>2. IsList(v) /\ ToSet(v) = S
    <3>1. IsFiniteSet(x.http.third)
      BY DEF IsWorld
    <3> QED
      BY <2>1, <3>1, WholeRows
  <2>3. ASSUME NEW f \in S PROVE ExactRow(c, f)
    <3>1. PICK h \in x.http.third : f = Finding("http.third_party", h, at)
      BY <2>3 DEF RowPerHost
    <3>2. f.probe = "http.third_party" /\ f.subject \in Readable(x).http.third
      BY <1>5, <1>7, <1>9, <3>1
    <3> QED
      BY <3>2 DEF ExactRow
  <2>4. ExactList(c, v)
    BY <2>2, <2>3 DEF ExactList
  <2>6. ExactList(c, <<sec>>) /\ ExactList(c, Optional(~x.http.https, D)) /\ ExactList(c, <<R, H(m)>>)
    BY <1>6, ExactOne, ExactTwo
  <2> DEFINE a == <<sec>> \o Optional(~x.http.https, D) \o <<R, H(m)>>
  <2>7. ExactList(c, a)
    BY <2>6, ExactConcat
  <2>8. s = a \o v
    BY <1>4, <2>1
  <2> HIDE DEF a
  <2>9. ExactList(c, s) /\ ToSet(v) \subseteq ToSet(s)
    BY <2>4, <2>7, <2>8, ExactConcat
  <2>10. \A h \in x.http.third : Finding("http.third_party", h, at) \in ToSet(s)
    BY <2>2, <2>9 DEF RowPerHost
  <2>11. \A h \in x.http.third : \E f \in ToSet(s) : f.probe = "http.third_party" /\ f.subject = h
    BY <1>5, <2>10
  <2>12. SeenBy(x, "http", ToSet(s))
    BY <1>7, <1>9, <2>11 DEF SeenBy
  <2> QED
    BY SMTT(40), <2>9, <2>12
<1> QED
  BY <1>8, <1>9

\* Rows nothing has to be exact about.
LEMMA ExactAnyway ==
  ASSUME NEW c, IsWorld(c.world)
  PROVE  /\ ExactList(c, whoisRun(c.world, {}))
         /\ ExactList(c, soaRun(c.world, {}))
         /\ ExactList(c, transitRun(c.world, {}))
<1> DEFINE x == c.world
<1>1. ExactList(c, whoisRun(x, {}))
  <2> DEFINE G == Finding("whois.unavailable", x.domain, [reason |-> "failed"])
             C == Finding("whois.registrant", x.domain, [country |-> vcardCountry(x.rdap)])
             N == registrantIdentityFinding(x)
             P == Finding("whois.reseller", x.domain, [present |-> x.rdap.reseller])
             E == expiryFinding(x)
  <2>1. whoisRun(x, {}) = IF <<"rdap", x.domain>> \in {} THEN <<G>>
                          ELSE Optional(vcardCountry(x.rdap) # "", C) \o <<N, P, E>>
    BY DEF whoisRun, buildFindings
  <2>2. /\ C.probe = "whois.registrant" /\ N.probe = "whois.registrant_identity"
        /\ P.probe = "whois.reseller" /\ E.probe = "whois.expiry"
    BY FindingFields DEF registrantIdentityFinding, expiryFinding
  <2> HIDE DEF C, N, P, E
  <2>3. ExactRow(c, C) /\ ExactRow(c, N) /\ ExactRow(c, P) /\ ExactRow(c, E)
    BY <2>2, OtherRow DEF ExactProbes
  <2>4. <<N, P, E>> = <<N, P>> \o <<E>>
    OBVIOUS
  <2>5. ExactList(c, <<N, P, E>>) /\ ExactList(c, Optional(vcardCountry(x.rdap) # "", C))
    BY <2>3, <2>4, ExactOne, ExactTwo, ExactConcat
  <2> QED
    BY <2>1, <2>5, ExactConcat
<1>2. ExactList(c, soaRun(x, {}))
  <2> DEFINE B == [rname_parse_error |-> "failed"]
             S == [mailbox_domain_resolves |-> /\ Resolve(x, x.soa.mailbox) # <<>>
                                               /\ <<"soa", "host">> \notin {},
                   mailbox_domain_has_mx   |-> x.soa.mx /\ <<"soa", "mx">> \notin {}]
             Row(a) == Finding("dns.soa", x.domain, a)
  <2>1. soaRun(x, {}) = <<Row(B)>> \/ soaRun(x, {}) = <<Row(S)>>
    BY DEF soaRun
  <2>2. \A a : Row(a).probe = "dns.soa"
    BY FindingFields
  <2> HIDE DEF B, S, Row
  <2>3. \A a : Row(a).probe \notin ExactProbes
    BY <2>2 DEF ExactProbes
  <2> QED
    BY <2>1, <2>3, OtherRow, ExactOne
<1>3. ExactList(c, transitRun(x, {}))
  <2> DEFINE t == [k \in DOMAIN x.hops |-> hopFinding(x, k)]
             e == [error |-> "failed"]
             R == Finding("transit.resolve", x.domain, e)
  <2>1. transitRun(x, {}) = <<R>> \/ transitRun(x, {}) = t
    BY DEF transitRun
  <2> HIDE DEF e
  <2>2. R.probe = "transit.resolve"
    BY FindingFields
  <2>3. \A k \in DOMAIN x.hops : t[k].probe = "transit.hop"
    BY FindingFields DEF hopFinding
  <2>4. t = [k \in DOMAIN x.hops |-> t[k]]
    OBVIOUS
  <2> HIDE DEF t, R
  <2>5. IsList(x.hops)
    BY DEF IsWorld
  <2>6. ExactList(c, t)
    BY <2>3, <2>4, <2>5, OtherEach DEF ExactProbes
  <2>7. ExactList(c, <<R>>)
    BY <2>2, OtherRow, ExactOne DEF ExactProbes
  <2> QED
    BY <2>1, <2>6, <2>7
<1> QED
  BY <1>1, <1>2, <1>3

\* The walk through the eight doors.
LEMMA VariantsSeen ==
  ASSUME NEW c
  PROVE  /\ ExactList(c, variantsRun(c.world, {}))
         /\ SeenBy(c.world, "variants", ToSet(variantsRun(c.world, {})))
<1> DEFINE x == c.world
           r == walkPaths(x, {})[Len(paths)].results
           f == Finding("http.variants", x.domain, [paths |-> r])
<1>1. variantsRun(x, {}) = <<f>>
  BY DEF variantsRun
<1> HIDE DEF r
<1>2. f.probe = "http.variants" /\ f.attrs = [paths |-> r]
  BY FindingFields
<1> HIDE DEF f
<1>3. f.attrs.paths = r
  BY <1>2
<1>4. ExactRow(c, f)
  BY <1>2, <1>3 DEF ExactRow, r
<1>5. ExactList(c, <<f>>) /\ f \in ToSet(<<f>>)
  BY <1>4, ExactOne
<1>6. SeenBy(x, "variants", ToSet(<<f>>))
  BY <1>2, <1>5 DEF SeenBy
<1> QED
  BY <1>1, <1>5, <1>6

\* What a probe returns when nothing fails misses nothing it looks for.
LEMMA ProbeSeen ==
  ASSUME NEW c, IsWorld(c.world), case = c, failed = {},
         NEW p \in ToSet(Registered), NEW out \in RunProbe(p)
  PROVE  ExactList(c, out) /\ SeenBy(c.world, p, ToSet(out))
<1>1. p \in {"dns", "tls", "http", "whois", "soa", "variants", "transit"}
  BY RegisteredNames
<1>2. CASE p = "dns"
  <2>1. out = dnsRun(c.world, {})
    BY <1>2 DEF RunProbe, w
  <2> QED
    BY <1>2, <2>1, DnsSeen
<1>3. CASE p = "tls"
  <2>1. out \in tlsRun(c.world, {})
    BY <1>3 DEF RunProbe, w
  <2> QED
    BY <1>3, <2>1, TlsSeen
<1>4. CASE p = "http"
  <2>1. out \in httpRun(c.world, {})
    BY <1>4 DEF RunProbe, w
  <2> QED
    BY <1>4, <2>1, HttpSeen
<1>5. CASE p = "variants"
  <2>1. out = variantsRun(c.world, {})
    BY <1>5 DEF RunProbe, w
  <2> QED
    BY <1>5, <2>1, VariantsSeen
<1>6. CASE p \in {"whois", "soa", "transit"}
  <2>1. out \in {whoisRun(c.world, {}), soaRun(c.world, {}), transitRun(c.world, {})}
    BY <1>6 DEF RunProbe, w
  <2>2. SeenBy(c.world, p, ToSet(out))
    BY <1>6 DEF SeenBy
  <2> QED
    BY <2>1, <2>2, ExactAnyway
<1> QED
  BY <1>1, <1>2, <1>3, <1>4, <1>5, <1>6

\* The syntheses add nothing that has to be exact.
LEMMA SynthesesExact ==
  ASSUME NEW c, NEW d, NEW fs
  PROVE  ExactList(c, syntheses(d, fs))
<1>1. ASSUME NEW p \in {"dns.mx_routing", "dns.ns_hosting", "ip.hosting", "http.origin_map",
                        "http.cdn_front", "tls.chain_geography"}, NEW a
      PROVE  /\ ExactList(c, <<Finding(p, d, a)>>)
             /\ \A cond : ExactList(c, Optional(cond, Finding(p, d, a)))
  <2>1. Finding(p, d, a).probe = p
    BY FindingFields
  <2>2. ExactRow(c, Finding(p, d, a))
    BY <2>1, OtherRow DEF ExactProbes
  <2> QED
    BY <2>2, ExactOne
<1>2. ExactList(c, synthesiseMailRouting(d, fs))
  BY <1>1 DEF synthesiseMailRouting
<1>3. ExactList(c, synthesiseDNSHosting(d, fs))
  BY <1>1 DEF synthesiseDNSHosting
<1>4. ExactList(c, synthesiseHostingIdentity(d, fs))
  BY <1>1, Zenon DEF synthesiseHostingIdentity
<1>5. ExactList(c, synthesiseOriginMap(d, fs))
  BY <1>1, Zenon DEF synthesiseOriginMap
<1>6. ExactList(c, synthesiseCDNFront(d, fs))
  BY <1>1, Zenon DEF synthesiseCDNFront
<1>7. ExactList(c, synthesiseCertChain(d, fs))
  BY <1>1, ExactOne, Zenon DEF synthesiseCertChain
<1> QED
  BY <1>2, <1>3, <1>4, <1>5, <1>6, <1>7, ExactConcat DEF syntheses

\* Nor do the holder lookups.
LEMMA HoldersExact ==
  ASSUME NEW c, NEW x, NEW fs, IsList(fs)
  PROVE  ExactList(c, nsHolderFindings(x, {}, fs))
<1> DEFINE I == Rows(fs, "dns.ns")
           g == [i \in I |-> Registrable(Attr(fs[i], "host"))]
           D == {g[i] : i \in I} \ {""}
           H(d) == Finding("whois.ns_holder", d, [registrant |-> LookupRegistrantStatus(x, d)])
           s == Sorted(D)
           t == [k \in DOMAIN s |-> H(s[k])]
<1>1. IsFiniteSet(D)
  <2>1. I \in SUBSET DOMAIN fs
    BY DEF Rows
  <2>2. g = [i \in I |-> g[i]]
    OBVIOUS
  <2> DEFINE E == {g[i] : i \in I}
  <2> HIDE DEF g, I
  <2>3. IsFiniteSet(E)
    BY <2>1, <2>2, FinitePositions
  <2> HIDE DEF E
  <2>4. IsFiniteSet(E \ {""})
    BY <2>3, FS_Subset
  <2> QED
    BY <2>4 DEF E
<1>2. nsHolderFindings(x, {}, fs) = t
  BY DEF nsHolderFindings, uniqueRegistrableDomains, Each
<1>3. IsList(s)
  <2> HIDE DEF D
  <2> QED
    BY <1>1, SortedList
<1>4. \A d : H(d).probe = "whois.ns_holder"
  BY FindingFields
<1> HIDE DEF s, H
<1>5. t = [k \in DOMAIN s |-> t[k]] /\ \A k \in DOMAIN s : t[k].probe \notin ExactProbes
  BY <1>4 DEF ExactProbes
<1> HIDE DEF t
<1> QED
  BY <1>2, <1>3, <1>5, OtherEach

(***************************************************************************)
(* The second pass.                                                        *)
(***************************************************************************)
\* The hosts that the probes of a case lead to are among T, the domain aside.
HostsReached(c, T) == \A h \in HostsSeen(c) : h \in {c.world.domain, ""} \/ h \in T

\* Every host that true and complete rows lead to reaches the second pass,
\* and no other one does.
LEMMA RelatedSeen ==
  ASSUME NEW c, IsWorld(c.world), NEW fs, FaithfulList(c, fs),
         \A f \in ToSet(fs) : ExactRow(c, f),
         \A p \in ToSet(Registered) \cap c.probes : SeenBy(c.world, p, ToSet(fs))
  PROVE  LET x == c.world
             r == expandRelatedFromFindings(x.domain, fs)
         IN  /\ IsList(r) /\ ToSet(r) \subseteq HostsAsked(Readable(x), "no_us_hyperscaler")
             /\ HostsReached(c, ToSet(r))
<1> DEFINE x == c.world
           third == Readable(x).http.third
           A == HostsAsked(Readable(x), "no_us_hyperscaler")
           N == HostsNamed(fs)
           J == SubjectsNamed(fs)
           S == (N \cup J) \ {x.domain, ""}
           M == {m.host : m \in x.mx}
           r == expandRelatedFromFindings(x.domain, fs)
<1>0. IsList(fs)
  BY DEF FaithfulList
<1>1. A = {x.domain} \cup M \cup x.ns \cup x.ct \cup third
            \cup (IF Wildcard(x) THEN {} ELSE x.subs)
  BY ReadableFields
<1>2. \A i \in Rows(fs, "dns.mx") : Attr(fs[i], "host") \in M \cup {""}
  BY MailHost DEF HostsAsked
<1>3. \A i \in Rows(fs, "dns.ns") : Attr(fs[i], "host") \in x.ns \cup {""}
  BY NameServerHost DEF HostsAsked
<1>4. \A i \in Rows(fs, "http.third_party") : fs[i].subject \in third
  BY RowOf DEF ExactRow
<1>5. \A i \in Rows(fs, "dns.subdomain") :
        fs[i].subject \in x.ct \cup (IF Wildcard(x) THEN {} ELSE x.subs)
  BY ZenonT(60), RowOf DEF RowTrue, NameTrue
<1> HIDE DEF third, A
<1>6. S \subseteq A
  BY <1>1, <1>2, <1>3, <1>4, <1>5 DEF HostsNamed, SubjectsNamed
<1>7. IsFiniteSet(N) /\ IsFiniteSet(J)
  <2> DEFINE I == Rows(fs, "dns.mx") \cup Rows(fs, "dns.ns")
             K == Rows(fs, "http.third_party") \cup Rows(fs, "dns.subdomain")
             g == [i \in I |-> Attr(fs[i], "host")]
             s == [i \in K |-> fs[i].subject]
  <2>1. I \in SUBSET DOMAIN fs /\ K \in SUBSET DOMAIN fs
    BY DEF Rows
  <2>2. N = {g[i] : i \in I} /\ J = {s[i] : i \in K}
    BY DEF HostsNamed, SubjectsNamed
  <2>3. g = [i \in I |-> g[i]] /\ s = [i \in K |-> s[i]]
    OBVIOUS
  <2> HIDE DEF g, s, I, K, N, J
  <2> QED
    BY <1>0, <2>1, <2>2, <2>3, FinitePositions
<1>8. IsList(r) /\ ToSet(r) = S
  <2>1. r = Sorted(S)
    BY DEF expandRelatedFromFindings
  <2>2. IsFiniteSet(N \cup J)
    BY <1>7, FS_Union
  <2> HIDE DEF N, J, r
  <2>3. IsFiniteSet(S)
    BY <2>2, FS_Subset
  <2> HIDE DEF S
  <2> QED
    BY <2>1, <2>3, SortedList
<1>9. /\ \A f \in ToSet(fs) : f.probe \in {"dns.mx", "dns.ns"} => Attr(f, "host") \in N
      /\ \A f \in ToSet(fs) : f.probe \in {"http.third_party", "dns.subdomain"} => f.subject \in J
  <2> SUFFICES ASSUME NEW f \in ToSet(fs)
               PROVE  /\ f.probe \in {"dns.mx", "dns.ns"} => Attr(f, "host") \in N
                      /\ f.probe \in {"http.third_party", "dns.subdomain"} => f.subject \in J
    OBVIOUS
  <2>1. PICK i \in Rows(fs, f.probe) : fs[i] = f
    BY <1>0, RowAt
  <2> QED
    BY <2>1 DEF HostsNamed, SubjectsNamed
<1>10. ASSUME "dns" \in c.probes
       PROVE  M \cup x.ns \cup (IF Wildcard(x) THEN {} ELSE {h \in x.subs : Resolve(x, h) # <<>>})
                \subseteq N \cup J
  <2>1. SeenBy(x, "dns", ToSet(fs))
    BY <1>10, RegisteredNames
  <2>2. /\ \A m \in x.mx : \E f \in ToSet(fs) : f.probe = "dns.mx" /\ Attr(f, "host") = m.host
        /\ \A h \in x.ns : nsFinding(x, h) \in ToSet(fs)
        /\ ~Wildcard(x) => \A h \in {g \in x.subs : Resolve(x, g) # <<>>} :
                             \E f \in ToSet(fs) : f.probe = "dns.subdomain" /\ f.subject = h
    BY <2>1 DEF SeenBy
  <2> HIDE DEF N, J
  <2>3. \A m \in x.mx : m.host \in N
    BY <1>9, <2>2
  <2>4. \A h \in x.ns : h \in N
    BY <1>9, <2>2, NsHost
  <2>5. ~Wildcard(x) => \A h \in {g \in x.subs : Resolve(x, g) # <<>>} : h \in J
    BY <1>9, <2>2
  <2> QED
    BY <2>3, <2>4, <2>5
<1>11. ASSUME "tls" \in c.probes PROVE x.ct \subseteq J
  <2>1. SeenBy(x, "tls", ToSet(fs))
    BY <1>11, RegisteredNames
  <2>2. \A h \in x.ct : \E f \in ToSet(fs) : f.probe = "dns.subdomain" /\ f.subject = h
    BY <2>1 DEF SeenBy
  <2> QED
    BY <1>9, <2>2
<1>12. ASSUME "http" \in c.probes PROVE third \subseteq J
  <2>1. SeenBy(x, "http", ToSet(fs))
    BY <1>12, RegisteredNames
  <2>2. \A h \in third : \E f \in ToSet(fs) : f.probe = "http.third_party" /\ f.subject = h
    BY <2>1 DEF SeenBy, third
  <2> QED
    BY <1>9, <2>2
<1>13. HostsSeen(c) = {x.domain}
         \cup (IF "dns" \notin c.probes THEN {}
               ELSE M \cup x.ns
                    \cup (IF Wildcard(x) THEN {} ELSE {h \in x.subs : Resolve(x, h) # <<>>}))
         \cup (IF "tls" \notin c.probes THEN {} ELSE x.ct)
         \cup (IF "http" \notin c.probes THEN {} ELSE third)
  BY DEF HostsSeen, third
<1>14. HostsReached(c, S)
  <2> HIDE DEF N, J, M
  <2>1. \A h \in HostsSeen(c) : h = x.domain \/ h \in N \cup J
    BY <1>10, <1>11, <1>12, <1>13
  <2> QED
    BY <2>1 DEF HostsReached
<1> HIDE DEF S, r
<1> QED
  BY <1>6, <1>8, <1>14 DEF r, A

\* The ip probe on one host.
LEMMA IpHostSeen ==
  ASSUME NEW c, IsWorld(c.world), c.world.geoip,
         NEW h \in HostsAsked(Readable(c.world), "no_us_hyperscaler")
  PROVE  LET u == ipHost(c.world, {}, h)
         IN  /\ ExactList(c, u)
             /\ \A g \in ToSet(Resolve(c.world, h)) :
                  \E f \in ToSet(u) : f.probe = "ip.asn" /\ f.subject = h /\ SaysOf(f, g)
<1> DEFINE x == c.world
           s == Resolve(x, h)
           A(a) == Finding("ip.asn", h, [address |-> a.addr, organisation |-> a.org,
                                         country |-> a.country])
           N == Finding("ip.resolve", h, [error |-> "failed"])
           t == [i \in DOMAIN s |-> A(s[i])]
<1>1. ipHost(x, {}, h) = IF s = <<>> THEN <<N>> ELSE t
  BY DEF ipHost, Each
<1>2. \A a : A(a).probe = "ip.asn" /\ A(a).subject = h /\ SaysOf(A(a), a)
  <2> SUFFICES ASSUME NEW a
               PROVE  A(a).probe = "ip.asn" /\ A(a).subject = h /\ SaysOf(A(a), a)
    OBVIOUS
  <2>1. /\ A(a).probe = "ip.asn" /\ A(a).subject = h
        /\ A(a).attrs = [address |-> a.addr, organisation |-> a.org, country |-> a.country]
    BY FindingFields
  <2> HIDE DEF A
  <2>2. /\ "organisation" \in DOMAIN A(a).attrs /\ A(a).attrs["organisation"] = a.org
        /\ "country" \in DOMAIN A(a).attrs /\ A(a).attrs["country"] = a.country
    BY <2>1
  <2> QED
    BY <2>1, <2>2 DEF SaysOf, Attr
<1>3. \A a : ExactRow(c, A(a))
  <2> HIDE DEF A
  <2> QED
    BY <1>2 DEF ExactRow
<1>4. N.probe = "ip.resolve"
  BY FindingFields
<1>5. IsList(s) /\ \A a \in ToSet(s) : \E i \in DOMAIN s : s[i] = a
  BY ResolveList, ListDomain
<1>6. CASE s = <<>>
  <2> HIDE DEF N
  <2>1. ExactList(c, <<N>>)
    BY <1>4, OtherRow, ExactOne DEF ExactProbes
  <2>2. ToSet(s) = {}
    BY <1>6, NoList
  <2> QED
    BY <1>1, <1>6, <2>1, <2>2
<1>7. CASE s # <<>>
  <2>1. t = [i \in DOMAIN s |-> t[i]] /\ \A i \in DOMAIN s : t[i] = A(s[i])
    OBVIOUS
  <2>2. ipHost(x, {}, h) = t
    BY <1>1, <1>7
  <2> HIDE DEF t, A, s
  <2>3. /\ IsList(t) /\ \A f \in ToSet(t) : \E i \in DOMAIN s : f = t[i]
        /\ \A i \in DOMAIN s : t[i] \in ToSet(t)
    BY <1>5, <2>1, EachList
  <2>4. ExactList(c, t)
    BY <1>3, <2>1, <2>3 DEF ExactList
  <2>5. \A g \in ToSet(s) : \E f \in ToSet(t) : f.probe = "ip.asn" /\ f.subject = h /\ SaysOf(f, g)
    BY <1>2, <1>5, <2>1, <2>3
  <2> QED
    BY <2>2, <2>4, <2>5 DEF s
<1> QED
  BY <1>6, <1>7

\* The second pass locates every address of every host the first one led to.
LEMMA IpSeen ==
  ASSUME NEW c, IsWorld(c.world), NEW r, IsList(r),
         ToSet(r) \subseteq HostsAsked(Readable(c.world), "no_us_hyperscaler"),
         HostsReached(c, ToSet(r))
  PROVE  ExactList(c, ipRun(c.world, {}, r)) /\ AddressesSeen(c, ToSet(ipRun(c.world, {}, r)))
<1> DEFINE x == c.world
           why == [reason |-> "no geoip database"]
           U == Finding("ip.unavailable", x.domain, why)
           n == Len(r) + 1
           H(k) == IF k = 1 THEN x.domain ELSE r[k - 1]
           ss == [k \in 1 .. n |-> ipHost(x, {}, H(k))]
           A == HostsAsked(Readable(x), "no_us_hyperscaler")
           Sees(h, T) == \A g \in ToSet(Resolve(x, h)) :
                           \E f \in T : f.probe = "ip.asn" /\ f.subject = h /\ SaysOf(f, g)
<1>1. /\ ~x.geoip => ipRun(x, {}, r) = <<U>>
      /\ x.geoip => ipRun(x, {}, r) = FlattenSeq(ss)
  BY DEF ipRun
<1> HIDE DEF why
<1>2. CASE ~x.geoip
  <2>1. U.probe = "ip.unavailable"
    BY FindingFields
  <2> HIDE DEF U
  <2>2. ExactList(c, <<U>>)
    BY <2>1, OtherRow, ExactOne DEF ExactProbes
  <2>3. AddressesSeen(c, ToSet(<<U>>))
    BY <1>2 DEF AddressesSeen
  <2> QED
    BY <1>1, <1>2, <2>2, <2>3
<1>3. CASE x.geoip
  <2>1. n \in Nat /\ DOMAIN r = 1 .. Len(r) /\ Len(r) \in Nat
        /\ (\A i \in DOMAIN r : r[i] \in ToSet(r)) /\ \A h \in ToSet(r) : \E i \in DOMAIN r : r[i] = h
    BY ListDomain
  <2>2. x.domain \in A
    BY ReadableFields
  <2>3. \A k \in 1 .. n : H(k) \in A
    <3>1. \A k \in 1 .. n : k # 1 => k - 1 \in DOMAIN r
      BY <2>1
    <3> HIDE DEF A
    <3> QED
      BY <3>1, <2>1, <2>2 DEF A
  <2>a. /\ 1 \in 1 .. n /\ H(1) = x.domain
        /\ \A i \in DOMAIN r : i + 1 \in 1 .. n /\ i + 1 # 1 /\ (i + 1) - 1 = i
    BY <2>1
  <2>b. \A i \in DOMAIN r : H(i + 1) = r[i]
    BY <2>a
  <2>4. \A h \in HostsSeen(c) : h # "" => \E k \in 1 .. n : H(k) = h
    <3> HIDE DEF H, n
    <3> SUFFICES ASSUME NEW h \in HostsSeen(c), h # "" PROVE \E k \in 1 .. n : H(k) = h
      OBVIOUS
    <3>1. CASE h = x.domain
      BY <2>a, <3>1
    <3>2. CASE h # x.domain
      <4>1. h \in ToSet(r)
        BY <3>2 DEF HostsReached
      <4>2. PICK i \in DOMAIN r : r[i] = h
        BY <2>1, <4>1
      <4> QED
        BY <2>a, <2>b, <4>2, Zenon
    <3> QED
      BY <3>1, <3>2
  <2>5. \A k \in 1 .. n : ss[k] = ipHost(x, {}, H(k))
    OBVIOUS
  <2>6. ss = [k \in 1 .. n |-> ss[k]]
    OBVIOUS
  <2> HIDE DEF H, n, ss
  <2>7. \A k \in 1 .. n : ExactList(c, ss[k]) /\ Sees(H(k), ToSet(ss[k]))
    BY <1>3, <2>3, <2>5, IpHostSeen
  <2>8. IsList(ss) /\ DOMAIN ss = 1 .. n
    BY <2>1, <2>6, ListOf
  <2> DEFINE T == ToSet(FlattenSeq(ss))
  <2>9. IsList(FlattenSeq(ss)) /\ T = UNION {ToSet(ss[k]) : k \in 1 .. n}
    BY <2>7, <2>8, FlattenList DEF ExactList
  <2>10. (\A f \in T : \E k \in 1 .. n : f \in ToSet(ss[k])) /\ \A k \in 1 .. n : ToSet(ss[k]) \subseteq T
    BY <2>9
  <2>11. ExactList(c, FlattenSeq(ss))
    BY <2>7, <2>9, <2>10 DEF ExactList
  <2> HIDE DEF T
  <2>12. \A h \in HostsSeen(c) : h # "" => Sees(h, T)
    <3> SUFFICES ASSUME NEW h \in HostsSeen(c), h # "" PROVE Sees(h, T)
      OBVIOUS
    <3>1. PICK k \in 1 .. n : H(k) = h
      BY <2>4
    <3>2. Sees(h, ToSet(ss[k])) /\ ToSet(ss[k]) \subseteq T
      BY <2>7, <2>10, <3>1
    <3> QED
      BY <3>2
  <2>13. AddressesSeen(c, T)
    BY <2>12 DEF AddressesSeen
  <2> QED
    BY <1>1, <1>3, <2>11, <2>13 DEF T
<1> QED
  BY <1>2, <1>3

\* scan.Findings holds what each probe returned, and nothing else.
LEMMA MemorySeen ==
  ASSUME NEW m, \A p \in ToSet(Registered) : IsList(m[p])
  PROVE  /\ \A p \in ToSet(Registered) : ToSet(m[p]) \subseteq ToSet(InMemory(m))
         /\ \A f \in ToSet(InMemory(m)) : \E p \in ToSet(Registered) : f \in ToSet(m[p])
<1> DEFINE ss == [k \in DOMAIN Registered |-> m[Registered[k]]]
<1>1. DOMAIN Registered = 1 .. 7
  BY DEF Registered
<1>2. \A k \in 1 .. 7 : Registered[k] \in ToSet(Registered) /\ ss[k] = m[Registered[k]]
  BY <1>1 DEF ToSet
<1>3. \A p \in ToSet(Registered) : \E k \in 1 .. 7 : Registered[k] = p
  BY <1>1 DEF ToSet
<1>4. ss = [k \in 1 .. 7 |-> ss[k]]
  BY <1>1
<1> HIDE DEF ss
<1>5. IsList(ss) /\ DOMAIN ss = 1 .. 7
  BY <1>4, ListOf
<1>6. \A k \in 1 .. 7 : IsList(ss[k])
  BY <1>2
<1>7. ToSet(FlattenSeq(ss)) = UNION {ToSet(ss[k]) : k \in 1 .. 7}
  BY <1>5, <1>6, FlattenList
<1>8. InMemory(m) = FlattenSeq(ss)
  BY DEF InMemory, ss
<1> QED
  BY <1>2, <1>3, <1>7, <1>8

(***************************************************************************)
(* Nothing is missed, always.                                              *)
(***************************************************************************)
\* More exact rows behind the stored ones.
LEMMA MoreSeen ==
  ASSUME NEW c, NEW s, NEW out, ExactList(c, s), ExactList(c, out)
  PROVE  /\ ExactList(c, s \o out)
         /\ \A x, p : SeenBy(x, p, ToSet(s)) \/ SeenBy(x, p, ToSet(out))
                        => SeenBy(x, p, ToSet(s \o out))
         /\ AddressesSeen(c, ToSet(s)) \/ AddressesSeen(c, ToSet(out))
              => AddressesSeen(c, ToSet(s \o out))
<1> DEFINE u == s \o out
<1>1. ExactList(c, u) /\ ToSet(s) \subseteq ToSet(u) /\ ToSet(out) \subseteq ToSet(u)
  BY ExactConcat
<1> HIDE DEF u
<1>2. \A x, p : SeenBy(x, p, ToSet(s)) \/ SeenBy(x, p, ToSet(out)) => SeenBy(x, p, ToSet(u))
  BY <1>1, SeenMore
<1>3. AddressesSeen(c, ToSet(s)) \/ AddressesSeen(c, ToSet(out)) => AddressesSeen(c, ToSet(u))
  BY <1>1 DEF AddressesSeen
<1> QED
  BY <1>1, <1>2, <1>3 DEF u

\* A scan starts with nothing to miss.
LEMMA NothingMissedInit == Init => NothingMissed
<1> SUFFICES ASSUME Init, case.kind = "perimeter", failed = {} PROVE NothingMissed
  BY DEF NothingMissed
<1>1. pending = case.probes /\ phase = "pass1"
  BY DEF Init
<1>2. \A f \in ToSet(rows) : ExactRow(case, f)
  <2> DEFINE e == expectedRegistrantFinding(case.world.domain, case.expected)
  <2>1. rows = <<>> \/ rows = <<e>>
    BY DEF Init
  <2>2. e.probe = "config.expected_registrant"
    BY FindingFields DEF expectedRegistrantFinding
  <2> HIDE DEF e
  <2>3. ExactList(case, <<e>>)
    BY <2>2, OtherRow, ExactOne DEF ExactProbes
  <2> QED
    BY <2>1, <2>3, NoList DEF ExactList
<1>3. \A q \in DOMAIN mem : \A f \in ToSet(mem[q]) : ExactRow(case, f)
  <2>1. \A q \in DOMAIN mem : mem[q] = <<>>
    BY DEF Init
  <2> QED
    BY <2>1, NoList
<1>4. (ToSet(Registered) \cap case.probes) \ pending = {}
  BY <1>1
<1> QED
  BY <1>1, <1>2, <1>3, <1>4 DEF NothingMissed

\* Every step misses nothing.
LEMMA NothingMissedNext == IInv /\ NothingMissed /\ [Next]_vars => NothingMissed'
<1> SUFFICES ASSUME IInv, NothingMissed, [Next]_vars,
                    case'.kind = "perimeter", failed' = {}
             PROVE  NothingMissed'
  BY DEF NothingMissed
<1>1. case' = case /\ failed' = failed /\ case.kind = "perimeter" /\ failed = {}
  BY DEF Next, FinishProbe, SecondPass, Synthesise, HolderLookups, InspectHost, AssessScan, vars
<1> DEFINE P == ToSet(Registered) \cap case.probes
           D == ToSet(Registered) \cup {"ip"}
<1>2. /\ case \in Cases /\ pending \subseteq case.probes /\ FaithfulList(case, rows)
      /\ mem = [p \in D |-> mem[p]] /\ \A p \in D : FaithfulList(case, mem[p])
  <2>1. RowsAreTrue
    BY DEF IInv
  <2>2. DOMAIN mem = D
    BY <1>1, <2>1 DEF RowsAreTrue
  <2> QED
    BY <1>1, <2>1, <2>2 DEF RowsAreTrue
<1>3. IsWorld(case.world)
  BY <1>1, <1>2, WorldsAssumption
<1>4. /\ ExactList(case, rows)
      /\ \A q \in D : ExactList(case, mem[q])
      /\ \A p \in P \ pending :
           SeenBy(case.world, p, ToSet(rows)) /\ SeenBy(case.world, p, ToSet(mem[p]))
      /\ phase # "pass1" => pending = {} /\ AddressesSeen(case, ToSet(rows))
  <2>1. DOMAIN mem = D
    BY <1>2
  <2> QED
    BY <1>1, <1>2, <2>1 DEF NothingMissed, ExactList, FaithfulList, w
<1> DEFINE Kept == /\ ExactList(case, rows')
                   /\ DOMAIN mem' = D /\ \A q \in D : ExactList(case, mem'[q])
                   /\ \A p \in P \ pending' : SeenBy(case.world, p, ToSet(rows'))
                                              /\ SeenBy(case.world, p, ToSet(mem'[p]))
                   /\ phase' # "pass1" => pending' = {} /\ AddressesSeen(case, ToSet(rows'))
<1>5. Kept => NothingMissed'
  BY <1>1 DEF NothingMissed, ExactList, w
<1>6. DOMAIN mem = D /\ "ip" \in D /\ "ip" \notin ToSet(Registered) /\ ToSet(Registered) \subseteq D
  BY <1>2, RegisteredNames
<1> HIDE DEF D
<1>7. ASSUME NEW p \in ToSet(Registered), FinishProbe(p) PROVE Kept
  <2>1. PICK out \in RunProbe(p) : mem' = [mem EXCEPT ![p] = out] /\ rows' = rows \o out
    BY <1>7 DEF FinishProbe
  <2>2. pending' = pending \ {p} /\ phase' = "pass1"
    BY <1>7 DEF FinishProbe
  <2>3. ExactList(case, out) /\ SeenBy(case.world, p, ToSet(out))
    BY <1>1, <1>3, ProbeSeen
  <2>4. /\ DOMAIN mem' = D /\ mem'[p] = out /\ \A q \in D : q # p => mem'[q] = mem[q]
    BY <1>2, <1>6, <2>1
  <2>5. /\ ExactList(case, rows')
        /\ \A x, q : SeenBy(x, q, ToSet(rows)) \/ SeenBy(x, q, ToSet(out))
                       => SeenBy(x, q, ToSet(rows'))
    BY <1>4, <2>1, <2>3, MoreSeen
  <2>6. \A q \in D : ExactList(case, mem'[q])
    BY <1>4, <2>3, <2>4
  <2>7. ASSUME NEW q \in P \ pending'
        PROVE  SeenBy(case.world, q, ToSet(rows')) /\ SeenBy(case.world, q, ToSet(mem'[q]))
    <3>1. CASE q = p
      BY <2>3, <2>4, <2>5, <3>1
    <3>2. CASE q # p
      <4>1. q \in P \ pending /\ mem'[q] = mem[q]
        BY <1>6, <2>2, <2>4, <2>7, <3>2
      <4> QED
        BY <1>4, <2>5, <4>1
    <3> QED
      BY <3>1, <3>2
  <2> QED
    BY <2>2, <2>4, <2>5, <2>6, <2>7
<1>8. ASSUME SecondPass PROVE Kept
  <2> DEFINE fs == InMemory(mem)
             r == expandRelatedFromFindings(case.world.domain, fs)
             out == ipRun(case.world, {}, r)
  <2>1. /\ mem' = [mem EXCEPT !["ip"] = out] /\ rows' = rows \o out
        /\ pending' = pending /\ pending = {}
    BY <1>1, <1>8 DEF SecondPass, w
  <2> HIDE DEF fs
  <2>2. FaithfulList(case, fs)
    BY <1>2, <1>6, MemoryTrue DEF fs
  <2>3. /\ \A p \in ToSet(Registered) : ToSet(mem[p]) \subseteq ToSet(fs)
        /\ \A f \in ToSet(fs) : \E p \in ToSet(Registered) : f \in ToSet(mem[p])
    <3>1. \A p \in ToSet(Registered) : IsList(mem[p])
      BY <1>4, <1>6 DEF ExactList
    <3> QED
      BY <3>1, MemorySeen DEF fs
  <2>4. \A f \in ToSet(fs) : ExactRow(case, f)
    BY <1>4, <1>6, <2>3 DEF ExactList
  <2>5. \A p \in P : SeenBy(case.world, p, ToSet(fs))
    BY <1>4, <2>1, <2>3, SeenMore
  <2>6. /\ IsList(r) /\ ToSet(r) \subseteq HostsAsked(Readable(case.world), "no_us_hyperscaler")
        /\ HostsReached(case, ToSet(r))
    BY <1>3, <2>2, <2>4, <2>5, RelatedSeen
  <2> HIDE DEF r
  <2>7. ExactList(case, out) /\ AddressesSeen(case, ToSet(out))
    BY <1>3, <2>6, IpSeen
  <2> HIDE DEF out
  <2>8. /\ ExactList(case, rows') /\ AddressesSeen(case, ToSet(rows'))
        /\ \A x, q : SeenBy(x, q, ToSet(rows)) => SeenBy(x, q, ToSet(rows'))
    BY Zenon, <1>4, <2>1, <2>7, MoreSeen
  <2>9. DOMAIN mem' = D /\ mem'["ip"] = out /\ \A q \in D : q # "ip" => mem'[q] = mem[q]
    BY <1>2, <1>6, <2>1
  <2>10. \A q \in D : ExactList(case, mem'[q])
    BY <1>4, <2>7, <2>9
  <2>11. ASSUME NEW q \in P \ pending'
         PROVE  SeenBy(case.world, q, ToSet(rows')) /\ SeenBy(case.world, q, ToSet(mem'[q]))
    <3>1. q \in P \ pending /\ mem'[q] = mem[q]
      BY <1>6, <2>1, <2>9
    <3> QED
      BY <1>4, <2>8, <3>1
  <2> QED
    BY <2>1, <2>8, <2>9, <2>10, <2>11
<1>9. ASSUME NEW out, ExactList(case, out), rows' = rows \o out, mem' = mem,
             pending' = pending, phase # "pass1"
      PROVE  Kept
  <2>1. /\ ExactList(case, rows') /\ AddressesSeen(case, ToSet(rows'))
        /\ \A x, q : SeenBy(x, q, ToSet(rows)) => SeenBy(x, q, ToSet(rows'))
    BY <1>4, <1>9, MoreSeen
  <2> QED
    BY <1>4, <1>6, <1>9, <2>1
<1>10. ASSUME Synthesise PROVE Kept
  <2> DEFINE out == syntheses(case.world.domain, InMemory(mem) \o mem["ip"])
  <2>1. rows' = rows \o out /\ mem' = mem /\ pending' = pending /\ phase # "pass1"
    BY <1>10 DEF Synthesise, w
  <2>2. ExactList(case, out)
    BY SynthesesExact
  <2> HIDE DEF out, Kept
  <2> QED
    BY <1>9, <2>1, <2>2
<1>11. ASSUME HolderLookups PROVE Kept
  <2> DEFINE out == nsHolderFindings(case.world, {}, InMemory(mem))
  <2>1. rows' = rows \o out /\ mem' = mem /\ pending' = pending /\ phase # "pass1"
    BY <1>1, <1>11 DEF HolderLookups, w
  <2>2. IsList(InMemory(mem))
    BY <1>2, <1>6, MemoryTrue DEF FaithfulList
  <2>3. ExactList(case, out)
    BY <2>2, HoldersExact
  <2> HIDE DEF out, Kept
  <2> QED
    BY <1>9, <2>1, <2>3
<1>12. ASSUME NEW day \in Days, AssessScan(day) PROVE Kept
  <2>1. rows' = rows /\ mem' = mem /\ pending' = pending /\ phase' = phase
    BY <1>12 DEF AssessScan
  <2> QED
    BY <1>4, <1>6, <2>1
<1>13. ASSUME UNCHANGED vars PROVE Kept
  <2>1. rows' = rows /\ mem' = mem /\ pending' = pending /\ phase' = phase
    BY <1>13 DEF vars
  <2> QED
    BY <1>4, <1>6, <2>1
<1>14. ~InspectHost
  BY <1>1 DEF InspectHost
<1> HIDE DEF Kept
<1> QED
  BY <1>5, <1>7, <1>8, <1>10, <1>11, <1>12, <1>13, <1>14 DEF Next

\* When no lookup fails, a scan misses nothing: each probe leaves a row for
\* everything it looks for, in the store and in memory, whatever the order
\* they finish in (runPassConcurrent), and the second pass locates every host
\* the first one led to and no other (expandRelatedFromFindings).
THEOREM ScansMissNothing == Spec => []NothingMissed
<1>1. Init => IInv /\ NothingMissed
  BY IInvInit, NothingMissedInit
<1>2. IInv /\ NothingMissed /\ [Next]_vars => (IInv /\ NothingMissed)'
  BY IInvNext, NothingMissedNext
<1> QED
  BY <1>1, <1>2, PTL DEF Spec

\* What an assessment of such a scan reads misses nothing either.
LEMMA RowsFull ==
  ASSUME IInv, NothingMissed, Perimeter, failed = {}
  PROVE  FullReadings(case, FindingsForAssessment(rows, case.world))
<1> DEFINE x == case.world
           t == LatestImportFindings(x)
           fs == FindingsForAssessment(rows, x)
<1>1. IsWorld(x) /\ Readings(case, fs)
  BY VerdictRead
<1>2. case.kind = "perimeter" /\ phase = "done" /\ FaithfulList(case, rows)
  BY DEF Perimeter, IInv, VerdictIsOfRows, RowsAreTrue
<1>3. /\ \A f \in ToSet(rows) : ExactRow(case, f)
      /\ \A p \in ToSet(Registered) \cap case.probes : SeenBy(x, p, ToSet(rows))
      /\ AddressesSeen(case, ToSet(rows))
  BY <1>2 DEF NothingMissed, w
<1>4. IsList(rows) /\ IsList(t)
  BY <1>1, <1>2, ImportRows DEF FaithfulList
<1>5. ToSet(fs) = ToSet(rows) \cup ToSet(t)
  BY <1>4, Concat DEF FindingsForAssessment
<1>6. \A f \in ToSet(t) : ExactRow(case, f)
  <2> SUFFICES ASSUME NEW f \in ToSet(t) PROVE ExactRow(case, f)
    OBVIOUS
  <2>1. PICK d : Current(x, d) /\ f \in ToSet(NetnlFindings(x, d))
    BY <1>1, ImportRows
  <2>2. IsList(d.results)
    BY <1>1, <2>1, CurrentResults
  <2>3. f = StatusRow(x, d) \/ \E r \in ToSet(d.results) : f = ImportRow(x, d, r)
    BY <2>1, <2>2, NetnlRows
  <2>4. StatusRow(x, d).probe = "internetnl" /\ \A r : ImportRow(x, d, r).probe = "internetnl"
    BY DEF StatusRow, ImportRow, Finding
  <2>5. f.probe = "internetnl"
    BY <2>3, <2>4
  <2> QED
    BY <2>5, OtherRow DEF ExactProbes
<1> HIDE DEF fs, t
<1>7. (\A f \in ToSet(fs) : ExactRow(case, f)) /\ ToSet(rows) \subseteq ToSet(fs)
  BY <1>3, <1>5, <1>6
<1>8. \A p \in ToSet(Registered) \cap case.probes : SeenBy(x, p, ToSet(fs))
  BY <1>3, <1>7, SeenMore
<1>9. AddressesSeen(case, ToSet(fs))
  BY <1>3, <1>7 DEF AddressesSeen
<1>10. FullReadings(case, fs)
  BY <1>1, <1>7, <1>8, <1>9 DEF FullReadings, Complete
<1> QED
  BY <1>10 DEF fs

\* VerdictIsTrue, for every world: when no lookup fails, the verdicts on where
\* hosts are, who runs them and where the doors lead are what it deserves.
THEOREM VerdictsAreTrue == Spec => []VerdictIsTrue
<1>1. IInv /\ NothingMissed => VerdictIsTrue
  <2> SUFFICES ASSUME IInv, NothingMissed, Perimeter, failed = {},
                      NEW id \in case.asks \cap AskedRules
               PROVE  Wand(id) = Truth(w, id)
    BY DEF VerdictIsTrue
  <2> DEFINE fs == FindingsForAssessment(rows, case.world)
  <2>1. FullReadings(case, fs)
    BY RowsFull
  <2>2. verdict.wand = wandDefaultRules(fs, now)
    BY VerdictRead
  <2>3. case.kind = "perimeter" /\ case \in Cases
    BY DEF Perimeter, IInv, RowsAreTrue
  <2> HIDE DEF fs
  <2>4. ScoreOf(wandDefaultRules(fs, now), id) = Truth(case.world, id)
    BY <2>1, <2>3, VerdictsTold
  <2> QED
    BY <2>2, <2>4 DEF Wand, w
<1> QED
  BY <1>1, RowsTrueAlways, ScansMissNothing, PTL
=============================================================================
