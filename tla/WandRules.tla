----------------------------- MODULE WandRules -----------------------------
(***************************************************************************)
(* The "wand" rule pack (internal/assessor/wand): every rule of            *)
(* DefaultRules as an operator from the stored findings to a result.       *)
(*                                                                         *)
(* Data is abstracted to what the rules tell apart.  Host names are        *)
(* compared as they are (the code folds case and drops the trailing dot).  *)
(* An AS organisation, a vendor or a package is a name of a small set; the *)
(* code's substring tables are sets of such names.  A registrant name is   *)
(* the sequence of its words.  A date is <<"ok", day>>, or <<"bad", 0>>    *)
(* when RFC 3339 parsing fails; `now' is the day the assessment runs on,   *)
(* the time.Now() of three of the rules.                                   *)
(***************************************************************************)
EXTENDS Assessor

EUCountries == {"AT", "BE", "BG", "HR", "CY", "CZ", "DK", "EE", "FI", "FR",
                "DE", "GR", "HU", "IE", "IT", "LV", "LT", "LU", "MT", "NL",
                "PL", "PT", "RO", "SK", "SI", "ES", "SE"}
eeaCountries == EUCountries \cup {"IS", "LI", "NO"}

knownUSHyperscalerOrgs == {"Amazon", "Google", "Microsoft", "Cloudflare",
                           "Akamai", "Fastly"}
usHyperscalerOrg(org) == org \in knownUSHyperscalerOrgs

(***************************************************************************)
(* Jurisdiction of a set of hosts, from their ip.asn rows.                 *)
(***************************************************************************)
AsnRows(fs, hosts) == {i \in Rows(fs, "ip.asn") : fs[i].subject \in hosts}

WithCountry(fs, I) == {i \in I : Attr(fs[i], "country") # ""}
InEEA(fs, I)       == {i \in I : Attr(fs[i], "country") \in eeaCountries}

\* Rows with an operator and no country: the anycast case.
NoCountry(fs, I) == {i \in I : /\ Attr(fs[i], "country") = ""
                               /\ Attr(fs[i], "organisation") # ""}

noCountryResult(fs, I) ==
  LET N == NoCountry(fs, I)
  IN  IF \E i \in N : usHyperscalerOrg(Attr(fs[i], "organisation"))
      THEN Scored(Afhankelijk, N)
      ELSE Scored(Onbekend, N)

\* Mutant: no row with a country is all rows inside the EEA.
jurisdictionTallyVacuous(fs, I, also) ==
  LET seen == WithCountry(fs, I)
  IN  Scored(Share(InEEA(fs, seen), seen), seen \cup also)

\* jurisdictionTally: I are the rows of the hosts, also are the rows that
\* named the hosts, cited beside them.
jurisdictionTally(fs, I, also) ==
  LET seen == WithCountry(fs, I)
  IN  IF seen = {} THEN noCountryResult(fs, I)
      ELSE Scored(Share(InEEA(fs, seen), seen), seen \cup also)

\* The names in a list, each once, in its order, the empty ones left out.
Distinct(names) ==
  LET first == Ascending({k \in DOMAIN names :
                            names[k] # "" /\ \A j \in 1 .. k - 1 : names[j] # names[k]})
  IN  [n \in DOMAIN first |-> names[first[n]]]

\* The entries of the first row a synthesis wrote, if it wrote one.
Entries(fs, p, list) ==
  IF Has(fs, p) THEN fs[FirstRow(Rows(fs, p))].attrs[list] ELSE <<>>

\* The operators a synthesis row names.
observedOperators(fs, p) ==
  LET routes == Entries(fs, p, "routes")
  IN  Distinct([k \in DOMAIN routes |-> routes[k].operator])

\* No operator leads a verdict that came from one without a country.
LedBy(fs, I, res, names) ==
  IF WithCountry(fs, I) = {} THEN res ELSE [res EXCEPT !.lead = names]

\* The hosts rows of probe p name in their "host" attribute; the last row
\* of a host is the one a map keeps.
HostRows(fs, p) == {i \in Rows(fs, p) : Attr(fs[i], "host") # ""}
HostsOf(fs, I)  == {Attr(fs[i], "host") : i \in I}
LastPerHost(fs, I) == {i \in I : \A j \in I :
                         Attr(fs[j], "host") = Attr(fs[i], "host") => j <= i}

(***************************************************************************)
(* juridisch                                                               *)
(***************************************************************************)
registrarJurisdiction(fs) ==
  LET I == {i \in Rows(fs, "whois.registrant") : Attr(fs[i], "country") # ""}
  IN  IF I = {} THEN NoEvidence
      ELSE LET i == FirstRow(I)
           IN  Scored(IF Attr(fs[i], "country") \in eeaCountries
                      THEN Soeverein ELSE Afhankelijk, {i})

certIssuerEEA(fs) ==
  LET I == {i \in Rows(fs, "tls.issuer") : Strs(fs[i], "issuer_country") # {}}
      chain == Rows(fs, "tls.chain_geography")
      ca == IF chain = {} THEN "" ELSE Attr(fs[FirstRow(chain)], "ca")
  IN  IF I = {} THEN NoEvidence
      ELSE LET i == FirstRow(I)
               C == Strs(fs[i], "issuer_country")
           IN  [Scored(Share(C \cap eeaCountries, C), {i})
                  EXCEPT !.lead = IF ca = "" THEN <<>> ELSE <<ca>>]

\* The apex is the subject of the first address row, whatever it says.
Apex(fs) == LET I == Rows(fs, "dns.a") \cup Rows(fs, "dns.aaaa")
            IN  IF I = {} THEN "" ELSE fs[FirstRow(I)].subject

apexIPInEEA(fs) ==
  LET I == AsnRows(fs, {Apex(fs)})
  IN  IF Apex(fs) = "" THEN NoEvidence
      ELSE LedBy(fs, I, jurisdictionTally(fs, I, {}),
                 observedOperators(fs, "ip.hosting"))

\* The mail and the name server rule differ only in the rows they read.
HostVendorJurisdiction(fs, p, synthesis) ==
  LET H == HostRows(fs, p)
      I == AsnRows(fs, HostsOf(fs, H))
  IN  IF H = {} THEN NoEvidence
      ELSE LedBy(fs, I, jurisdictionTally(fs, I, LastPerHost(fs, H)),
                 observedOperators(fs, synthesis))

mxVendorJurisdiction(fs) ==
  HostVendorJurisdiction(fs, "dns.mx", "dns.mx_routing")

nsVendorJurisdiction(fs) ==
  HostVendorJurisdiction(fs, "dns.ns", "dns.ns_hosting")

\* The destination is the last of the highest-numbered hops that answered
\* with a country; only its country scores.
transitEUPath(fs) ==
  LET hops == {i \in Rows(fs, "transit.hop") :
                 IsEvidenceLike(fs[i]) /\ Attr(fs[i], "country") # ""}
      Before(i, j) == \/ fs[i].attrs.hop < fs[j].attrs.hop
                      \/ fs[i].attrs.hop = fs[j].attrs.hop /\ i <= j
  IN  IF hops = {} THEN NoEvidence
      ELSE LET dest == CHOOSE i \in hops : \A j \in hops : Before(j, i)
           IN  Scored(IF Attr(fs[dest], "country") \in eeaCountries
                      THEN Soeverein ELSE Afhankelijk, {dest})

(***************************************************************************)
(* operationeel                                                            *)
(***************************************************************************)
certValidity(fs) ==
  LET I == Rows(fs, "tls.validity")
  IN  IF I = {} THEN NoEvidence
      ELSE LET i == FirstRow(I)
           IN  Scored(IF Flag(fs[i], "expired") THEN Afhankelijk
                      ELSE IF Flag(fs[i], "expiring_soon") THEN Voldoende
                      ELSE Soeverein, {i})

dnsRedundancyMinNameservers == 2

dnsRedundancy(fs) ==
  LET I == HostRows(fs, "dns.ns")
  IN  IF I = {} THEN NoEvidence
      ELSE Scored(IF Cardinality(HostsOf(fs, I)) < dnsRedundancyMinNameservers
                  THEN Afhankelijk ELSE Voldoende, I)

caaRestricts(fs) ==
  LET I        == Rows(fs, "dns.caa")
      noAnswer == {i \in I : "no_answer" \in DOMAIN fs[i].attrs}
      hasCAA   == {i \in I \ noAnswer : /\ Attr(fs[i], "tag") \in {"issue", "issuewild"}
                                        /\ Attr(fs[i], "value") # ""}
  IN  IF hasCAA # {} THEN Scored(Voldoende, hasCAA \cup noAnswer)
      ELSE IF noAnswer # {} THEN Scored(Afhankelijk, noAnswer)
      ELSE NoEvidence

httpExposure(fs) ==
  LET sec  == {i \in Rows(fs, "http.security_headers") : IsEvidenceLike(fs[i])}
      resp == Rows(fs, "http.response")
      ev   == {LastRow(sec)} \cup (IF resp = {} THEN {} ELSE {LastRow(resp)})
      missing == Strs(fs[LastRow(sec)], "missing")
  IN  IF sec = {} THEN NoEvidence
      ELSE Scored(IF "Strict-Transport-Security" \in missing THEN Afhankelijk
                  ELSE IF missing # {} THEN Voldoende ELSE Soeverein, ev)

domainExpirySafeDays   == 90
domainExpiryUrgentDays == 30

domainExpiry(fs, now) ==
  LET I    == Rows(fs, "whois.expiry")
      gone == Rows(fs, "whois.unavailable")
      i    == LastRow(I)
      date == fs[i].attrs.date
      left == date[2] - now
  IN  IF I = {}
      THEN Unavailable(IF gone = {} THEN {} ELSE {LastRow(gone)})
      ELSE IF ~Flag(fs[i], "present")
      THEN Result(Onbekend, {i}, "not_published_by_registry")
      ELSE IF date[1] = "bad" THEN Scored(Onbekend, {i})
      ELSE Scored(IF left > domainExpirySafeDays THEN Soeverein
                  ELSE IF left > domainExpiryUrgentDays THEN Voldoende
                  ELSE Afhankelijk, {i})

\* variantConvergence reads the paths the variants probe recorded; a path
\* that was not tested or not followed for lack of budget is not observed.
familyHasDNSRecord(fs, family) ==
  LET p == IF family = "v4" THEN "dns.a" ELSE "dns.aaaa"
  IN  \E i \in Rows(fs, p) : IsEvidenceLike(fs[i])

variantConvergence(fs) ==
  LET I         == Rows(fs, "http.variants")
      gone      == Rows(fs, "http.variants.unavailable")
      i         == LastRow(I)
      paths     == fs[i].attrs.paths
      observed  == {k \in DOMAIN paths : paths[k].status
                      \notin {"not_tested", "not_followed_budget"}}
      reachable == {k \in observed : paths[k].status = "reachable"}
      plainHTTP == {k \in reachable : paths[k].scheme = "http"
                                      /\ paths[k].final.scheme = "http"}
      origins   == {paths[k].final : k \in reachable}
      Attempted(fam) == \E k \in observed : paths[k].family = fam
      Reached(fam)   == \E k \in reachable : paths[k].family = fam
      dead  == {fam \in {"v4", "v6"} : /\ Attempted(fam) /\ ~Reached(fam)
                                      /\ familyHasDNSRecord(fs, fam)}
      blind == \E k \in DOMAIN paths : /\ paths[k].status = "not_tested"
                                       /\ paths[k].reason = "scanner_no_ipv6"
  IN  IF I = {}
      THEN Unavailable(IF gone = {} THEN {} ELSE {LastRow(gone)})
      ELSE IF paths = <<>> THEN Unavailable({i})
      ELSE IF plainHTTP # {} \/ reachable = {} THEN Scored(Afhankelijk, {i})
      ELSE Result(IF Cardinality(origins) = 1 /\ dead = {}
                  THEN Soeverein ELSE Voldoende,
                  {i}, IF blind THEN "scanner_no_ipv6" ELSE "")

(***************************************************************************)
(* technologie and data_ai                                                 *)
(***************************************************************************)
\* Vendors the origin map saw outside the EEA; no country is undetermined,
\* not outside.
observedNonEEAVendors(fs) ==
  LET vendors == Entries(fs, "http.origin_map", "vendors")
      outside(v) == v.country \notin eeaCountries \cup {""}
  IN  Distinct([k \in DOMAIN vendors |-> IF outside(vendors[k]) THEN vendors[k].vendor ELSE ""])

thirdPartiesEEA(fs) ==
  LET T == Rows(fs, "http.third_party")
      hosts == {fs[i].subject : i \in T}
      last == {i \in T : \A j \in T : fs[j].subject = fs[i].subject => j <= i}
      I == AsnRows(fs, hosts)
      res == jurisdictionTally(fs, I, last)
  IN  IF T = {} THEN NoEvidence
      ELSE IF res.score = Soeverein THEN res
      ELSE LedBy(fs, I, res, observedNonEEAVendors(fs))

\* Evidence of absence is the first ip.asn row of any host.
noUSHyperscaler(fs) ==
  LET I == Rows(fs, "ip.asn")
      matched == {i \in I : usHyperscalerOrg(Attr(fs[i], "organisation"))}
      front   == Rows(fs, "http.cdn_front")
      edge    == IF front = {} THEN ""
                 ELSE IF Flag(fs[FirstRow(front)], "fronted")
                 THEN Attr(fs[FirstRow(front)], "edge") ELSE ""
  IN  IF I = {} THEN NoEvidence
      ELSE IF matched = {} THEN Scored(Voldoende, {FirstRow(I)})
      ELSE [Scored(Afhankelijk, matched)
              EXCEPT !.lead = IF edge = "" THEN <<>> ELSE <<edge>>]

mxPresent(fs) ==
  LET I == {i \in Rows(fs, "dns.mx") : IsEvidenceLike(fs[i])}
  IN  IF I = {} THEN NoEvidence ELSE Scored(Voldoende, I)

\* A placeholder until the egress probe names the identity provider.
oidcFederation(fs) == NoEvidence

(***************************************************************************)
(* accountability                                                          *)
(***************************************************************************)
\* registry_redaction.yaml and privacy_proxies.yaml, by representatives.
RegistryRedactionTLDs == {"nl"}
PrivacyProxyWords     == {"PROXY", "PRIVACY"}

\* A domain name is written label by label in no rule but this one: the
\* model's domains are listed with their last label.
tldOf(d) == CASE d = "voorbeeld.nl" -> "nl" [] d = "example.org" -> "org"
              [] OTHER -> ""

accountabilityDomain(fs) ==
  LET Of(p) == {fs[i].subject : i \in {j \in Rows(fs, p) :
                                        j = FirstRow(Rows(fs, p))}}
      found == SelectSeq(<<Of("config.expected_registrant"),
                           Of("whois.registrant_identity"),
                           Of("whois.unavailable")>>, LAMBDA S : S # {})
  IN  IF found = <<>> THEN "" ELSE CHOOSE d \in Head(found) : TRUE

\* The name without a leading STICHTING and a trailing legal form.
normaliseRegistrantName(words) ==
  LET w == IF words # <<>> /\ Head(words) = "STICHTING" THEN Tail(words) ELSE words
  IN  IF w # <<>> /\ w[Len(w)] \in {"B.V.", "BV", "N.V.", "NV"}
      THEN SubSeq(w, 1, Len(w) - 1) ELSE w

matchesExpectedRegistrant(name, expected) ==
  LET got == normaliseRegistrantName(name)
  IN  got # <<>> /\ \E e \in expected : normaliseRegistrantName(e) = got

expectedRegistrantNames(fs) ==
  LET I == Rows(fs, "config.expected_registrant")
  IN  IF I = {} THEN {} ELSE Strs(fs[FirstRow(I)], "expected_registrant")

registrantIdentifiable(fs) ==
  LET I    == Rows(fs, "whois.registrant_identity")
      gone == Rows(fs, "whois.unavailable")
      ev   == IF I = {} THEN {} ELSE {LastRow(I)}
      name == fs[LastRow(I)].attrs.name
  IN  IF tldOf(accountabilityDomain(fs)) \in RegistryRedactionTLDs
      THEN Result(Onbekend, ev, "registry_redacted")
      ELSE IF I = {}
      THEN Unavailable(IF gone = {} THEN {} ELSE {LastRow(gone)})
      ELSE Scored(IF ToSet(name) \cap PrivacyProxyWords # {} THEN Afhankelijk
                  ELSE IF name \in {<<>>, <<"absent">>} THEN Afhankelijk
                  ELSE IF matchesExpectedRegistrant(name, expectedRegistrantNames(fs))
                  THEN Soeverein ELSE Voldoende, ev)

noReseller(fs) ==
  LET I == Rows(fs, "whois.reseller")
  IN  IF I = {} THEN NoEvidence
      ELSE Scored(IF Flag(fs[FirstRow(I)], "present")
                  THEN Afhankelijk ELSE Soeverein, {FirstRow(I)})

soaRname(fs) ==
  LET I == Rows(fs, "dns.soa")
      f == fs[FirstRow(I)]
      resolves == Flag(f, "mailbox_domain_resolves")
      hasMX    == Flag(f, "mailbox_domain_has_mx")
  IN  IF I = {} THEN NoEvidence
      ELSE Scored(IF Attr(f, "rname_parse_error") # "" THEN Onbekend
                  ELSE IF resolves /\ hasMX THEN Soeverein
                  ELSE IF resolves THEN Voldoende
                  ELSE Afhankelijk, {FirstRow(I)})

securitytxt(fs, now) ==
  LET I == Rows(fs, "http.securitytxt")
      f == fs[FirstRow(I)]
      good == /\ Flag(f, "parseable")
              /\ Flag(f, "contact")
              /\ f.attrs.expires[1] = "ok"
              /\ f.attrs.expires[2] > now
  IN  IF I = {} THEN NoEvidence
      ELSE Scored(IF ~Flag(f, "present") THEN Afhankelijk
                  ELSE IF good THEN Soeverein ELSE Voldoende, {FirstRow(I)})

nsHolderTransparent(fs) ==
  LET I == Rows(fs, "whois.ns_holder")
  IN  IF I = {} THEN NoEvidence
      ELSE Scored(Share({i \in I : Attr(fs[i], "registrant") = "present"}, I), I)

(***************************************************************************)
(* standards: what Internet.nl measured, mapped and never recomputed.      *)
(***************************************************************************)
StandardsMaxAgeDays == 30

standardsCategoriesFor ==
  [dnssec        |-> {"web_dnssec", "mail_dnssec"},
   mail_auth     |-> {"mail_auth"},
   starttls_dane |-> {"mail_starttls"},
   ipv6          |-> {"web_ipv6", "mail_ipv6"},
   rpki          |-> {"web_rpki", "mail_rpki"},
   tls_config    |-> {"web_https"}]

scoreStandardsCategory(fs, rule, now) ==
  LET all   == {i \in Rows(fs, "internetnl") :
                  Attr(fs[i], "category") \in standardsCategoriesFor[rule]}
      stale == {i \in all : /\ fs[i].attrs.measured_at[1] = "ok"
                            /\ now - fs[i].attrs.measured_at[2] > StandardsMaxAgeDays}
      With(s)  == {i \in all \ stale : Attr(fs[i], "status") \in s}
      passed   == With({"passed"})
      failed   == With({"failed"})
      measured == With({"passed", "failed", "warning", "info"})
  IN  IF measured = {}
      THEN Result(Onbekend, all, IF all # {} /\ stale = all
                                 THEN "measurement_stale" ELSE "not_measured")
      ELSE Scored(IF passed = measured THEN Soeverein
                  ELSE IF failed # {} /\ passed = {} THEN Afhankelijk
                  ELSE Voldoende, measured)
=============================================================================
