------------------------------- MODULE Probes -------------------------------
(***************************************************************************)
(* What the perimeter probes write down (internal/probe) and what the      *)
(* scanner derives from it (internal/scanner): each operator takes the     *)
(* world as it is and the set F of lookups that fail during this scan, and *)
(* returns the findings in the order they are emitted.                     *)
(*                                                                         *)
(* A world w is a record                                                   *)
(*   domain   the apex that is scanned                                     *)
(*   hosts    host -> sequence of [addr, v6, org, country]: its addresses  *)
(*            and what GeoIP says of each ("" is unknown)                  *)
(*   mx       set of [host, pref], no two with one preference              *)
(*   ns       set of name server hosts                                     *)
(*   holder   registrable domain of a name server -> its registrant, one   *)
(*            of "named", "redacted", "none"                               *)
(*   caa      the CAA records of the apex and of its parents, as sets      *)
(*   subs     names of the prefix sweep, ct: names in the CT log           *)
(*   cert     [up, verified, countries, org, left]; left in days           *)
(*   rdap     [name, form, country, reseller, expiry], see buildFindings   *)
(*   http     [robots, https, plain, server, missing, missingPlain, third] *)
(*   sectxt   [present, parseable, contact, expires]                       *)
(*   soa      [parses, mailbox, mx]                                        *)
(*   hops     sequence of [reply, country]                                 *)
(*   geoip    a GeoIP database is configured                               *)
(*   imports  the Internet.nl imports of the target, newest first; each a  *)
(*            sequence of [type, measured, results], results a sequence of *)
(*            [category, status]                                           *)
(* A lookup is a pair <<what, of>>.  Rows and attributes that no rule and  *)
(* no synthesis reads are left out.                                        *)
(***************************************************************************)
EXTENDS Assessor, TLC

Each(s, Op(_)) == [i \in DOMAIN s |-> Op(s[i])]
Optional(cond, row) == IF cond THEN <<row>> ELSE <<>>

\* The code sorts by name; which order that is, no rule can tell.
Sorted(S) == SetToSeq(S)

\* Go's map iteration: the rows of a set in any order.
AnyOrder(S) == SetToSeqs(S)

Resolve(w, h) == IF h \in DOMAIN w.hosts THEN w.hosts[h] ELSE <<>>

(***************************************************************************)
(* dns                                                                     *)
(***************************************************************************)
lookupError(w, p) == Finding(p, w.domain, [error |-> "failed"])
noAnswer(w, p)    == Finding(p, w.domain, [no_answer |-> TRUE])

addressFindings(w, F) ==
  LET addrs == Resolve(w, w.domain)
      Row(a) == Finding(IF a.v6 THEN "dns.aaaa" ELSE "dns.a", w.domain,
                        [address |-> a.addr])
  IN  IF <<"dns", "addr">> \in F THEN <<lookupError(w, "dns.a")>>
      ELSE IF addrs = <<>> THEN <<noAnswer(w, "dns.a")>>
      ELSE Each(addrs, Row)

mxFindings(w, F) ==
  LET Row(m) == Finding("dns.mx", w.domain,
                        [host |-> m.host, preference |-> m.pref])
  IN  IF <<"dns", "mx">> \in F THEN <<lookupError(w, "dns.mx")>>
      ELSE IF w.mx = {} THEN <<noAnswer(w, "dns.mx")>>
      ELSE Each(InOrder(w.mx, [m \in w.mx |-> m.pref]), Row)

nsFindings(w, F) ==
  LET Row(h) == Finding("dns.ns", w.domain, [host |-> h])
  IN  IF <<"dns", "ns">> \in F THEN <<lookupError(w, "dns.ns")>>
      ELSE Each(Sorted(w.ns), Row)

\* Mutant: a failing query reads as an empty answer and the climb goes on.
caaFindingsLenient(w, F) ==
  LET stops == {k \in DOMAIN w.caa : w.caa[k] # {} /\ <<"caa", k>> \notin F}
      Row(c) == Finding("dns.caa", w.domain, [tag |-> c.tag, value |-> c.value])
  IN  IF stops = {} THEN <<noAnswer(w, "dns.caa")>>
      ELSE Each(Sorted(w.caa[Min(stops)]), Row)

\* The CAA records of the first name that has any, from the domain up to
\* the registrable domain; a failing query on the way ends the climb.
caaFindings(w, F) ==
  LET stops == {k \in DOMAIN w.caa : w.caa[k] # {} \/ <<"caa", k>> \in F}
      k == Min(stops)
      Row(c) == Finding("dns.caa", w.domain, [tag |-> c.tag, value |-> c.value])
  IN  IF stops = {} THEN <<noAnswer(w, "dns.caa")>>
      ELSE IF <<"caa", k>> \in F THEN <<lookupError(w, "dns.caa")>>
      ELSE Each(Sorted(w.caa[k]), Row)

\* Two or more prefixes that all resolve to one address set are a wildcard
\* and are not recorded one by one; out of time, nothing is recorded.
subdomainSweep(w, F) ==
  LET hits == {h \in w.subs : Resolve(w, h) # <<>>}
      wildcard == /\ Cardinality(hits) >= 2
                  /\ \A g, h \in hits : Resolve(w, g) = Resolve(w, h)
      Row(h) == Finding("dns.subdomain", h, [source |-> "prefix_probe"])
  IN  IF <<"dns", "sweep">> \in F \/ wildcard THEN <<>>
      ELSE Each(Sorted(hits), Row)

dnsRun(w, F) == addressFindings(w, F) \o mxFindings(w, F) \o nsFindings(w, F)
                \o caaFindings(w, F) \o subdomainSweep(w, F)

(***************************************************************************)
(* tls: a certificate that does not verify is inspected all the same.      *)
(***************************************************************************)
expiringSoonThresholdDays == 30

inspect(w, F) ==
  LET validity == IF w.cert.left < 0 THEN [expired |-> TRUE]
                  ELSE IF w.cert.left < expiringSoonThresholdDays
                  THEN [expiring_soon |-> TRUE] ELSE [days_left |-> w.cert.left]
  IN  IF ~w.cert.up \/ <<"tls", "dial">> \in F
      THEN <<Finding("tls.handshake", w.domain, [error |-> "failed"])>>
      ELSE Optional(~w.cert.verified,
                    Finding("tls.verify", w.domain, [verified |-> FALSE]))
           \o <<Finding("tls.issuer", w.domain,
                        [issuer_country |-> w.cert.countries, issuer_o |-> w.cert.org]),
                Finding("tls.validity", w.domain, validity)>>

\* The CT log's names, in map order.
crtShLookup(w, F) ==
  IF <<"tls", "crtsh">> \in F
  THEN {<<Finding("tls.ct", w.domain, [unavailable |-> TRUE, error |-> "failed"])>>}
  ELSE {<<Finding("tls.ct", w.domain, [total_entries |-> Cardinality(w.ct)])>> \o s :
          s \in AnyOrder({Finding("dns.subdomain", h, [source |-> "ct_log"]) : h \in w.ct})}

tlsRun(w, F) == {inspect(w, F) \o s : s \in crtShLookup(w, F)}

(***************************************************************************)
(* whois.  w.rdap.name is the registrant's name in words: <<>> when the    *)
(* entity has none, <<"absent">> when there is no entity.  The country is  *)
(* the "cc" parameter of the address, or else the last line of the address *)
(* itself, which is a country's name.                                      *)
(***************************************************************************)
vcardCountry(rdap) == CASE rdap.form = "cc"   -> rdap.country
                        [] rdap.form = "name" -> "NETHERLANDS"
                        [] OTHER -> ""

registrantIdentityFinding(w) ==
  Finding("whois.registrant_identity", w.domain,
          [name |-> IF w.rdap.name = <<>> THEN <<"absent">> ELSE w.rdap.name])

expiryFinding(w) ==
  Finding("whois.expiry", w.domain,
          [present |-> w.rdap.expiry # <<>>, date |-> w.rdap.expiry])

buildFindings(w) ==
  Optional(vcardCountry(w.rdap) # "",
           Finding("whois.registrant", w.domain, [country |-> vcardCountry(w.rdap)]))
  \o <<registrantIdentityFinding(w),
       Finding("whois.reseller", w.domain, [present |-> w.rdap.reseller]),
       expiryFinding(w)>>

whoisRun(w, F) ==
  IF <<"rdap", w.domain>> \in F
  THEN <<Finding("whois.unavailable", w.domain, [reason |-> "failed"])>>
  ELSE buildFindings(w)

(***************************************************************************)
(* http                                                                    *)
(***************************************************************************)
HttpsAnswers(w, F, what) == w.http.https /\ <<"http", what>> \notin F

fetchSecurityTxt(w, F) ==
  IF ~HttpsAnswers(w, F, "securitytxt")
  THEN Finding("http.securitytxt.unavailable", w.domain, [reason |-> "failed"])
  ELSE Finding("http.securitytxt", w.domain, w.sectxt)

responseFindings(w, missing) ==
  <<Finding("http.response", w.domain, [server |-> w.http.server]),
    Finding("http.security_headers", w.domain, [missing |-> missing])>>

\* robots.txt first; then security.txt; then the page, over plain HTTP when
\* HTTPS does not answer.  Third parties come in map order.
httpRun(w, F) ==
  LET https == HttpsAnswers(w, F, "page")
      plain == w.http.plain /\ <<"http", "plain">> \notin F
      third == AnyOrder({Finding("http.third_party", h, [kinds |-> {"script"}]) :
                           h \in w.http.third})
      sec   == <<fetchSecurityTxt(w, F)>>
      page(missing) == {sec \o Optional(~https, Finding("http.scheme_downgrade",
                                          w.domain, [reason |-> "failed"]))
                            \o responseFindings(w, missing) \o s : s \in third}
  IN  IF w.http.robots /\ HttpsAnswers(w, F, "robots")
      THEN {<<Finding("http.robots_blocked", w.domain, [fetched |-> TRUE])>>}
      ELSE IF https THEN page(w.http.missing)
      ELSE IF plain THEN page(w.http.missingPlain)
      ELSE {sec \o <<Finding("http.fetch_failed", w.domain, [error |-> "failed"])>>}

(***************************************************************************)
(* soa: an error of either follow-up lookup reads as "no".                 *)
(***************************************************************************)
soaRun(w, F) ==
  IF <<"soa", "soa">> \in F
  THEN <<Finding("dns.soa.unavailable", w.domain, [reason |-> "failed"])>>
  ELSE IF ~w.soa.parses
  THEN <<Finding("dns.soa", w.domain, [rname_parse_error |-> "failed"])>>
  ELSE <<Finding("dns.soa", w.domain,
           [mailbox_domain_resolves |-> /\ Resolve(w, w.soa.mailbox) # <<>>
                                        /\ <<"soa", "host">> \notin F,
            mailbox_domain_has_mx   |-> w.soa.mx /\ <<"soa", "mx">> \notin F])>>

(***************************************************************************)
(* transit                                                                 *)
(***************************************************************************)
hopFinding(w, k) ==
  Finding("transit.hop", w.domain,
          IF ~w.hops[k].reply THEN [hop |-> k, no_reply |-> TRUE]
          ELSE IF w.geoip THEN [hop |-> k, country |-> w.hops[k].country]
          ELSE [hop |-> k])

transitRun(w, F) ==
  IF <<"transit", "tool">> \in F
  THEN <<Finding("transit.unavailable", w.domain, [reason |-> "failed"])>>
  ELSE IF Resolve(w, w.domain) = <<>> \/ <<"transit", "resolve">> \in F
  THEN <<Finding("transit.resolve", w.domain, [error |-> "failed"])>>
  ELSE IF <<"transit", "trace">> \in F
  THEN <<Finding("transit.error", w.domain, [error |-> "failed"])>>
  ELSE [k \in DOMAIN w.hops |-> hopFinding(w, k)]

(***************************************************************************)
(* Internet.nl: a measurement without results leaves one status row, which *)
(* belongs to no category.  Of every type, web or mail, only the newest    *)
(* import that carries it is read.                                         *)
(***************************************************************************)
NetnlFindings(w, d) ==
  LET Row(r) == Finding("internetnl", w.domain,
                  [type |-> d.type, category |-> r.category, status |-> r.status,
                   measured_at |-> d.measured])
  IN  IF d.results = <<>>
      THEN <<Finding("internetnl", w.domain,
               [type |-> d.type, status |-> "error", measured_at |-> d.measured])>>
      ELSE Each(d.results, Row)

LatestImportFindings(w) ==
  LET Newest(k, d) == \A j \in 1 .. k - 1 : \A e \in ToSet(w.imports[j]) : e.type # d.type
      Of(k) == FlattenSeq(Each(w.imports[k], LAMBDA d :
                 IF Newest(k, d) THEN NetnlFindings(w, d) ELSE <<>>))
  IN  FlattenSeq([k \in DOMAIN w.imports |-> Of(k)])

\* What an assessment reads: the scan's own rows, then the imported ones.
FindingsForAssessment(rows, w) == rows \o LatestImportFindings(w)

(***************************************************************************)
(* ip, the probe of the second pass                                        *)
(***************************************************************************)
ipHost(w, F, h) ==
  LET Row(a) == IF <<"geo", a.addr>> \in F
                THEN Finding("ip.lookup", h, [address |-> a.addr, error |-> "failed"])
                ELSE Finding("ip.asn", h, [address |-> a.addr,
                             organisation |-> a.org, country |-> a.country])
  IN  IF Resolve(w, h) = <<>> \/ <<"ip", h>> \in F
      THEN <<Finding("ip.resolve", h, [error |-> "failed"])>>
      ELSE Each(Resolve(w, h), Row)

ipRun(w, F, related) ==
  IF ~w.geoip
  THEN <<Finding("ip.unavailable", w.domain, [reason |-> "no geoip database"])>>
  ELSE FlattenSeq([k \in 1 .. Len(related) + 1 |->
         ipHost(w, F, IF k = 1 THEN w.domain ELSE related[k - 1])])

\* Mutant: the name servers are left out of the second pass.
HostsNamedForMail(fs) == {Attr(fs[i], "host") : i \in Rows(fs, "dns.mx")}

\* The hosts the first pass named, the domain aside.
HostsNamed(fs) ==
  {Attr(fs[i], "host") : i \in Rows(fs, "dns.mx") \cup Rows(fs, "dns.ns")}
SubjectsNamed(fs) ==
  {fs[i].subject : i \in Rows(fs, "http.third_party") \cup Rows(fs, "dns.subdomain")}

expandRelatedFromFindings(domain, fs) ==
  Sorted((HostsNamed(fs) \cup SubjectsNamed(fs)) \ {domain, ""})
=============================================================================
