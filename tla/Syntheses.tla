----------------------------- MODULE Syntheses -----------------------------
(***************************************************************************)
(* The aggregate findings the scanner derives after the second pass        *)
(* (internal/scanner): who runs the mail, the DNS, the apex, the third     *)
(* parties, the edge and the certificate.  Each operator returns one row   *)
(* or none, from the findings in memory: registration order, not the order *)
(* they were stored in.  A row keeps the names and countries it states;    *)
(* the sentence it makes of them is left out.                              *)
(***************************************************************************)
EXTENDS Probes

\* The curated tables, by representatives: a host suffix or an AS
\* organisation to the name a reader knows it by.
mailOperatorSuffixes     == [h \in {"mx.google"} |-> "Google Workspace"]
dnsOperatorSuffixes      == [h \in {"ns.cloudflare"} |-> "Cloudflare"]
thirdPartyVendorSuffixes == [h \in {"fonts.google", "cdn.google"} |-> "Google"]
hostingOperators         == [o \in {"Amazon"} |-> "AWS"]
certAuthorities          == [o \in {"ISRG"} |-> "Let's Encrypt"]

Known(table, key, fallback) == IF key \in DOMAIN table THEN table[key] ELSE fallback

operatorBySuffix(host, table, asnOrg) == Known(table, host, asnOrg)
hostingOperator(asnOrg) == Known(hostingOperators, asnOrg, asnOrg)
certAuthority(org)      == Known(certAuthorities, org, org)

NoGeo == [organisation |-> "", country |-> ""]

\* The first ip.asn row of a host speaks for it, geo-attributed or not.
GeoOf(fs, I) == IF I = {} THEN NoGeo
                ELSE LET f == fs[FirstRow(I)]
                     IN  [organisation |-> Attr(f, "organisation"),
                          country      |-> Attr(f, "country")]

\* Mutant: the first ip.asn row speaks for every host.
asnByHostAny(fs, h) == GeoOf(fs, Rows(fs, "ip.asn"))

asnByHost(fs, h) == GeoOf(fs, {i \in Rows(fs, "ip.asn") : fs[i].subject = h})

\* One route per row that names a host, in the order of the rows.
HostRoutes(fs, I, table) ==
  LET Route(i) == LET h == Attr(fs[i], "host")
                      g == asnByHost(fs, h)
                  IN  [operator |-> operatorBySuffix(h, table, g.organisation),
                       country  |-> g.country]
  IN  Each(Ascending(I), Route)

Named(fs, p) == {i \in Rows(fs, p) : Attr(fs[i], "host") # ""}

\* The dns probe writes mail rows by preference and name server rows by
\* name: the sorts of the two syntheses keep that order.
synthesiseMailRouting(domain, fs) ==
  Optional(Has(fs, "dns.mx"),
    Finding("dns.mx_routing", domain,
            [routes |-> HostRoutes(fs, Named(fs, "dns.mx"), mailOperatorSuffixes)]))

synthesiseDNSHosting(domain, fs) ==
  Optional(Has(fs, "dns.ns"),
    Finding("dns.ns_hosting", domain,
            [routes |-> HostRoutes(fs, Named(fs, "dns.ns"), dnsOperatorSuffixes)]))

\* One route per apex address; none when no address has an ip.asn row.
synthesiseHostingIdentity(domain, fs) ==
  LET A == {i \in Rows(fs, "dns.a") \cup Rows(fs, "dns.aaaa") : fs[i].subject = domain}
      apex == {i \in Rows(fs, "ip.asn") : fs[i].subject = domain}
      addressed == {i \in A : Attr(fs[i], "address") # ""}
      Route(i) == LET g == GeoOf(fs, {j \in apex : Attr(fs[j], "address")
                                                   = Attr(fs[i], "address")})
                  IN  [operator |-> hostingOperator(g.organisation),
                       country  |-> g.country]
      routes == IF apex = {} THEN <<>>
                ELSE Each(Ascending(addressed), Route)
  IN  Optional(A # {}, Finding("ip.hosting", domain, [routes |-> routes]))

\* Hosts of one vendor collapse into one entry; its country is that of the
\* first of its hosts, in row order, that has one.
synthesiseOriginMap(domain, fs) ==
  LET T == Rows(fs, "http.third_party")
      Vendor(i) == LET v == operatorBySuffix(fs[i].subject, thirdPartyVendorSuffixes,
                                             asnByHost(fs, fs[i].subject).organisation)
                   IN  IF v = "" THEN fs[i].subject ELSE v
      Country(i) == asnByHost(fs, fs[i].subject).country
      Entry(v) == LET located == {i \in T : Vendor(i) = v /\ Country(i) # ""}
                  IN  [vendor |-> v, country |-> IF located = {} THEN ""
                                                 ELSE Country(FirstRow(located))]
  IN  Optional(T # {} \/ Has(fs, "http.response"),
        Finding("http.origin_map", domain,
                [vendors |-> Each(Sorted({Vendor(i) : i \in T}), Entry)]))

\* An edge is known by its AS organisation or by its server header; the
\* first signature that matches either wins.
cdnSignatures == <<[edge |-> "Cloudflare", org |-> "Cloudflare", server |-> "cloudflare"],
                   [edge |-> "Amazon CloudFront", org |-> "", server |-> "CloudFront"]>>

cdnFront(asnOrg, server) ==
  LET M == {k \in DOMAIN cdnSignatures :
              \/ asnOrg # "" /\ cdnSignatures[k].org = asnOrg
              \/ server # "" /\ cdnSignatures[k].server = server}
  IN  IF M = {} THEN "" ELSE cdnSignatures[Min(M)].edge

synthesiseCDNFront(domain, fs) ==
  LET Of(p) == {i \in Rows(fs, p) : fs[i].subject = domain}
      resp  == Of("http.response")
      edge  == cdnFront(asnByHost(fs, domain).organisation,
                        IF resp = {} THEN "" ELSE Attr(fs[FirstRow(resp)], "server"))
  IN  Optional(Of("ip.asn") # {} \/ resp # {},
        Finding("http.cdn_front", domain, [fronted |-> edge # "", edge |-> edge]))

synthesiseCertChain(domain, fs) ==
  LET issuer == {i \in Rows(fs, "tls.issuer") : fs[i].subject = domain}
  IN  IF issuer = {} THEN <<>>
      ELSE <<Finding("tls.chain_geography", domain,
               [ca |-> certAuthority(Attr(fs[FirstRow(issuer)], "issuer_o"))])>>

\* In this order, each appended before the next is derived.
syntheses(domain, fs) ==
  synthesiseMailRouting(domain, fs) \o synthesiseDNSHosting(domain, fs)
  \o synthesiseHostingIdentity(domain, fs) \o synthesiseOriginMap(domain, fs)
  \o synthesiseCDNFront(domain, fs) \o synthesiseCertChain(domain, fs)

(***************************************************************************)
(* One RDAP lookup per registrable domain among the name servers.  The     *)
(* model's name servers are listed with their registrable domain.          *)
(***************************************************************************)
Registrable(h) == CASE h = "ns.cloudflare" -> "cloudflare"
                    [] h \in {"ns1.hoster", "ns2.hoster"} -> "hoster"
                    [] OTHER -> ""

uniqueRegistrableDomains(fs) ==
  {Registrable(Attr(fs[i], "host")) : i \in Rows(fs, "dns.ns")} \ {""}

LookupRegistrantStatus(w, d) == CASE w.holder[d] = "named"    -> "present"
                                  [] w.holder[d] = "redacted" -> "proxied"
                                  [] OTHER -> "absent"

nsHolderFindings(w, F, fs) ==
  LET Row(d) == IF <<"rdap", d>> \in F
                THEN Finding("whois.ns_holder.unavailable", d, [reason |-> "failed"])
                ELSE Finding("whois.ns_holder", d,
                             [registrant |-> LookupRegistrantStatus(w, d)])
  IN  Each(Sorted(uniqueRegistrableDomains(fs)), Row)

expectedRegistrantFinding(domain, names) ==
  Finding("config.expected_registrant", domain, [expected_registrant |-> names])
=============================================================================
