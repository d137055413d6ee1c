------------------------------ MODULE MCPosture ------------------------------
(***************************************************************************)
(* Worlds for Posture.  One base world, and per theme the worlds that vary *)
(* what the rules of the theme look at, with the probes that look and the  *)
(* lookups that may fail.                                                  *)
(***************************************************************************)
EXTENDS Posture

Addr(a, org, country) == [addr |-> a, v6 |-> FALSE, org |-> org, country |-> country]

MCHosts ==
     ("example.org"   :> <<Addr("a1", "Hoster", "DE")>>)
  @@ ("mx.google"     :> <<Addr("a2", "Google", "US")>>)
  @@ ("mx.hoster"     :> <<Addr("a3", "Hoster", "NL"), Addr("a4", "Hoster", "NO")>>)
  @@ ("mx.anycast"    :> <<Addr("a5", "Google", "")>>)
  @@ ("ns1.hoster"    :> <<Addr("a6", "Hoster", "NL")>>)
  @@ ("ns2.hoster"    :> <<Addr("a7", "Hoster", "CH")>>)
  @@ ("ns.cloudflare" :> <<Addr("a8", "Cloudflare", "")>>)
  @@ ("fonts.google"  :> <<Addr("b1", "Google", "US")>>)
  @@ ("cdn.google"    :> <<Addr("b2", "Google", "IE")>>)
  @@ ("static.eu"     :> <<Addr("b3", "Hoster", "FR")>>)
  @@ ("www.example"   :> <<Addr("c1", "Amazon", "DE")>>)
  @@ ("app.example"   :> <<Addr("c2", "Hoster", "DE")>>)

Issue == [tag |-> "issue", value |-> "letsencrypt.org"]
NoIssue == [tag |-> "issue", value |-> ""]
HSTS == "Strict-Transport-Security"

Base ==
  [domain  |-> "example.org",
   hosts   |-> MCHosts,
   mx      |-> {[host |-> "mx.hoster", pref |-> 10]},
   ns      |-> {"ns1.hoster"},
   holder  |-> "hoster" :> "named",
   caa     |-> <<{}>>,
   subs    |-> {},
   ct      |-> {},
   cert    |-> [up |-> TRUE, verified |-> TRUE, countries |-> {"US"}, org |-> "ISRG", left |-> 60],
   rdap    |-> [name |-> <<"STICHTING", "EXAMPLE">>, form |-> "cc", country |-> "NL",
                reseller |-> FALSE, expiry |-> <<"ok", 120>>],
   http    |-> [robots |-> FALSE, https |-> TRUE, plain |-> TRUE, server |-> "",
                missing |-> {}, missingPlain |-> {HSTS}, third |-> {}],
   sectxt  |-> [present |-> TRUE, parseable |-> TRUE, contact |-> TRUE, expires |-> <<"ok", 70>>],
   soa     |-> [parses |-> TRUE, mailbox |-> "example.org", mx |-> TRUE],
   hops    |-> <<>>,
   geoip   |-> TRUE,
   imports |-> <<>>]

Perim(world, probes, lookups, asks) ==
  [kind |-> "perimeter", world |-> world, probes |-> probes, lookups |-> lookups,
   asks |-> asks, expected |-> {}]

(***************************************************************************)
(* Mail: every set of exchangers.                                          *)
(***************************************************************************)
MXs == {[host |-> "mx.google", pref |-> 10], [host |-> "mx.hoster", pref |-> 20],
        [host |-> "mx.anycast", pref |-> 30]}

MailCases ==
  {Perim([Base EXCEPT !.mx = M, !.geoip = g], {"dns"},
         {<<"dns", "addr">>, <<"dns", "mx">>, <<"dns", "ns">>, <<"ip", "mx.google">>,
          <<"ip", "mx.hoster">>, <<"geo", "a3">>, <<"geo", "a1">>},
         {"mx_vendor_jurisdiction", "apex_ip_eea", "no_us_hyperscaler"}) :
   M \in SUBSET MXs, g \in {TRUE, FALSE}}

(***************************************************************************)
(* The apex: no address, one outside the EEA beside one inside it, and     *)
(* operators GeoIP cannot place.                                           *)
(***************************************************************************)
ApexCases ==
  {Perim([Base EXCEPT !.hosts["example.org"] = A], {"dns"},
         {<<"dns", "addr">>, <<"ip", "example.org">>, <<"geo", "a1">>, <<"geo", "a9">>},
         {"apex_ip_eea", "no_us_hyperscaler"}) :
   A \in {<<>>, <<Addr("a1", "Amazon", "US"), [Addr("a9", "Hoster", "DE") EXCEPT !.v6 = TRUE]>>,
          <<Addr("a1", "Amazon", "")>>, <<Addr("a1", "Hoster", ""), Addr("a9", "Hoster", "NO")>>,
          <<Addr("a1", "", ""), Addr("a9", "Hoster", "")>>}}

(***************************************************************************)
(* Name servers, their holders, and CAA.                                   *)
(***************************************************************************)
HolderOf(N, status) == [d \in {Registrable(h) : h \in N} |->
                          IF d = "hoster" THEN "named" ELSE status]

NameServerCases ==
  {Perim([Base EXCEPT !.ns = N, !.holder = HolderOf(N, st), !.caa = c], {"dns"},
         {<<"dns", "ns">>, <<"rdap", "hoster">>, <<"rdap", "cloudflare">>,
          <<"ip", "ns1.hoster">>, <<"geo", "a8">>, <<"caa", 1>>, <<"caa", 2>>},
         {"ns_vendor_jurisdiction", "no_us_hyperscaler"}) :
   N \in SUBSET {"ns1.hoster", "ns2.hoster", "ns.cloudflare"},
   st \in {"redacted", "none"},
   c \in {<<{}, {}>>, <<{}, {Issue}>>, <<{NoIssue}, {Issue}>>}}

(***************************************************************************)
(* The web: third parties, edge, certificate, other names.                 *)
(***************************************************************************)
Others == {"www.example", "app.example"}
Wild   == [MCHosts EXCEPT !["www.example"] = MCHosts["app.example"]]

WebWorlds ==
  {[Base EXCEPT !.http.third = {"fonts.google"}, !.http.https = s, !.http.robots = r,
                     !.http.plain = FALSE] : s \in {TRUE, FALSE}, r \in {TRUE, FALSE}}
  \cup {[Base EXCEPT !.http.server = "cloudflare", !.subs = Others, !.hosts = H] :
          H \in {MCHosts, Wild}}
  \cup {[Base EXCEPT !.http.server = "CloudFront", !.ct = Others,
                     !.cert.countries = {"DE"}, !.cert.left = 20]}
  \cup {[Base EXCEPT !.cert.countries = {"DE", "US"}, !.cert.left = -3, !.cert.verified = FALSE,
                     !.http.missing = {"X-Frame-Options"}]}

ThirdPartyWorlds ==
  {[Base EXCEPT !.http.third = T] : T \in SUBSET {"fonts.google", "cdn.google", "static.eu"}}

WebLookups == {<<"dns", "addr">>, <<"dns", "sweep">>, <<"http", "robots">>, <<"http", "page">>,
               <<"http", "plain">>, <<"ip", "fonts.google">>}
WebAsks == {"third_parties_eea", "no_us_hyperscaler", "apex_ip_eea"}

\* The third parties come in any order already: they are looked for without
\* the certificate's probe beside them.
WebCases ==
  {Perim(x, {"dns", "tls", "http"}, WebLookups \cup {<<"tls", "dial">>, <<"tls", "crtsh">>},
         WebAsks) : x \in WebWorlds}
  \cup {Perim(x, {"dns", "http"}, WebLookups, WebAsks) : x \in ThirdPartyWorlds}

(***************************************************************************)
(* Accountability: registrant, reseller, contact addresses, expiry.        *)
(***************************************************************************)
AccountabilityWorlds ==
  {[Base EXCEPT !.rdap.name = n] : n \in {<<"EXAMPLE", "B.V.">>, <<"PRIVACY", "EXAMPLE">>,
                                          <<"absent">>, <<>>, <<"STICHTING">>}}
  \cup {[Base EXCEPT !.rdap.expiry = e, !.rdap.form = f] :
          e \in {<<>>, <<"bad", 0>>, <<"ok", 130>>, <<"ok", 160>>}, f \in {"name", ""}}
  \cup {[Base EXCEPT !.rdap.reseller = TRUE, !.domain = "voorbeeld.nl",
                     !.hosts = ("voorbeeld.nl" :> MCHosts["example.org"]) @@ @]}
  \cup {[Base EXCEPT !.sectxt.present = p, !.sectxt.parseable = q,
                     !.sectxt.expires = <<"bad", 0>>] : p \in {TRUE, FALSE}, q \in {TRUE, FALSE}}
  \cup {[Base EXCEPT !.soa.mailbox = h, !.soa.mx = FALSE, !.soa.parses = p] :
          h \in {"example.org", "nowhere"}, p \in {TRUE, FALSE}}

AccountabilityCases ==
  {[Perim(x, {"whois", "soa", "http"},
          {<<"rdap", x.domain>>, <<"soa", "soa">>, <<"soa", "host">>, <<"http", "securitytxt">>,
           <<"http", "robots">>, <<"org", "get">>}, {}) EXCEPT !.expected = E] :
   x \in AccountabilityWorlds, E \in {{}, {<<"EXAMPLE">>}}}

(***************************************************************************)
(* The path to the target, by its last three hops.                         *)
(***************************************************************************)
Hop(c) == [reply |-> c # "silent", country |-> IF c = "silent" THEN "" ELSE c]

TransitCases ==
  {Perim([Base EXCEPT !.hops = <<Hop(a), Hop(b), Hop(c)>>, !.geoip = g], {"dns", "transit"},
         {<<"transit", "tool">>, <<"transit", "resolve">>, <<"transit", "trace">>, <<"dns", "addr">>},
         {"apex_ip_eea"}) :
   a \in {"US", "NL"}, b \in {"US", "silent"}, c \in {"DE", "", "silent"}, g \in {TRUE, FALSE}}

(***************************************************************************)
(* The doors of the site: one room, no encryption, two rooms, a redirect    *)
(* into private address space, five redirects in a row, https doors that    *)
(* lead to a page without encryption while the http doors are shut, and an  *)
(* apex that redirects in circles; with both families, one of them dead,    *)
(* one absent, or a scanner without IPv6.                                   *)
(***************************************************************************)
Root == "example.org"
WWW  == "www.example.org"
U(scheme, host) == <<scheme, host, "/">>
Serves == <<"serves">>
To(url) == <<"redirects", url>>

OneRoom  == (U("http", Root)  :> To(U("https", Root))) @@ (U("https", Root) :> To(U("https", WWW)))
         @@ (U("http", WWW)   :> To(U("https", WWW)))  @@ (U("https", WWW)  :> Serves)
Plain    == [OneRoom EXCEPT ![U("http", WWW)] = Serves]
TwoRooms == [OneRoom EXCEPT ![U("https", Root)] = Serves]
Private  == [OneRoom EXCEPT ![U("https", Root)] = To(U("https", "intranet"))]
            @@ (U("https", "intranet") :> Serves)
Page(k)  == <<"https", Root, k>>
Long     == [OneRoom EXCEPT ![U("https", Root)] = To(Page("/1"))]
            @@ (Page("/1") :> To(Page("/2"))) @@ (Page("/2") :> To(Page("/3"))) @@ (Page("/3") :> To(U("https", WWW)))
Downhill == (U("https", Root) :> To(U("https", WWW))) @@ (U("https", WWW) :> To(U("http", "plain.org")))
            @@ (U("http", "plain.org") :> Serves)
Circles  == [OneRoom EXCEPT ![U("https", Root)] = To(U("http", Root))]

V6(a) == [Addr(a, "Hoster", "DE") EXCEPT !.v6 = TRUE]
Both(a, b) == <<Addr(a, "Hoster", "DE"), V6(b)>>
DualStack == (Root :> Both("a1", "d1")) @@ (WWW :> Both("a2", "d2"))
             @@ ("intranet" :> Both("10.0.0.5", "fd00::5")) @@ ("plain.org" :> Both("a5", "d5"))
OnlyV4    == [h \in DOMAIN DualStack |-> <<DualStack[h][1]>>]

Doors(site, hosts, silent, ipv6) ==
  [Base EXCEPT !.hosts = hosts @@ @]
  @@ [www |-> WWW, site |-> site, silent |-> silent, ipv6 |-> ipv6]

VariantWorlds(sites) ==
  {Doors(s, DualStack, d, TRUE) : s \in sites,
     d \in {{}, {<<"v6", Root>>, <<"v6", WWW>>}, {<<"v6", Root>>}, {<<"v4", WWW>>}}}
  \cup {Doors(s, DualStack, d, FALSE) : s \in sites, d \in {{}, {<<"v4", WWW>>}}}
  \cup {Doors(s, OnlyV4, {}, TRUE) : s \in sites}

VariantCase(x, asks) ==
  Perim(x, {"dns", "variants"},
        {<<"variants", Root>>, <<"variants", WWW>>, <<"variants", "late">>, <<"cut", 1>>,
         <<"cut", 3>>, <<"cut", 6>>, <<"dns", "addr">>}, asks)

VariantCases ==
  {VariantCase(x, {"variant_convergence"}) :
     x \in VariantWorlds({OneRoom, Plain, TwoRooms, Private, Long, Downhill})}
  \cup {VariantCase(x, {}) : x \in VariantWorlds({Circles})}

(***************************************************************************)
(* Internet.nl imports: every newest pair of results beside an older one.  *)
(***************************************************************************)
Measured(type, date, category, S) ==
  [type |-> type, measured |-> date,
   results |-> [k \in DOMAIN S |-> [category |-> category, status |-> S[k]]]]

ImportCases ==
  {Perim([Base EXCEPT !.imports = <<
            <<Measured("mail", <<"ok", 60>>, "mail_dnssec", S)>>,
            <<Measured("web", date, "web_dnssec", T),
              Measured("mail", <<"ok", 40>>, "mail_dnssec", <<"failed">>)>>
          >>], {"dns"}, {<<"dns", "addr">>}, {}) :
   date \in {<<"ok", 40>>, <<"bad", 0>>},
   S \in {<<>>, <<"passed">>, <<"passed", "failed">>, <<"not_tested">>},
   T \in {<<"passed">>, <<"warning", "info">>, <<"failed", "error">>}}

(***************************************************************************)
(* Hosts.                                                                  *)
(***************************************************************************)
BaseHost ==
  [enabled |-> <<"packages.dpkg", "packages.rpm", "systemd", "docker", "nextcloud">>,
   there   |-> {"packages.dpkg", "systemd", "docker", "nextcloud"},
   dpkg    |-> <<[name |-> "bash", from |-> "debian.org"], [name |-> "zypper", from |-> "suse.com"]>>,
   rpm     |-> <<[name |-> "kernel", from |-> "Red Hat"]>>,
   units   |-> <<[name |-> "ssh", from |-> ""]>>,
   containers |-> <<[host |-> "registry.eu", name |-> "db"]>>,
   images  |-> <<[host |-> "registry.eu", name |-> "db"], [host |-> "", name |-> "<none>"]>>,
   stores  |-> <<>>,
   idps    |-> <<>>]

HostWorlds ==
  {[BaseHost EXCEPT !.there = T] :
     T \in {{}, {"packages.rpm"}, {"packages.dpkg", "packages.rpm", "systemd"}}}
  \cup {[BaseHost EXCEPT !.dpkg = Append(@, [name |-> n, from |-> f])] :
          n \in {"datadog-agent", "vim"}, f \in {"redhat.com", "suse.com", "unknown.org"}}
  \cup {[BaseHost EXCEPT !.units = u, !.images = i, !.containers = c] :
          u \in {<<>>, <<[name |-> "newrelic-infra", from |-> ""]>>},
          i \in {<<>>, <<[host |-> "", name |-> "nginx"]>>},
          c \in {<<>>, <<[host |-> "ghcr.io", name |-> "app"]>>}}
  \cup {[BaseHost EXCEPT !.stores = s, !.idps = d] :
          s \in {<<>>, <<"NL">>, <<"US">>}, d \in {<<>>, <<"NL">>, <<"US">>}}

HostCases ==
  {[kind |-> "host", world |-> x, probes |-> {},
    lookups |-> {<<"inspect", "packages.dpkg">>, <<"inspect", "docker">>,
                 <<"occ", "config">>, <<"occ", "parse">>, <<"occ", "oidc">>},
    asks |-> {}, expected |-> {}] : x \in HostWorlds}

MCCases == MailCases \cup ApexCases \cup NameServerCases \cup WebCases \cup AccountabilityCases
           \cup TransitCases \cup VariantCases \cup ImportCases \cup HostCases

MCDays == {40, 70, 100}

\* For the run about one theme.
MCAccountability == AccountabilityCases
=============================================================================
