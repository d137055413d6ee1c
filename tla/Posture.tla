------------------------------ MODULE Posture ------------------------------
(***************************************************************************)
(* From the world to the verdict: one scan, from its probes to the two     *)
(* assessments of what it stored.  ScanRun models the same scan for its    *)
(* control (crashes, deadlines, statuses); this module models what the     *)
(* findings say, and asks whether the verdicts are true of the world.      *)
(*                                                                         *)
(* The probes of the first pass finish, and are stored, in any order; the  *)
(* related hosts they name, the second pass and the syntheses work from    *)
(* the copy in memory, which is in registration order; the rules read the  *)
(* store.  Any of at most MaxFailures lookups fails.  A host case is an    *)
(* agent's batch: what its inspectors report is assessed as it stands.     *)
(***************************************************************************)
EXTENDS RulePacks, Syntheses, Inventory, Variants

CONSTANTS Cases,        \* set of [kind, world, probes, lookups, asks, expected]
          MaxFailures,  \* bound on the lookups that fail in one scan
          Days          \* the days an assessment may run on

ASSUME PostureAssumption == MaxFailures \in Nat /\ Days \subseteq Nat

\* What a world is (see Probes and Variants), as far as the proofs need it.
IsList(s) == s \in Seq(ToSet(s))

IsWorld(x) ==
  /\ {"domain", "hosts", "mx", "ns", "ct", "subs", "http", "geoip"} \subseteq DOMAIN x
  /\ "third" \in DOMAIN x.http
  /\ x.domain # "" /\ "" \notin DOMAIN x.hosts
  /\ IsFiniteSet(x.mx) /\ \A m \in x.mx : m.pref \in Int
  /\ IsFiniteSet(x.ns) /\ "" \notin x.ns
  /\ \A h \in x.ns : Registrable(h) \in DOMAIN x.holder \cup {""}
  /\ IsFiniteSet(x.subs) /\ IsFiniteSet(x.ct) /\ IsFiniteSet(x.http.third)
  /\ \A h \in DOMAIN x.hosts :
       IsList(x.hosts[h]) /\ \A a \in ToSet(x.hosts[h]) : a.v6 \in BOOLEAN
  /\ IsList(x.caa) /\ \A k \in DOMAIN x.caa : IsFiniteSet(x.caa[k])
  /\ x.cert.left \in Int
  /\ x.rdap.reseller \in BOOLEAN
  /\ x.rdap.expiry # <<>> => x.rdap.expiry[2] \in Int
  /\ "present" \in DOMAIN x.sectxt /\ x.sectxt.present \in BOOLEAN
  /\ IsList(x.hops)
  /\ IsList(x.imports)
  /\ \A k \in DOMAIN x.imports :
       IsList(x.imports[k]) /\ \A d \in ToSet(x.imports[k]) : IsList(d.results)

HasDoors(x) == \A u \in DOMAIN x.site :
                 \/ x.site[u][1] = "serves"
                 \/ x.site[u][1] = "redirects" /\ x.site[u][2][1] \in {"http", "https"}

ASSUME WorldsAssumption ==
  \A c \in Cases : c.kind = "perimeter" =>
    IsWorld(c.world) /\ ("variants" \in c.probes => HasDoors(c.world))

VARIABLES case,     \* the scanned target and what is registered
          failed,   \* the lookups that fail
          pending,  \* first-pass probes that have not been stored yet
          mem,      \* scan.Findings: probe -> its findings
          rows,     \* the findings table, by rowid
          phase,    \* pass1, synthesis, holders, done
          now,      \* the day of the last assessment
          verdict   \* rule results and dimension scores of both packs

vars == <<case, failed, pending, mem, rows, phase, now, verdict>>

w == case.world

\* The order in which the scan command registers the probes.
Registered == <<"dns", "tls", "http", "whois", "soa", "variants", "transit">>

InMemory(m) == FlattenSeq([k \in DOMAIN Registered |-> m[Registered[k]]])

\* The findings a probe may return.
RunProbe(p) == CASE p = "dns"     -> {dnsRun(w, failed)}
                 [] p = "tls"     -> tlsRun(w, failed)
                 [] p = "http"    -> httpRun(w, failed)
                 [] p = "whois"   -> {whoisRun(w, failed)}
                 [] p = "soa"     -> {soaRun(w, failed)}
                 [] p = "variants" -> {variantsRun(w, failed)}
                 [] p = "transit" -> {transitRun(w, failed)}

NoVerdict == [wand |-> {}, wandDims |-> <<>>, eucsf |-> {}, eucsfDims |-> <<>>]

Init ==
  /\ case \in Cases
  /\ failed \in {S \in SUBSET case.lookups : Cardinality(S) <= MaxFailures}
  /\ pending = case.probes
  /\ mem = [p \in ToSet(Registered) \cup {"ip"} |-> <<>>]
  /\ rows = IF case.kind = "host" \/ <<"org", "get">> \in failed THEN <<>>
            ELSE <<expectedRegistrantFinding(case.world.domain, case.expected)>>
  /\ phase = "pass1"
  /\ now = Min(Days)
  /\ verdict = NoVerdict

\* A goroutine of runPassConcurrent: the probe's findings are stored the
\* moment it returns.
FinishProbe(p) ==
  /\ phase = "pass1" /\ p \in pending
  /\ \E out \in RunProbe(p) :
       /\ mem' = [mem EXCEPT ![p] = out]
       /\ rows' = rows \o out
  /\ pending' = pending \ {p}
  /\ UNCHANGED <<case, failed, phase, now, verdict>>

\* wg.Wait, expandRelatedFromFindings and the ip probe.
SecondPass ==
  /\ case.kind = "perimeter" /\ phase = "pass1" /\ pending = {}
  /\ LET related == expandRelatedFromFindings(w.domain, InMemory(mem))
         out     == ipRun(w, failed, related)
     IN  /\ mem' = [mem EXCEPT !["ip"] = out]
         /\ rows' = rows \o out
  /\ phase' = "synthesis"
  /\ UNCHANGED <<case, failed, pending, now, verdict>>

Synthesise ==
  /\ phase = "synthesis"
  /\ rows' = rows \o syntheses(w.domain, InMemory(mem) \o mem["ip"])
  /\ phase' = "holders"
  /\ UNCHANGED <<case, failed, pending, mem, now, verdict>>

HolderLookups ==
  /\ phase = "holders"
  /\ rows' = rows \o nsHolderFindings(w, failed, InMemory(mem))
  /\ phase' = "done"
  /\ UNCHANGED <<case, failed, pending, mem, now, verdict>>

\* The agent's batch, stored by the central server as a scan of its own.
InspectHost ==
  /\ case.kind = "host" /\ phase = "pass1"
  /\ rows' = Inspect(w, failed)
  /\ phase' = "done"
  /\ UNCHANGED <<case, failed, pending, mem, now, verdict>>

\* assessScan, and every later re-assessment of the same scan.
AssessScan(day) ==
  /\ phase = "done"
  /\ day >= now
  /\ now' = day
  /\ LET fs == IF case.kind = "host" THEN rows ELSE FindingsForAssessment(rows, w)
         wand  == wandDefaultRules(fs, day)
         eucsf == eucsfDefaultRules(fs)
     IN  verdict' = [wand  |-> wand, wandDims  |-> Assess(wand),
                     eucsf |-> eucsf, eucsfDims |-> Assess(eucsf)]
  /\ UNCHANGED <<case, failed, pending, mem, rows, phase>>

Next ==
  \/ \E p \in ToSet(Registered) : FinishProbe(p)
  \/ SecondPass \/ Synthesise \/ HolderLookups \/ InspectHost
  \/ \E day \in Days : AssessScan(day)

Spec == Init /\ [][Next]_vars

(***************************************************************************)
(* What is true of the world, read off the world itself.                   *)
(***************************************************************************)
Wildcard(x) == LET hits == {h \in x.subs : Resolve(x, h) # <<>>}
               IN  /\ Cardinality(hits) >= 2
                   /\ \A g, h \in hits : Resolve(x, g) = Resolve(x, h)

\* The world as far as its pages may be read: robots.txt, where it answers,
\* keeps the probe from the page.
PageSeen(x) == ~(x.http.robots /\ x.http.https) /\ (x.http.https \/ x.http.plain)
Readable(x) == IF PageSeen(x) THEN x ELSE [x EXCEPT !.http.third = {}]

\* The hosts each question is about.
HostsAsked(x, id) ==
  CASE id = "apex_ip_eea"            -> {x.domain}
    [] id = "mx_vendor_jurisdiction" -> {m.host : m \in x.mx}
    [] id = "ns_vendor_jurisdiction" -> x.ns
    [] id = "third_parties_eea"      -> x.http.third
    [] id = "no_us_hyperscaler"      ->
         {x.domain} \cup {m.host : m \in x.mx} \cup x.ns \cup x.ct
         \cup x.http.third \cup (IF Wildcard(x) THEN {} ELSE x.subs)

Geos(x, id) == UNION {ToSet(Resolve(x, h)) : h \in HostsAsked(x, id)}

OutsideEEA(g) == \/ g.country \notin eeaCountries \cup {""}
                 \/ g.country = "" /\ usHyperscalerOrg(g.org)

\* The verdict the located addresses deserve; operators without a country
\* count only when nothing has one.
JurisdictionTruth(G) ==
  LET known  == {g \in G : g.country # ""}
      inside == {g \in known : g.country \in eeaCountries}
  IN  IF known = {} THEN IF \E g \in G : OutsideEEA(g) THEN Afhankelijk ELSE Onbekend
      ELSE IF inside = known THEN Soeverein
      ELSE IF inside = {} THEN Afhankelijk ELSE Voldoende

JurisdictionRules == {"apex_ip_eea", "mx_vendor_jurisdiction",
                      "ns_vendor_jurisdiction", "third_parties_eea"}

\* Where the redirects from a path's URL lead when nobody stops following
\* them: at most one origin, and none when they end at a host that does not
\* answer or go round in circles.
Live(x, p, url) == ~Refused(x, p.family, url[2]) /\ Answers(x, p.family, url)

Urls(x, p) == {StartOf(x, p)} \cup DOMAIN x.site
              \cup {x.site[u][2] : u \in {v \in DOMAIN x.site : Redirects(x, v)}}

LedOn(x, p, S) == \A u \in S : Live(x, p, u) /\ Redirects(x, u) => x.site[u][2] \in S

Visited(x, p) == {u \in Urls(x, p) : \A S \in SUBSET Urls(x, p) :
                                       StartOf(x, p) \in S /\ LedOn(x, p, S) => u \in S}

Destination(x, p) ==
  {origin(url) : url \in {u \in Visited(x, p) : Live(x, p, u) /\ x.site[u][1] = "serves"}}

Open(x)    == {p \in ToSet(paths) : (p.family = "v4" \/ x.ipv6) /\ Destination(x, p) # {}}
Origins(x) == UNION {Destination(x, p) : p \in Open(x)}

\* A door without encryption behind it.
PlainDoor(x) == \E p \in Open(x) : /\ p.scheme = "http"
                                   /\ \E o \in Destination(x, p) : o.scheme = "http"

\* A family the apex publishes and the scanner can reach, with no door open.
DeadFamily(x) == \E f \in {"v4"} \cup (IF x.ipv6 THEN {"v6"} ELSE {}) :
                   /\ OfFamily(x, f, x.domain) # {}
                   /\ \A p \in Open(x) : p.family # f

DoorsDeserve(x) ==
  IF PlainDoor(x) \/ Open(x) = {} THEN Afhankelijk
  ELSE IF Cardinality(Origins(x)) = 1 /\ ~DeadFamily(x) THEN Soeverein
  ELSE Voldoende

\* "A rationale with a reason always scores onbekend" (engine.go): a scanner
\* without IPv6 says afhankelijk or nothing.
ConvergenceTruth(x) ==
  IF x.ipv6 \/ DoorsDeserve(x) = Afhankelijk THEN DoorsDeserve(x) ELSE Onbekend

Truth(x, id) ==
  LET G == IF x.geoip THEN Geos(Readable(x), id) ELSE {}
  IN  IF id = "variant_convergence" THEN ConvergenceTruth(x)
      ELSE IF G = {} THEN Onbekend
      ELSE IF id \in JurisdictionRules THEN JurisdictionTruth(G)
      ELSE IF \E g \in G : usHyperscalerOrg(g.org) THEN Afhankelijk
      ELSE Voldoende

\* What walker.follow takes for granted: an origin that serves a page serves
\* every page it is asked for, who is redirected once more after the cap gets
\* nowhere, and the eight paths together leave some of the budget.
OneRoomPerOrigin(x) ==
  \A p \in ToSet(paths) : \A u \in Urls(x, p), v \in DOMAIN x.site :
    x.site[v][1] = "serves" /\ origin(u) = origin(v)
      => u \in DOMAIN x.site /\ x.site[u][1] = "serves"

CapSuffices(x) ==
  \A p \in ToSet(paths) :
    Redirects(x, urlsFrom(x, StartOf(x, p))[maxRedirectsPerPath]) => Destination(x, p) = {}

BudgetSuffices(x) ==
  LET ends == walkPaths(x, {})[Len(paths)].results
  IN  \A k \in DOMAIN ends : ends[k].status # "not_followed_budget"

\* The probes that look at what a question is about are registered.
Answerable(c, id) ==
  LET x == c.world
  IN  CASE id = "third_parties_eea" -> "http" \in c.probes
        [] id = "no_us_hyperscaler" -> /\ "dns" \in c.probes
                                       /\ x.ct # {} => "tls" \in c.probes
                                       /\ x.http.third # {} => "http" \in c.probes
        [] id = "variant_convergence" -> /\ {"dns", "variants"} \subseteq c.probes
                                         /\ OneRoomPerOrigin(x)
                                         /\ CapSuffices(x)
                                         /\ BudgetSuffices(x)
        [] OTHER -> "dns" \in c.probes

AskedRules == JurisdictionRules \cup {"no_us_hyperscaler", "variant_convergence"}

ASSUME AsksAssumption ==
  \A c \in Cases : c.kind = "perimeter" => \A id \in c.asks \cap AskedRules : Answerable(c, id)

\* What Internet.nl said of a standard, in the newest import of each type,
\* as far as the measurement still counts on that day; one without a
\* readable date always does.
StandardSays(x, id, day) ==
  LET NewestOf(t) == Min({k \in DOMAIN x.imports :
                            \E d \in ToSet(x.imports[k]) : d.type = t})
      types == {d.type : d \in UNION {ToSet(x.imports[k]) : k \in DOMAIN x.imports}}
      stale(d) == d.measured[1] = "ok" /\ day - d.measured[2] > StandardsMaxAgeDays
      read  == {d \in UNION {ToSet(x.imports[NewestOf(t)]) : t \in types} :
                  d \in ToSet(x.imports[NewestOf(d.type)]) /\ ~stale(d)}
  IN  {r.status : r \in {q \in UNION {ToSet(d.results) : d \in read} :
                           q.category \in standardsCategoriesFor[id]}}

StandardRules == DOMAIN standardsCategoriesFor

Assessed  == verdict.wand # {}
Perimeter == Assessed /\ case.kind = "perimeter"
Wand(id)  == ScoreOf(verdict.wand, id)

(***************************************************************************)
(* Properties.                                                             *)
(***************************************************************************)

\* When every lookup of the probes that ran succeeds, the verdicts on where
\* hosts are, who runs them and whether all doors lead to one secured room are
\* exactly what the world deserves: whatever the order the probes finish in
\* and Go's maps are read in, every host a rule asks about reached the second
\* pass, and no other one counts (expandRelatedFromFindings, runPassConcurrent,
\* jurisdictionTally); and the walk that stops at origins it has seen tells
\* where every path leads (walker.follow), while its budget lasts.
VerdictIsTrue ==
  Perimeter /\ failed = {} =>
    \A id \in case.asks \cap AskedRules : Wand(id) = Truth(w, id)

\* Countries of the hops that answered and can be located; the last one is
\* taken for the place where the target is hosted (transit_rules.go), also
\* when it is a transit hop because the target itself stays silent.
Located(x) == {k \in DOMAIN x.hops : x.hops[k].reply /\ x.hops[k].country # ""}
HostedIn(x) == x.hops[Max(Located(x))].country

\* Whatever fails, afhankelijk is said of a target only when the world
\* holds a fact that deserves it: a lookup that fails never becomes one.
Deserved(x, id, day) ==
  CASE id \in JurisdictionRules -> \E g \in Geos(x, id) : OutsideEEA(g)
    [] id = "no_us_hyperscaler" -> \E g \in Geos(x, id) : usHyperscalerOrg(g.org)
    [] id = "cert_issuer_eea"   -> ~(x.cert.countries \subseteq eeaCountries)
    [] id = "cert_validity"     -> x.cert.left < 0
    [] id = "dns_redundancy"    -> Cardinality(x.ns) < 2
    [] id = "caa_restricts"     -> \A k \in DOMAIN x.caa : x.caa[k] = {}
    [] id = "no_reseller"       -> x.rdap.reseller
    [] id = "securitytxt"       -> ~x.sectxt.present
    [] id = "ns_holder_transparent" -> \E d \in DOMAIN x.holder : x.holder[d] # "named"
    [] id = "domain_expiry"     -> /\ x.rdap.expiry # <<>>
                                   /\ x.rdap.expiry[2] - day <= domainExpiryUrgentDays
    [] id = "registrant_identifiable" ->
         \/ x.rdap.name \in {<<>>, <<"absent">>}
         \/ ToSet(x.rdap.name) \cap PrivacyProxyWords # {}
    [] id = "transit_eu_path"   -> /\ Located(x) # {}
                                   /\ HostedIn(x) \notin eeaCountries
    [] id \in StandardRules     -> "failed" \in StandardSays(x, id, day)

GroundedRules == JurisdictionRules \cup StandardRules \cup
  {"no_us_hyperscaler", "cert_issuer_eea", "cert_validity", "dns_redundancy",
   "caa_restricts", "no_reseller", "securitytxt", "ns_holder_transparent",
   "domain_expiry", "registrant_identifiable", "transit_eu_path"}

BlameIsDeserved ==
  Perimeter => \A id \in GroundedRules :
    Wand(id) = Afhankelijk => Deserved(w, id, now)

\* Whatever fails, soeverein is said only when the world holds a fact for
\* it: an empty or failed look at the world is never praise.
Earned(x, id, day) ==
  CASE id \in JurisdictionRules -> \E g \in Geos(x, id) : g.country \in eeaCountries
    [] id = "cert_issuer_eea"   -> x.cert.countries \cap eeaCountries # {}
    [] id = "cert_validity"     -> x.cert.left >= expiringSoonThresholdDays
    [] id = "no_reseller"       -> ~x.rdap.reseller
    [] id = "securitytxt"       -> x.sectxt.present /\ x.sectxt.expires[2] > day
    [] id = "ns_holder_transparent" -> \E d \in DOMAIN x.holder : x.holder[d] = "named"
    [] id = "domain_expiry"     -> x.rdap.expiry[2] - day > domainExpirySafeDays
    [] id = "registrant_identifiable" -> x.rdap.name # <<>> /\ case.expected # {}
    [] id = "soa_rname"         -> x.soa.mx /\ Resolve(x, x.soa.mailbox) # <<>>
    [] id = "transit_eu_path"   -> /\ Located(x) # {}
                                   /\ HostedIn(x) \in eeaCountries
    [] id = "variant_convergence" ->
         \E p \in Open(x) : \E o \in Destination(x, p) : "https" \in {p.scheme, o.scheme}
    [] id = "http_exposure"     -> {} \in {x.http.missing, x.http.missingPlain}
    [] id \in StandardRules     ->
         /\ "passed" \in StandardSays(x, id, day)
         /\ StandardSays(x, id, day) \cap {"failed", "warning", "info"} = {}

PraiseIsEarned ==
  Perimeter => \A id \in (GroundedRules \ {"no_us_hyperscaler", "dns_redundancy", "caa_restricts"})
                         \cup {"soa_rname", "http_exposure", "variant_convergence"} :
    Wand(id) = Soeverein => Earned(w, id, now)

\* An operator that leads a verdict ("hosted at ...") runs one of the hosts
\* the verdict is about, by its own name or by its network's: the synthesis
\* in memory and the rule on the store speak of the same hosts.
OperatorsOf(x, id, table) ==
  UNION {{operatorBySuffix(h, table, g.org) : g \in ToSet(Resolve(x, h))}
           \cup {operatorBySuffix(h, table, "")} : h \in HostsAsked(x, id)}

LeadIsAnOperator ==
  Perimeter =>
    LET Lead(id) == ToSet(ResultOf(verdict.wand, id).lead)
    IN  /\ Lead("mx_vendor_jurisdiction") \subseteq
             OperatorsOf(w, "mx_vendor_jurisdiction", mailOperatorSuffixes)
        /\ Lead("ns_vendor_jurisdiction") \subseteq
             OperatorsOf(w, "ns_vendor_jurisdiction", dnsOperatorSuffixes)
        /\ Lead("apex_ip_eea") \subseteq {hostingOperator(g.org) : g \in Geos(w, "apex_ip_eea")}
        /\ Lead("third_parties_eea") \subseteq
             UNION {{h} \cup {operatorBySuffix(h, thirdPartyVendorSuffixes, g.org) :
                       g \in {x \in ToSet(Resolve(w, h)) : OutsideEEA(x)}} : h \in w.http.third}

\* The two packs never contradict each other: what the European framework
\* calls sovereign the wand pack does too, on the same stored rows, and
\* both name the same American operators.
Agreement(W, E) ==
  LET Implies(e, wd) == ScoreOf(E, e) = Soeverein => ScoreOf(W, wd) = Soeverein
      Blames(e, wd1, wd2) == (ScoreOf(E, e) = Afhankelijk)
                               = (Afhankelijk \in {ScoreOf(W, wd1), ScoreOf(W, wd2)})
  IN  /\ Implies("cert_issuer_eu", "cert_issuer_eea")
      /\ Implies("apex_jurisdiction", "apex_ip_eea")
      /\ Implies("mx_jurisdiction", "mx_vendor_jurisdiction")
      /\ Implies("operational_eu", "third_parties_eea")
      /\ ResultOf(E, "no_us_hyperscaler").ev = ResultOf(W, "no_us_hyperscaler").ev
      /\ Blames("host_no_us_telemetry", "us_telemetry_packages", "us_telemetry_services")
      /\ Blames("container_supply_chain", "images_us_registry", "containers_us_registry")

PacksAgree == Assessed => Agreement(verdict.wand, verdict.eucsf)

(***************************************************************************)
(* What the code's own comments say of it.                                 *)
(***************************************************************************)
\* reason.go: a reason of class gap "Counts as a missing observation, same
\* as an evidence-less rule": taking such rules out of a dimension leaves
\* its score as it is.
GapIsMissing ==
  Assessed => \A dim \in WandDimensions :
    LET D == OfDim(verdict.wand, dim)
        measured == {r \in Evidenced(D) : r.res.reason \notin ReasonGap}
    IN  measured # {} => verdict.wandDims[dim].score = Worst(measured)
=============================================================================
