------------------------------ MODULE Variants ------------------------------
(***************************************************************************)
(* The variants probe (internal/probe/variants): does every door to the    *)
(* site, apex or www, IPv4 or IPv6, http or https, lead to one HTTPS       *)
(* origin?  The eight paths are walked one after the other; they share a   *)
(* budget of connections and the origins found reachable so far.           *)
(*                                                                         *)
(* The probe adds to the world                                             *)
(*   www      the name "www." in front of the domain                       *)
(*   site     URL -> <<"serves">> or <<"redirects", URL>>; a URL is a      *)
(*            triple <<scheme, host, page>>, and no other URL answers      *)
(*   silent   pairs <<family, host>> at which nothing listens              *)
(*   ipv6     the scanner has a route to the IPv6 internet                 *)
(* and to the lookups that may fail                                        *)
(*   <<"variants", host>>   the host cannot be resolved                    *)
(*   <<"variants", "late">> the context is over before the first path      *)
(*   <<"cut", k>>           the context ends before path k                 *)
(***************************************************************************)
EXTENDS Probes

maxRedirectsPerPath == 5
connectionBudget    == 24

Path(part, family, scheme) == [host_part |-> part, family |-> family, scheme |-> scheme]

paths == <<Path("apex", "v4", "http"), Path("apex", "v4", "https"),
           Path("apex", "v6", "http"), Path("apex", "v6", "https"),
           Path("www",  "v4", "http"), Path("www",  "v4", "https"),
           Path("www",  "v6", "http"), Path("www",  "v6", "https")>>

StartOf(w, p) == <<p.scheme, IF p.host_part = "apex" THEN w.domain ELSE w.www, "/">>

origin(url) == [scheme |-> url[1], host |-> url[2]]

\* The addresses a hop may dial; the guard of ssrf.go clears each of them.
IsPrivateOrMetadata(a) == a.addr \in {"10.0.0.5", "fd00::5"}
OfFamily(w, family, host) == {a \in ToSet(Resolve(w, host)) : a.v6 = (family = "v6")}
Refused(w, family, host)  == \A a \in OfFamily(w, family, host) : IsPrivateOrMetadata(a)

\* doHop gets an answer.
Answers(w, family, url) == url \in DOMAIN w.site /\ <<family, url[2]>> \notin w.silent

\* How a path ended, with the connections left.
Unended(status, left)     == [status |-> status, left |-> left]
Reached(url, left)        == [status |-> "reachable", final |-> origin(url), left |-> left]

\* The record of a path and of how it ended.
Ended(p, end) == [f \in DOMAIN p \cup DOMAIN end |-> IF f \in DOMAIN p THEN p[f] ELSE end[f]]

Redirects(w, url) == url \in DOMAIN w.site /\ w.site[url][1] = "redirects"

\* The URLs a walk comes to when nothing stops it.
urlsFrom(w, start) ==
  LET at[n \in 0..maxRedirectsPerPath] ==
        IF n = 0 THEN start
        ELSE IF Redirects(w, at[n - 1]) THEN w.site[at[n - 1]][2] ELSE at[n - 1]
  IN  at

\* follow: from hop to hop, one connection each, until an origin this family
\* reached before, the end of the budget, a host without an address, an
\* address the guard refuses, a hop that fails, one redirect too many, or a
\* page.  Down holds the hosts that cannot be resolved (any more).
follow(w, Down, family, start, budget, known) ==
  LET at   == urlsFrom(w, start)
      Undialled(n) == \/ origin(at[n]) \in known
                      \/ n = budget
                      \/ at[n][2] \in Down
                      \/ Refused(w, family, at[n][2])
      k    == Min({n \in 0..maxRedirectsPerPath :
                     \/ Undialled(n)
                     \/ ~Answers(w, family, at[n]) \/ ~Redirects(w, at[n])
                     \/ n = maxRedirectsPerPath})
      url  == at[k]
      left == budget - k
  IN  IF origin(url) \in known THEN Reached(url, left)
      ELSE IF left = 0 THEN Unended("not_followed_budget", left)
      ELSE IF url[2] \in Down \/ OfFamily(w, family, url[2]) = {}
      THEN Unended("unreachable", left)
      ELSE IF Refused(w, family, url[2]) THEN Unended("refused", left)
      ELSE IF Answers(w, family, url) /\ ~Redirects(w, url) THEN Reached(url, left - 1)
      ELSE Unended("unreachable", left - 1)

\* Mutant: what one family reached counts for the other.
verifiedByAny(v, family) == v["v4"] \cup v["v6"]

\* The origins a path of a family may stop at: an origin reached over IPv4
\* says nothing about IPv6.
verified(v, family) == v[family]

\* The paths walked so far, the connections left and the origins known, one
\* path later.
walkPath(w, F, acc, p) ==
  LET hosts == {w.domain, w.www} \cup {url[2] : url \in DOMAIN w.site}
      cut   == \E c \in 1 .. Len(acc.results) + 1 : <<"cut", c>> \in F
      Down  == IF cut THEN hosts ELSE {h \in hosts : <<"variants", h>> \in F}
      end   == follow(w, Down, p.family, StartOf(w, p), acc.left,
                      verified(acc.known, p.family))
  IN  IF p.family = "v6" /\ ~w.ipv6
      THEN [acc EXCEPT !.results = Append(@, Ended(p, [status |-> "not_tested",
                                                       reason |-> "scanner_no_ipv6"]))]
      ELSE [left    |-> end.left,
            known   |-> IF end.status = "reachable"
                        THEN [acc.known EXCEPT ![p.family] = @ \cup {end.final}]
                        ELSE acc.known,
            results |-> Append(acc.results, Ended(p, end))]

walkPaths(w, F) ==
  LET after[k \in 0..Len(paths)] ==
        IF k = 0 THEN [left |-> connectionBudget, results |-> <<>>,
                       known |-> [f \in {"v4", "v6"} |-> {}]]
        ELSE walkPath(w, F, after[k - 1], paths[k])
  IN  after

\* Run: one finding with the end of each path.
variantsRun(w, F) ==
  IF <<"variants", "late">> \in F
  THEN <<Finding("http.variants.unavailable", w.domain, [reason |-> "late"])>>
  ELSE <<Finding("http.variants", w.domain, [paths |-> walkPaths(w, F)[Len(paths)].results])>>
=============================================================================
