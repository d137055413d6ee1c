# Wanderer: formal models

TLA+ models of the parts of Wanderer in which several goroutines, processes or
machines share state, and of the way from what the probes see to the verdicts,
with TLC configurations that check them on small
instances and TLAPS proofs that hold for every value of the constants.
`PROJECT.json` lists components, runs, mutants, hazards, findings and theorems,
and maps every definition to the lines it models.

## 1. The system

Wanderer measures where the services behind a domain are hosted and who
controls them. A *core* (`wanderer serve`) scans domains from outside, stores
findings in SQLite, judges them with rule packs and shows the result. *Agents*
(`wanderer agent`) run on hosts, look at them from inside and send findings to
the core.

| Component | State it keeps | Operations | Hard behaviour |
|---|---|---|---|
| Agent tick and outbox (`cmd/wanderer/agent.go`, `internal/agent/outbox.go`, `remote.go`) | batch in hand, spool files | Drain, collect, POST with retries, Spool, Prune | a request the agent gave up on still runs at the core; crash between write, rename and remove; no fsync; directory limit |
| Ingest (`internal/api/findings.go`, `store.AppendBatch`) | `finding_batches`, `findings` | verify, validate, append once | duplicates, revocation between check and write |
| Enrolment (`internal/agent/enrol.go`, `api/agents.go`, `store/agent.go`) | tokens, agents, key file | mint, exchange, revoke, EnsureSecret | lost answer after commit; torn key file; token used twice |
| Scan orchestration (`internal/scanner/scanner.go` and the synthesis files) | scan row, findings in memory and in the table, enriched target | probes in two passes, synthesis, status, Publish | probes run concurrently and may panic, fail or time out; the budget may end between any two statements |
| Scheduler (`internal/scheduler`, `cmd/wanderer/serve.go`) | the current cron, jobs in flight | New, Reload, Start, Stop, SIGHUP, SIGTERM | reload during jobs, reload during shutdown |
| Scan history: drift, assessments, Internet.nl imports (`internal/drift`, `store/drift.go`, `scanner/netnlimport.go`, `scheduler/assess.go`) | scans of a target, drift findings, assessments, imported files | a tick's pipeline, an import request | overlapping writers on one target; check-then-act across store calls |
| UI login (`internal/ui/auth.go`, `store/session.go`, `auth/oidc/oidc.go`) | session rows, pending logins, two cookies per browser | login, callback, gate with revalidation, logout | requests of one browser revalidate at once with copies of one row; browsers leave; the provider rotates tokens, fails or disables an account |
| Fleet and UI pages (`internal/ui`, `store/fleet.go`, `store/organisation.go`) | targets with organisation and removed flag | add and remove a domain, scan in the background; door, fleet, answer, assessment, targets, trends and status pages | check-then-insert over three queries; five pages choose scans and assessments each in their own way |
| Store (`internal/store`) | all tables | upserts, migrations | SELECT-then-INSERT without a transaction |
| Exporters, Nextcloud publisher (`internal/export`) | remote files | Publish | partial uploads |
| Probes and inspectors (`internal/probe`) | none | Run, Inspect | a lookup that fails must not read as a fact; rows in the order probes finish and Go maps iterate |
| Variants probe (`internal/probe/variants`) | budget and origins shared by eight paths | follow | redirects in circles, private addresses, families that are dead, a context that ends half way |
| Syntheses (`internal/scanner/mailrouting.go` and five others, `nsholder.go`) | none | one aggregate row each | they read memory, the rules read the table |
| Assessor and rule packs (`internal/assessor`) | none | Assess | gaps against facts, first and last rows, the clock, two packs over one set of rows |
| Flow capture (`internal/probe/egress/flow`) | connection counters | capture, flush | counters under concurrent reads |
| MCP server, read API, CLI | none | reads, and POST of an assessment | none of their own |

Interaction: an agent enrols (AgentEnrolment), then delivers batches signed
with its key (AgentDelivery). The scheduler (SchedulerLifecycle) starts jobs;
each job runs a scan (ScanRun) and then judges and compares it with earlier
scans (ScanHistory), which also sees Internet.nl imports. What a scan says, from
the world to the verdict, is a model of its own (Posture), with the doors of
the site (Variants) as one of its probes. People sign in (UISession), keep
fleets of domains, start scans and read pages (UIFleet). All of them write
through one SQLite connection (`SetMaxOpenConns(1)`): a store call is atomic,
a sequence of store calls is not.

## 2. Modules

| Module | Models | Checked by |
|---|---|---|
| `BatchLedger` | what delivery promises: a batch is minted, stored at most once, or given up | refined by `AgentDelivery` |
| `AgentDelivery` | tick, outbox, POST, ingest | `agent_*` runs, `AgentDeliveryProofs` |
| `AgentEnrolment` | tokens, exchange, key file | `enrolment` run, `AgentEnrolmentProofs` |
| `ScanRun` | one `Scanner.Scan`, its control | `scan_run`, `ScanRunProofs` |
| `ScanHistory` | the scans of one target under ticks and imports | `history`, `history_twice`, `ScanHistoryProofs` |
| `Assessor` | the engine: evidence, reasons, score and completeness of a dimension | `posture*` runs |
| `WandRules`, `HostRules`, `EucsfRules`, `RulePacks` | every rule of both packs, and the packs | `posture*` runs |
| `Probes`, `Inventory` | the rows each probe and each inspector writes | `posture*` runs |
| `Variants` | the walk along the eight doors of a site | `posture*` runs |
| `Syntheses` | the aggregate rows | `posture*` runs |
| `Posture` | composes these nine: a scan from the world to both assessments | `posture*` runs, `PostureProofs` |
| `SchedulerLifecycle` | cron, reload, stop | `scheduler`, `SchedulerLifecycleProofs` |
| `UISession` | sign-in, sessions, revalidation, logout | `ui_session`, `UISessionProofs` |
| `UIPages`, `FleetPages` | what pages about one scan, and about many targets, compute | `ui_fleet`, `UIFleetProofs` |
| `UIFleet` | composes them with the requests, goroutines and store calls behind the pages | `ui_fleet`, `UIFleetProofs` |

The `MC*` modules give constants their values; every definition a run uses is
the one the proofs use.

### AgentDelivery

A tick is `TickStart` (Drain lists the directory once), then per listed file
`DrainSend`, the call, and `DrainAck` or `DrainFails`; then `Collect`, up to
`MaxAttempts` calls, and `SpoolWrite`, `SpoolRename`, `PruneOldest`,
`PruneDone`. A call has the steps `CoreVerify` and `CoreAppend` at the core;
`LiveFails` and `DrainFails` may happen at any of them, and what the agent
abandoned goes on as a *late* request. `file` is the directory as the running
kernel shows it and `disk` what a power cut leaves of it: the code never calls
fsync, so `Sync` of a file and of its rename are steps of the environment.
File names sort by second and then by random bytes, hence `FreshNames`: any
order is possible when two spools fall in one second or the clock steps back.
Two names being equal (same second and same three random bytes) is left out.

### AgentEnrolment

`EnrolAgent` is one transaction (`CoreEnrols`); the answer, the write of the
key file and the start of the agent are steps of the machine, and it may die
at each. Keys stand for the digests of the secrets, so the file, the row and
the signing key can be compared. Two machines with one hostname are included.

### ScanRun

`Begin` (UpsertTarget, CreateScan), `ExpectedRegistrant`, pass 1 with one
goroutine per probe, the join, the enriched target for the ip probe of pass 2,
the synthesis steps in their order, the terminal status, `FinishScan`, and
`Publish`. A probe returns findings, an error, a panic or a timeout; each
writer puts its findings in memory and then appends them under the scan's
context. Hosts are opaque; the aggregate of a synthesis step is the set of
hosts it was built from.

### ScanHistory

Each store call of a tick (`LookUpTarget`, `InsertTarget`, create, one append
per probe, finish, the assessment's reads and writes, the choice of the
previous scan, `drift.Compute`, the append of the drift findings) and of an
import (hash check, create, append, finish, record) is a step. What a scan
found is one value per *facet*: set facets (MX, NS, third parties) count as
empty without a finding, value facets (issuer, country) are compared when both
scans have them. A *scene* (`Scenes`) says what a behaviour is about: whether
writers overlap, which facets are looked at, how many import requests come and
how often the domain changes. `early` remembers the ticks that compared
themselves with a scan that was still being written.

### SchedulerLifecycle

The lock `mu`, the numbered crons with their state and jobs in flight, the
SIGHUP goroutine with a channel of one, and the main goroutine from SIGTERM to
the closed store. `Reload` and `Stop` are split where another goroutine can
come in between.

### UISession

Each request is a goroutine with a copy of the session row it read: `Page` up
to the first call to the provider, then `Refresh`, `Userinfo`, and `Save` or
`Drop`. `loginHandler`, `callbackHandler` and `Exchange` are the login;
`SignIn`, `Disable`, `Outage` and `Recover` are the provider's side, which is
external. `Leave` cancels a request's context: its later store calls fail, and
the code drops those errors. `Restart` forgets pending logins and requests and
keeps the table. A browser stands for its user; browsers outside `Users` never
sign in and may open any URL.

### UIFleet

Store calls are steps. An add request is `fleetAddHandler` and `AddFleetDomain`,
then `AddUpsert` and `AddInsert` for a new domain, `AddUnremove` and `AddGet` for
one of the organisation's own. Each of these calls may fail, also because the
browser left and its context is cancelled, and a write that fails may have taken
effect (`StoreFails`); every error is the same refusal to the user. `overtaken`
is history: what others did to the row since the request looked it up. A scan
from the UI goes from
`scanTriggerHandler` to `CreateAssessment` in its own goroutine; imports and
assessments by other callers share the tables. What findings amount to is an
*outcome*, the result of every rule, so that the pages can be compared without
the probes. The pages are operators on the tables of one state (`renderDoor`,
`fleetHandler`, `answerHandler`, `assessmentHandler`, `targetsHandler`,
`trendsHandler`, `scanStatusHandler`); `UIPages` and `FleetPages` hold what
they compute. Row order, wording and chart geometry are left out, and so are
the helpers no page uses any more (`RecentActivity`, `PostureCounts`,
`BuildHeadline`).

### Posture

`ScanRun` asks whether findings survive; `Posture` asks whether they are true.
A *case* is a world (`Probes` lists its parts: hosts with the addresses and
owners GeoIP gives them, mail and name servers, CAA records, certificate, RDAP
entry, web page, security.txt, SOA, traceroute, imports, and for `Variants` the
URLs of the site, the families nothing listens on and whether the scanner has
IPv6), the probes that run, and the lookups that may fail. Initially a set of at most `MaxFailures` of
those lookups is chosen. `FinishProbe` stores what a probe of the first pass
wrote, in any order of probes; rows that come out of a Go map come in any order.
`SecondPass` derives the related hosts from memory and runs the ip probe on
them, `Synthesise` appends the six aggregates, `HolderLookups` the RDAP answers
for the name servers' domains. `AssessScan` reads the table and the imports of
the target, applies both packs and may run again on a later day. A host case is
an agent's batch: `InspectHost` runs the inspectors one after the other.

`mem` (registration order) and `rows` (order of completion) are kept apart
because the code reads one for the syntheses and the other for the rules.
`Truth`, `Deserved` and `Earned` are the reference: they read the world and
nothing else, so a property compares two independent derivations.

Tables and catalogues are represented by one entry for each case the code tells
apart, and names are opaque: suffix and substring matching is not modelled.

`Variants` walks the eight paths in the code's order. A path ends at an origin
its family reached before, without budget, at a host without an address, at an
address the guard refuses, at a hop that fails, after five redirects, or at a
page. The reference, `DoorsDeserve`, follows every door by itself with no budget
and no memory of other paths.

## 3. Runs

Passing runs:

| Run | Shows |
|---|---|
| `agent_delivery` | a batch is stored at most once (`StoredOnce`), none vanishes without a cause the code knows (`NoSilentLoss`), and the protocol implements `BatchLedger` (`LedgerSpec`), with disk faults, revocation, late requests, a crash or a power cut |
| `agent_outbox` | without deaths pruning is the only loss; the directory exceeds its limit by at most one batch per interrupted prune; every spool file is settled unless a refused one sorts before it |
| `enrolment` | a token enrols one hostname, keys are private, a running agent signs with a key the core verifies unless the write of its key file was cut short, and a key the core accepts is lost only by a machine that is fetching it or writing it down |
| `scan_run` | findings are appended once and as memory has them; a returned scan is in the store to the last finding (`ReturnedIsStored`); pass 2 is offered every host; synthesis is never overtaken by later evidence; Scan returns |
| `history` | one baseline per target, import answers are true, assessments never rest on older Internet.nl results than an earlier one, drift is lost only with a whole facet, and can be recomputed from the store when the scan it was compared with was over |
| `posture` | when no lookup fails, the verdicts on where apex, mail, name servers and third parties are, whether a hyperscaler is involved and whether the doors of the site converge are the true ones (`VerdictIsTrue`); whatever fails, `afhankelijk` has a fact behind it (`BlameIsDeserved`) and so has `soeverein` (`PraiseIsEarned`); an operator a verdict names runs one of the hosts it is about (`LeadIsAnOperator`); the two packs do not contradict each other (`PacksAgree`) |
| `scheduler` | until Stop one schedule set fires; a job that starts after Stop belongs to a reload that came later; reload and shutdown complete |
| `ui_session` | a disabled account is cut off (`DisableCutsAccess`), no revalidation prolongs a session (`HardLifetime`) or revives one that ended (`EndedStaysEnded`), a login attempt makes one session, in its own browser (`LoginIsBound`), and a session is lost to a revalidation only for a reason (`LostSessionHasCause`) |
| `ui_fleet` | the door, fleet, answer, assessment and trends pages agree with each other and with the tables (`DoorAndFleetAgree`, `AnswerMatchesDoor`, `AggregatesAddUp`), a score is missing only for a cause (`HiddenScoreHasCause`), an add request is answered truly unless it was overtaken, is refused only for a cause, and no domain changes hands (`AddAnswersAreTrue`), and a scan asked for in the UI ends (`ScanSettles`) |

Type invariants are proved where there is a proof module and are not repeated in
the runs.

Runs that end in a violation, each with a finding in `PROJECT.json` that quotes
the sentence the code does not keep:

| Run | What happens |
|---|---|
| `history_twice` | two requests store one file twice |
| `posture_gap` | RDAP is unavailable; the rule on domain expiry reports a gap with evidence, and the whole dimension becomes `onbekend` |
| `scan_timeout` | a probe overruns its budget and counts as done: the scan is `complete`, where the scanner spec wants `partial` |

Other places where code and documents part, met while modelling. The models
contain the behaviour, and the properties above are stated so as to admit it:

* Spool renames first and prunes afterwards, so the directory is above its
  limit for a moment (inventory-probe spec, lines 172-175); see `OutboxBounded`.
* A key file cut short by a death wins over every later token; see
  `RunningKeyWorks`.
* `PreviousScanForTarget` may pick a running scan, or an import scan whose
  findings are not stored yet (comment in `store/drift.go`, lines 13-17).
* A facet without findings in the new scan makes a drift finding without
  subject, and the whole append of drift findings is rolled back; see
  `LostDriftHasCause`.
* Two overlapping first ticks of a domain: the second insert of the target
  fails, and with it the scan. Scans of one target do overlap
  (`docs/how-to/scheduling.md`, lines 80-82, says they wait).
* A batch the core refuses for good stays in front of the outbox and blocks the
  files behind it; `SpooledIsSettled` excepts exactly those.
* Publish runs although the terminal update of the row failed, for instance
  because the budget ended before it; see `ReturnedIsStored`. It also runs
  before the assessment, so the bundle of a fresh scan has none
  (`nextcloud/publisher.go`, lines 63-70).
* An enrolment answer lost after the commit leaves a spent token and a taken
  hostname (`ExchangeFails` in `AgentEnrolment`).
* Nothing locates an identity provider, and the agent configures no resolver
  for object stores (`cmd/wanderer/agent.go`, line 172): both Nextcloud rules
  find no country and say `afhankelijk` wherever the service is.
* The row that says a package manager is not there (`inventory.go`, lines 37-45)
  passes `IsEvidenceLike` and has the prefix the package rules look for: a host
  without a package manager is `soeverein` on telemetry packages. Hence
  `PraiseIsEarned` speaks of perimeter cases.
* An unreadable Nextcloud configuration is ignored by the eucsf rule as soon as
  one identity provider row exists.
* The RDAP country may be a name in words; `registrarJurisdiction` compares it
  with two-letter codes. The SOA probe reads a failing lookup of the mailbox
  domain as "does not resolve". A failing HTTPS fetch falls back to plain HTTP,
  whose page has no HSTS. The three rules concerned are therefore not among the
  `GroundedRules`.
* Standards with warnings only are `voldoende`; the comment at
  `standards_rules.go`, line 273, says `afhankelijk` when none passed.
* `rule.go`, lines 1-5, calls rules deterministic; three of them read the clock.
* Jobs are not cancelled on SIGTERM and the wait for them has no limit
  (`docs/how-to/scheduling.md`, lines 54-56); while Reload waits for jobs no
  schedule fires (scheduling spec, line 35). A SIGHUP after Stop starts a new
  cron (`serve.go`, line 202); see `LateFiringHasCause`.
* A panic finding goes to the last scan in the list, of whatever target
  (`scheduler.go`, line 194).
* `transit_rules.go`, lines 13-18, scores the destination of a traceroute; line
  53 takes the last hop that answered and has a country, which is a transit hop
  when the destination is silent (`Located` in `Posture`).
* Variants. An apex that redirects in circles uses up the budget, the www paths
  are `not_followed_budget`, and the rule says `afhankelijk` because no path
  reached a page, although such paths "SHALL NOT count as dead"
  (`openspec/specs/assessor/spec.md`, line 694). A lookup that fails, or a
  context that ends during the walk, reads as a dead door, hence
  `BlameIsDeserved` leaves the rule out. An https door that redirects to plain
  http converges as long as no http door is open: only doors that start with
  http are checked for it (`accountability_rules.go`, line 695; the spec, lines
  686-692, asks for "a single canonical HTTPS origin"). The shortcut at a known origin compares origins, not
  pages. The verdict counts unreachable paths among those that converge.
* UI pages. `SovereigntyFlows` says "the latest rationale per rule"
  (`flows.go`, line 70) and takes the last of a list that is sorted newest
  first, so the fleet page shows the oldest of two assessments of one scan and
  the door the newest. "Latest voltooide scan" (`fleet_score.go`, line 54) is
  the latest scan, which has no score while it runs or when it failed; the
  fleet page shows such a scan as 0 of 0 and its delta as a loss. The status
  page polls without end when Scan fails before it has a row, and that of a
  second scan leads to the answer of the first.
* Two adds of one domain by different organisations: when one inserts it between
  the two lookups of the other, the second lookup returns that row and the other
  organisation is told it was added, although a domain of "a DIFFERENT
  organisation is rejected" (`fleet.go`, lines 19-20); when it comes in after the
  second lookup, the insert fails. `AddAnswersAreTrue` admits a wrong answer for
  such an insert only: a refusal that names another organisation is never wrong,
  and the row stays with whoever inserted it.
* A refused add may have taken effect: the un-remove is stored and the read after
  it fails, or a write is carried out and its context is cancelled before it
  returns (`AddUnremove`, `AddGet`, `AddInsert`).
* `logoutHandler` drops the error of DeleteSession: the cookie is cleared and the
  row stays until it expires, although "logout deletes the session row" (ADR
  0013). `EndedStaysEnded` speaks of rows that were deleted.
* A scanner without an IPv6 route: of four IPv4 doors that converge "the rule
  scores soeverein on the observed v4 paths" (`openspec/specs/assessor/spec.md`,
  line 718). `variant_convergence` says so together with the structural reason
  `scanner_no_ipv6`, and the engine turns a score with a reason into `onbekend`
  (`engine.go`, line 75), as line 737 of the same document demands. `ConvergenceTruth` in
  `Posture` is what the code does.
* Sessions. "Refresh failure: the account was disabled or consent revoked"
  (`oidc.go`, lines 181-182) is also an outage, which ADR 0013 documents, or
  two requests with one rotating token; see `LostSessionHasCause`. A request
  whose browser left cannot write the rotated token, and the session is lost at
  the next one. A late failure clears the cookie of a session made since.
  Expired pending logins stay in memory until the next login.

### Bounds

* Agent: two batches are what it takes for one to be retried while another is
  live; three for pruning to choose. `MaxAttempts` 2 has a first and a last
  attempt. One late request per batch gives the duplicate; one crash between
  any two steps gives every restart. `MaxBytes` 3 with sizes 1 and 2 makes the
  limit bite at and above equality.
* Enrolment: three machines, two with one name, and two tokens give every
  conflict over a name, a token or both.
* Scan: two pass-1 probes run concurrently, one pass-2 probe follows; two hosts
  let two writers see different hosts; three synthesis steps include one that
  looks hosts up itself.
* History: two ticks and two imports are every pair of writers; one of them may
  meet errors, panic or die at any store call (`MaxUpsets`). Four scenes share
  the run: all four writers at once, two ticks at once while a set facet
  changes, two ticks in turn while a set facet and a value facet change, and
  two ticks and an import in turn. One change of the world gives each drift
  verdict.
* Posture: a world per theme (mail, apex, name servers, page, doors,
  accountability, transit, imports, host), each varied in what its rules tell apart, keeps the
  product of themes small; rules of other themes run on the same rows.
  `MaxFailures` 2 lets one failure hide another. `Days` 40, 70 and 100 meet, in the
  worlds' dates, the thresholds of 30 and 90 days exactly and on both sides.
  `SampleCap` 2 (10 in the code) is reached by the host cases. The doors: one
  room, a plain door, two rooms, https doors that lead to a plain room, a private
  address, a chain of as many redirects as are followed and circles that use up
  the budget of 24, each with families that are dead, absent or unknown to the
  scanner. Third parties come in every order of the page's map; they run without
  the certificate's probe, whose rows they do not share.
* Scheduler: four crons are three reloads; two jobs of one cron overlap.
* UI sessions: two requests are enough to revalidate one row at once; two login
  attempts and two sessions let a late request meet a newer session; the second
  browser opens the first one's callback URLs. Lifetimes of one tick on a clock
  of two have every event before, at and after each expiry. `MaxFaults` 1.
* UI fleet: two organisations, two domains, two add requests at a time. Five
  budgets share the run: three adds, two removals and a store call that fails,
  enough for a domain that two organisations add at once, and for one that is
  removed and added again while it is removed once more; an add and a removal
  around one scan that may go wrong, as scans create targets too; and two scans
  with a removal, with an extra assessment, and with an upset.
  Three outcomes tell apart nothing found, all in order, and a failed flow next
  to an unknown one.

Runs with `CHECK_DEADLOCK FALSE` model something that ends: a scan that
returned, a set of requests, an exited process, a fleet that is enrolled.

### Fairness

* Agent: weak fairness for every step the process takes by itself. Strong
  fairness for a drain attempt before the deadline, for the core's verify and
  append and for the answer: the core is reachable now and then. The deadline,
  the faults and the crash have none.
* Scan: weak fairness for Scan and for each probe's goroutine; `runOne` bounds
  each probe by a timeout.
* UI fleet: weak fairness for each store call of a job: the runtime runs every
  goroutine and the store answers. Nothing is assumed of users and other
  callers.
* Scheduler: weak fairness for both goroutines and for the end of each job
  (every job has a timeout); strong fairness for Stop taking the lock, which
  Go's mutex gives a waiter after a millisecond (starvation mode).

## 4. Proofs

Every theorem is for arbitrary constants under the module's ASSUME. The
argument is the same throughout: an inductive invariant that contains the type
invariant, one lemma per action, a temporal step at the end.

* `AgentDeliveryProofs`: `IInv == TypeOK /\ SafetyInv /\ LossInv`. `StoredOnce`
  alone is not inductive: `SafetyInv` ties `copies` to `recorded` and an
  acknowledged call to the record; `LossInv` says that what Drain holds has a
  file and that a torn file has a power cut behind it. `ImplementsLedger` maps
  each step to a ledger step or a stutter. `OutboxStaysBounded` is about a sum
  over a set of files: the fold behind `Total` is taken apart by lemmas on a
  smallest counterexample, which replaces induction over the set; the bound
  itself is then inductive together with `IInv`.
* `ScanRunProofs`: `ScanInv` has one part per writer (where its findings are
  relative to its goroutine), one per stage of Scan (what has joined), and one
  for the row.
* `AgentEnrolmentProofs`: `EnrolInv` follows a key from the draw through the
  row, the answer, memory and the file, and a token to the name it enrolled.
  For `KeysSurviveRestarts` the key is followed backwards: `PlaceInv` says which
  file a machine has at each place of its program, so that only the two steps
  that answer or write a key can take one away.
* `SchedulerLifecycleProofs`: `LifecycleInv` says which crons are built, that
  only the current one or the one being stopped has jobs, and what Stop holds.
  `LateFiringIsReloaded` adds which of the crons were built after Stop
  (`LateInv`): a job that starts late cannot belong to one Stop has waited for.
* `ScanHistoryProofs`: `HistoryInv` says that start times are distinct and never
  in the future, what a writer has stored at each place, that an import is
  recorded after all of it is stored, that a tick compares itself with an
  earlier scan or is the first, and what it read from memory and from the
  table. Two lemmas over all actions carry the rest: `Stable` (what no step
  takes back) and `Turns` (the only step that leads to a place). The order of
  scans is a choice of the latest one; that a latest one exists is shown from
  the well-foundedness of `<`, which stands in for induction over the clock.
  `FrozenInv` is what makes drift reproducible: a tick not in `early` computed
  its drift from findings that no step changes any more.
* `UISessionProofs`: the parts of `IInv` are `KnownInv` (whoever names a session
  names one that was made), `LoginInv` (an attempt is pending, in one exchange,
  or spent on one session), `TimeInv` (a row keeps the expiry of its login; a
  row or a request that passed the provider did so before the disable, give or
  take one request), and for the tokens `FaultInv`, `FixedInv`, `RotatingInv`
  and `CauseInv`: while nothing failed and no two requests share a session, its
  one request, or else its row, holds the refresh token the provider accepts.
  `LostSessionHasCause` needs all four, as the cause lies several steps before
  the deletion. A lemma per action says what it does to the copy of its request,
  and the two action properties follow from how a page can be opened
  (`OpensStep`).
* `PostureProofs`, the agreement of the packs: no inductive invariant is needed.
  `PacksNeverContradict` rests on `AgreementOnRows`, the agreement of the packs
  on every sequence of findings: each rule's result is found by its id, and each
  pair of rules is compared (EU countries are EEA countries; the top seal level
  leaves no located row outside the EU; a combined hit rule hits where one of
  its parts does). `DimensionIsWorstRule` says what the engine computes; it
  needs no induction over the rules, as there are four ranks.
* `PostureProofs`, the worth of a verdict: `IInv` is `RowsAreTrue` (every row of
  a perimeter scan, in memory or stored, is true of the world) with
  `VerdictIsOfRows` (a verdict is the one of the stored rows, on a day
  assessments run on). That each row is true is not enough: "fewer than two name
  servers" and "the last located hop" speak of rows that are absent. So
  `Faithful` also says that name servers and hops are stored all or not at all,
  and it holds of each store because each probe appends its rows in one batch.
  `RowTrue` says per kind of row what the world must hold, and is as strong as
  the rules need: a located address is one of a host the rule asks about, a
  reported end of a path is one the redirects lead to, a vendor outside the EEA
  has an address there. The proof goes probe by probe (for any set of failing
  lookups), synthesis by synthesis (true rows give true aggregates), action by
  action, and then rule by rule from `Faithful` alone. `BlameDeserved`,
  `PraiseEarned` and `LeadsAreTrue` are the last step. For `variants` a lemma
  follows the walk: a path that stops at an origin seen before stops where some
  earlier path of the family ended, so its origin is one the world serves.
  The theorems assume of a world (`WorldsAssumption`) that its fields are there,
  have their shapes and their sets are finite, that no domain, host or name
  server has an empty name, that the holder of each one's domain is in the world,
  and that a site redirects to http or https only; nothing is assumed of which lookups fail or how many
  redirects there are. The proof attempts corrected the model in four places: a
  measurement whose date cannot be read is never too old (`StandardSays`); what
  robots.txt forbids to read is not judged (`Readable`); the lookup of
  robots.txt fails on its own; and a site that leads from https down to http
  (`Downhill`) joined the worlds of the run.

* `PostureProofs`, the completeness of a scan: `BlameDeserved` and `PraiseEarned`
  say that a verdict has a fact behind it, `VerdictsAreTrue` the converse, that
  a scan in which nothing fails finds what the world holds. Its invariant is
  `NothingMissed`, inductive together with `IInv`: a probe that finished has left,
  in memory and in the store, a row for everything these questions read of it,
  and such a row says what the world holds.
  The argument follows the scan. A walk of `Variants` that is
  neither refused nor stopped is followed exactly (`WalksExact`): a walk that
  stops at an origin an earlier one reached ends where that one did, and the ends
  told per family are those of the doors taken one by one (`DoorsExact`). `ProbeSeen` says
  what each probe leaves when no lookup of its own fails. Every host a question
  is about reaches the second pass (`RelatedSeen`) and is located there
  (`IpSeen`). `VerdictsTold` then computes each rule on a table of which both
  directions are known. The reference `Truth` reads the world and never a row.
  What the proof needs of a question is `AsksAssumption`: the probes that look at
  what it is about are registered, and for `variant_convergence` an origin that
  serves one page serves every page asked of it, five redirects suffice and the
  24 connections last for the eight walks. `asks` leaves `variant_convergence`
  out of the worlds where a site redirects in circles. That an origin serves every
  page or none is what the code takes for granted when it stops at an origin it
  knows: else a walk counts as arrived whose own page is not there.

* `UIFleetProofs`: `FleetInv` is `TypeOK` with `RowInv` (whoever is
  past the upsert has a row in targets), `AddInv` (an add request that found no
  row finds one later only if someone inserted it since, one that found its
  organisation's own row keeps it, and neither finds it removed unless someone
  removed it since), `JobInv` (which row a scan
  goroutine has written at each place, and that only a failure leaves one
  running) and `SheetInv` (a judgement made after the end of a scan judges the
  findings it ended with, and so do all newer ones). The page theorems then
  compare what four handlers compute from one list of judgements: a page depends
  on that list only through its wand verdicts, the newest scan and the newest
  judgement exist because `<` is well-founded, and a set listed by `SetToSeq`
  is listed completely. `AggregatesAreRecounted` is about sums over all targets:
  `DoubleCount` says that the marks of a table are as many by row as by column,
  from lemmas on the library's fold that argue with a smallest counterexample;
  the fleet score is such a table (domains by flows), and so is the line of a
  rule in the catalogue (targets by scores). It rests on `PackAssumption`, what
  the packs and the engine guarantee of a verdict: one result per rule, on the
  scale of four, and a reason only where the score is unknown. The proof
  corrected the property: a rule that cites the failed probe for not knowing is
  counted as the worst one (finding `posture_gap`), so the pill of
  accountability can be unknown while its answer sheet has a no (`Masked`).

Only model-checked: liveness, which needs fairness. Every invariant and action
property of a passing run is a theorem.

## 5. What is left out, and the plan

Not modelled: wire formats and parsing, names imported from Amass, the egress
probe and flow capture (no rule reads their rows), the individual drift rules,
migrations (each is one transaction of SQL), the uploads of the publisher,
templates and export formats, configuration files, the MCP server's forwarding,
the command line. `PROJECT.json` names each with its reason.

Next: `DriftRules`, the pure rules against reference definitions.
