# heimdall: specifications, model checking and proofs

TLA+ modules of heimdall, the API scanner of this repository (`src/heimdall`), of the CI
pipeline that gates on its reports (`.github/workflows/scan.yml`), and of the targets it is
benchmarked on: `vulnapp` and the workshop service of the vendored crAPI. Every definition is
translated from the source; `PROJECT.json` names the lines (`map`), what can go wrong in them
(`hazards`), the runs, one mutant per property, and the theorems.

Run a model with `tlc -config MCScanEngine.cfg MCScanEngine`, a proof with
`tlapm ScanEngine_proofs.tla`.

## 1. Inventory

heimdall is one process with one thread. What makes it hard is not scheduling but order: a
scan is a long sequence of requests, each of which may be refused by its own client, lost, or
answered with anything; identities, evidence and findings of earlier steps are used by later
ones; and its reports are compared with reports of other days and other branches. The targets
are servers with threads: there it is the scheduling, and what a handler that broke off left.

| Part | State it keeps | Operations | Talks to |
|---|---|---|---|
| `scope.py` `Scope` | `allow_hosts`, `allow_public` | `from_targets`, `add`, `validate`, `check` | called by engine, client, replay |
| `http_client.py` `HttpClient` | `_last`, `_min_interval`, `unsafe`, the scope | `request` (gate, `_throttle`, send), `evidence_from` | called by auth and checks; the target |
| `engine.py` `scan` | endpoints, identities, `findings`, the loop over checks | `scan`, `_load_endpoints`, `scan_suite` | crawler, auth, checks, client |
| `auth/__init__.py` | `identities` | `build_identities`, `_register_and_login` | client |
| `crawler/openapi.py` | none | `load_spec` (its own httpx client), `parse_endpoints`, `fill_path` | the server of the document |
| `checks/*.py` | findings of the running check; `seen` of sqli | `run`, `replay`, `oracle` of bola, exposure, jwt, mass_assignment, sqli, ssrf | client; the transcript |
| `risk.py` | the register | `load_register`, `partition`, `apply_filters`, `diff_baseline`, `fail_on` | reports on disk, the date |
| `cli.py` | report files and exit statuses | `scan`, `gate`, `replay`, `eval`, `sast`, `correlate`, `explain`, `list-checks` | all of the above |
| `eval/harness.py` | `EvalResult` | `evaluate` | `scan` twice, expected.json |
| `correlate.py` | the matching | `correlate`, render | two reports |
| `sast/*.py` | the route index | `scan_source`, `resolve`, `run_semgrep` | Semgrep, source files |
| `report/*.py` | `TraceLog.events` | render, transcript | findings |
| `scan.yml` | runs, artifacts, the latest successful run on main | push, scan, baseline download, gate | `heimdall scan`, `heimdall gate` |
| `vulnapp/app.py` | users, notes, products | the demo API | it is scanned |
| crAPI workshop `shop/views.py` | credit, orders, coupons | orders, updates, returns, coupons | the tables, by the ORM |
| crAPI workshop `merchant/views.py` | none | `contact_mechanic` | its own server or another, by HTTP |
| crAPI workshop `mechanic/views.py` | users, mechanics, service requests, report files | sign-up, comments, status, reports | the tables, the disk |
| crAPI workshop `seed_database.py`, `runner.sh` | all tables | seeding at every start | the identity service, the tables |
| crAPI identity, community, chatbot, web | their own | - | the workshop |

Hard behaviours, and what correctness means for each part:

* **Client.** Time passes inside a request: the limiter sleeps, takes its timestamp, and the
  packet leaves later. Correct: nothing leaves the scope, nothing destructive leaves without
  `--unsafe`, packets keep the rate, no call waits longer than one interval, every call ends.
* **Scan.** Any request may fail, any check may be blocked or raise half way. Correct: every
  request of the client passes the gate; a finding cites an exchange of its own check that
  satisfied the oracle, on its own path or, for an escalation, behind the create on its own path;
  no positive is lost but by a check that failed; a
  failed check disturbs no other; the report is the findings without duplicates; it ends.
* **Gate and pipeline.** Register and baseline come from different commits and days than the
  report. Correct: what nobody accepted does not pass, and what passes on a pull request does
  not fail on main on the same day.
* **Replay.** It works from a report, with flags of its own, against a target of today. Correct: it
  reaches nothing the scan or its own flags do not allow; CONFIRMED rests on an answer of the
  replay; NOT REPRODUCED means that the target changed, or that the report cannot say how the
  finding was made; one verdict per finding.
* **Correlate.** Keys repeat in both reports. Correct: one-to-one, on equal keys, nothing lost,
  nothing left beside a free partner.
* **Commands.** They share files: a report is written before the exit status, in place, and read
  by later commands as report or baseline. Correct: an exit status says what the scan found that
  nobody accepted; who looks for the reason of a failed build finds it; nothing is hidden that
  nobody has seen; a report names what was scanned.
* **SAST.** A hit has a line, a finding a route. Correct: the route is one the line can be reached by.
* **Eval.** Two scans of two builds, with answers that get lost and visitors in between. Correct:
  the score has an explanation on the wire; the hardened build is silent; exit status 0 means the
  bugs were seen and the control looked where the first scan looked.
* **crAPI shop.** Read, change and save without a lock. Correct: who waits for answers has the credit they add
  up to; nobody's balance moves but by their own request; paid twice only by overlap; all of it until a
  coupon code is run as SQL.
* **crAPI mechanic pages.** Four inserts without a transaction, whole rows saved, files trimmed.
  Correct: who is told so is a mechanic; an answered status stays unless a save overlapped; the directory
  keeps its limit while reports come one after the other.
* **crAPI contact.** A handler asks its own server. Correct: retries are bounded and file a
  problem once per answer that did not arrive; every call ends unless all threads wait for each other,
  or a call for another server.
* **crAPI seeding.** It runs at every start, on the tables the last one left. Correct: nothing twice; what an
  earlier start left out is made, where the code looks for it; the server starts whatever fails.

## 2. Modules

| Module | Models | Built on |
|---|---|---|
| `Scope` | `scope.py`: URLs as a scheme flag and a host, the two ways a host is read | |
| `HttpClient` | one client: gate, limiter, departure, failure, answer, clock | `Scope` |
| `HttpClient_proofs` | its inductive invariant and what follows from it | `HttpClient`, `TLAPS` |
| `Checks` | what keeps no state: endpoints, hints, oracles, tokens, first steps | |
| `ScanContract` | abstract: what `scan` promises its callers | |
| `ScanEngine` | `scan` with spec fetch, logins and the six checks, one request per step | `Scope`, `Checks`; `ScanContract` by `INSTANCE` |
| `ScanEngine_proofs` | types, the wire and the evidence; then hits, findings and the report: three inductive invariants, seven theorems, and the refinement | `ScanEngine`, `TLAPS` |
| `Replay` | `heimdall replay` on the report of a scan | `ScanEngine` |
| `Matching` | abstract: a maximal one-to-one matching of keys | |
| `Correlate` | `correlate`, one finding per step | `Matching` by `INSTANCE` |
| `Correlate_proofs` | its inductive invariant, three theorems and the refinement | `Correlate`, `TLAPS` |
| `RiskGate` | `risk.py`: accepted, kept, baseline, threshold | |
| `CIGate` | `scan.yml` around `heimdall gate`, over days and pushes | `RiskGate` |
| `CIGate_proofs` | its inductive invariant and five theorems | `CIGate`, `TLAPS` |
| `Sast` | route index, resolution and fingerprints, as functions of a source tree | |
| `Cli` | `scan`, `sast`, `gate`, `correlate` as processes on shared files, over days | `RiskGate`, `Sast` |
| `Cli_proofs` | its inductive invariant, the route index, and four theorems | `Cli`, `TLAPS` |
| `VulnApp` | both builds of `vulnapp/app.py`: accounts, notes, what each handler shows an oracle | `Checks` |
| `Benchmark` | `evaluate` and `heimdall eval`: two scans of the two builds, composed step by step | `ScanEngine`, `VulnApp` |
| `Callers_proofs` | what stands on `scan`: six theorems about a replay, four about an evaluation and its target | `Replay`, `Benchmark`, `ScanEngine_proofs` |
| `Shop` | `shop/views.py` of crAPI, one statement per step | |
| `Shop_proofs` | sums over sets, its inductive invariant and three theorems | `Shop`, `TLAPS` |
| `Mechanic` | `mechanic/views.py` of crAPI: sign-up, service requests, report files | |
| `ContactMechanic` | `merchant/views.py` of crAPI and the handler it calls, on the threads of one worker | |
| `Seed` | `runner.sh` and `seed_database.py` of crAPI, with kills and restarts | |
| `Workshop_proofs` | the inductive invariants of the three, six theorems | `Mechanic`, `ContactMechanic`, `Seed`, `TLAPS` |
| `MC...` | small values of the constants of the module of that name | |

Mutants stand beside the definition they change, under a comment that says which mistake they
make (`Gate_NoScope`, `SqliInject_NoBreak`, ...). No specification uses them.

### Scope and HttpClient

`request` is three steps, because it is interruptible by time in three places: `Request_` is
the gate and the computation of the sleep (lines 77-83, 62), `Stamp` the end of the sleep and
`_last = time.monotonic()` (64-65), `Depart` the packet leaving (84). `ConnectFails` and
`Answer` end it; `Refuse` is the gate's two exceptions, which touch nothing. `Tick` may happen
between any two of them. The clock is a natural number and `Interval` is in ticks; `Boot`
bounds what `monotonic()` shows when the client is built, since `_last = 0.0` is compared with
it. `wire` is history: the packets with the stamp they were sent under and the time they left.
A method is whatever spelling the caller passes; `Upper` is `str.upper`.

### Checks and ScanEngine

A *job* is the arguments of `scan`. The phases of `scan` are the program counter, in order:
`validate`, `resolve` (`get_check`), `spec`, `crawl`, `auth`, `checks`, `run`, `dedup`, and the
ends `done`, `ScopeError`, `KeyError`, `ScanError`, `HTTPError`. `slot` is the loop index of
the phase, `item` and `step` the place inside a check. Each request is one action that asks the
gate (`Gate`, the verdict of `HttpClient.request`), appends the exchange to `wire` and judges
the answer; each gate exception is an action with the handler that catches it (`OutOfScope`,
`BlockedMethod`, `CheckErrors`). What a target answers is free, per request. A response is
abstracted to what an oracle tells apart: lost, below 400 or not, with or without the mark.
A path template stands for all the URLs filled from it; `offsite` says that joining it to the
target changes the host. A hint has two requests, each with a path of its own: the one that sets the probe
up (`Creation`) and the one that decides (`Decision`). They differ in the shipped suites, and for
`mass_assignment` they matter: its finding names the path and the method of the create, and cites
the confirm first (`PathOf`, `Cited`).

Three things let a check raise, apart from the two exceptions of the gate: a hint that lacks a key the
check reads or whose paths make no URL, an endpoint of the document whose path makes none (`sound = FALSE`
in both), and a token that does not decode to an object. Such an item may raise at any of its steps, because
which part of it is broken is not modelled; one that is sound does not raise. `engine.py:149` would catch
any other exception as well; the checks guard the bodies they parse. `hits` is the transcript of
`on_trace`, `wire` is history.

`Contract` maps the engine to `ScanContract`: closed while it validates, open while it scans,
and then returned with exactly the fingerprints it found, or raised with none.

### Replay

`Replay` EXTENDS the engine and goes on when a scan is `done`: its input is exactly a report a
scan can return, with the evidence that report cites, so that what a finding needs to be confirmed
and what its report still holds can be compared. `flags` are the options of the second command
line. The loop is `verdicts`: `Current` is the finding it looks at. `ReplayBlocked` is the
`PermissionError` clause, `ReplayOutOfScope` and a lost answer end the command because nothing
catches them. `TargetChanges` may happen at any time; while it has not, a request that is sent as
it was before is answered as it was before (`Answers`), which a request without the credentials it
had (`Stripped`) is not. `Judgements` is what the oracles say of an answer; the one of ssrf does not
know the `match` of the hint that may have made the finding, which leaves both verdicts open.
`again` is history.

### Correlate

A report is a sequence of method, path and CWE; `Upper` is `str.upper` on spellings. A finding is told
apart by its position, which is what `id()` does. `Correlated` and `DastOnly` are the two branches of
the loop for the finding `next`, `Return` is what follows it. `Joined` maps the positions and
their keys to `Matching`, which says neither which of several equal findings are paired nor in
which order: a loop step with a pair is a `Join`, the return a `Close`, which demands that no two
findings could still be joined, and setting a finding aside is a stutter.

### RiskGate and CIGate

Reports are sets of fingerprints, because neither filter looks at more and the order is not
looked at. `CIGate` has two refs, `main` and `pr`. A ref has a tip (the findings its target
really has, and its register) and at most one run, since a push cancels the run in progress.
`Scan` reports any subset of the findings of the tip: a check that errored reports nothing and
the step is green all the same. `Gate` is the gate step with the baseline download (which may
fail, `continue-on-error`) and the register of the ref, on today's date; `others` is whether the
rest of the run succeeded, on which "latest successful run on main" depends. The baseline is
the unfiltered report. `Merge` is a merge of the pull request when it is green, or an update of
it from main; GitHub itself is external. `cleared` is history: what main's register accepted on
a day main was gated.

### Sast and Cli

A tree is what `ast.walk` and Semgrep make of a directory: handlers with a route, model classes,
hits. `Met` is the loop of `build_index`, which appends a node of a file that parses when it meets it,
and `resolve` the lookup of `RouteIndex`, in its order; a fingerprint is rule and route, which
is why hits without a route share one. `RoutesFor` is not code: it is what a reader takes a route
to mean, and `Attributed` compares the two.

`Cli` runs one command at a time and lets files outlive it. A command is `Begin` (with click's check
that files exist), one step for what it reads or scans (`ScanReturns`, `SastReturns`, `GateReads`,
`Correlates`, and the exceptions of each), `Filter` (`_apply_filters`, on the day it is), `Write`, and
`Exit`. It can be killed before any of them and in the middle of `Write`, which leaves the file as it
was, whole or torn (`Torn`). `Tick` is midnight and `Edit` a commit to the register, at any
time. What a scan finds is free within what its target has, since errored checks find
nothing. `Rows` is how `gate` reads a document: one in SARIF has no `findings` and counts as a report of
nothing. `origin`, `shown`, `forgiven` and `dealt` are history.

### VulnApp and Benchmark

`VulnApp` has both builds beside each other. A handler is an operator from its arguments to what
an oracle tells apart in its answer; `register`, which looks a name up and inserts it later while
other threads do the same, is the two actions `RegisterTest` and `RegisterInsert`.

`Benchmark` is the composition: `Scan` is a step of `ScanEngine` whose new exchange must be answered as
`VulnApp` answers it (`Served`), or be lost, before the request arrived or after. `Score` and
`StartScan` are `evaluate` between its two scans, `SafeJob` the second job as it builds it, `FileFound`
the path of a document, which only the first scan resolves. Visitors register between any two steps.

What a score is held against is stated without the scan: `ShownBy` is what the handlers of the vulnerable build
show a check at an endpoint or a hint, `Shown` all of it that the checks of a job look at, and `RowsAssumption` that the
expected rows of a suite are just that.

### Shop, Mechanic, ContactMechanic, Seed

The settings of the workshop turn on no `ATOMIC_REQUESTS`, so every ORM statement commits by itself
and is a step; `req[r]` is a handler with the row it read, and `save()` writes all columns of that row.
`Fail` ends a handler between any two statements. `before` is history: the requests that were over when
this one arrived, from which the properties tell requests that overlapped from those that did not.

* `Shop`: `ReadBalance` .. `SaveDetails` is `OrderControlView.post`, `UpdateOrder` .. `put`, `ReturnOrder` and
  the coupon handlers likewise. An amount may be a string, which raises after the row was inserted. `ApplyCouponView`
  pastes the code into its lookup (`views.py:388-394`), as Challenge 13 of `docs/challenges.md:88-90` and
  `test_sql_injection` (`shop/tests.py:159`) want it. For a code in `Crafted` the step is `ApplyCrafted` and not
  `ApplyCoupon`: the lookup says what it likes or raises, and other tables may be left behind, one of
  `Rewritten`, which keep the types and have no fewer orders (that rows or tables are deleted is not followed).
  From then on `tampered` holds, and only types and the courses of the handlers are claimed.
* `Mechanic`: ids are the largest plus one, read in a step before the insert; keys of the tables make
  the second of two equal inserts fail. All three handlers that save a service request are there: the comment, the
  status, and `ReceiveReportView`, which creates the row and then saves it again (`CreateServiceRequest`, `SaveRow`);
  whether its mechanic and vehicle are known is free. `manage_reports_directory` is a listing (`ListFiles`), a look at each
  file in any order, of which some may be gone (`StatFile`), a choice and a removal (`FindOldest`, `RemoveOldest`); an
  `OSError` in any of them leaves the file and answers the report (`TrimFails`). A report id is a spelling, with a file of
  its own, and stands for a number (`IdOf`): `1` and `01` are two files of one row. One that is numeric and no number for
  `int` raises, which is `Fail`. `mtime` numbers the writes, so that files have an age and no two the same; opening,
  writing and closing a report is one step, on which only what is said of handlers that do not overlap depends.
* `ContactMechanic`: `Take` gives a thread of the worker (gunicorn, `--workers=1 --threads=20`) to the first
  request in the queue; a call that waits for its own server keeps its thread, and the inner request needs one.
  `Authenticate` is the call of the identity service in `jwt_auth_required`. `ReceiveReport` commits the row or leaves
  none, and `AnswerReport`, the rest of that handler, may still raise or lose its answer: the caller sees an error and
  repeats. `own` is a `mechanic_api` that leads to this server directly; behind a proxy that gives up before the
  server has read the request it could be filed later, which is not modelled. A URL `requests` refuses is `malformed`.
* `Seed`: every start runs `ping_identity_server` and the four functions in order, `Raise` and the failing inserts
  give one up, `Kill` ends it anywhere. `create_mechanics` looks for the user's address and for the mechanic's
  code, which a visitor may have; `create_orders` for any order (`wanted` and `broken` remember what it
  fetched and whether it was broken off). Ids come from a sequence, or are 1 when that fails; the identity
  service takes them from the same sequence (`registerUser`, one transaction), and `Mechanic`'s sign-up (here one step) does not.

The other views (`MechanicView`, `MechanicServiceRequestsView`, `DownloadReportView`, `UserServiceCommentView`,
`UserServiceRequestsView`, `OrderDetailsView`, `ReturnQRCodeView` and the `get` of products, orders, comments and service
requests) read and change nothing; they are left out.

## 3. Runs

| Run | States | Shows |
|---|---|---|
| `client` | 10,685 | gate and limiter over all orders of calls, ticks, slow departures and failures; every call returns |
| `scan` | 94,739 | six invariants, termination and the contract over twenty-two jobs |
| `replay` | 688,889 | where a replay reaches, what its verdicts mean, how it ends, over seven scans and three command lines |
| `correlate` | 33,830 | partition, order, and the refinement of `Matching`, over all pairs of reports up to length three |
| `ci_gate` | 884,876 | what passes the gate, over two days and three pushes |
| `commands` | 1,143,336 | exit statuses and reports on disk, over three commands, kills and edits |
| `evaluation` | 379,603 | what a score and an exit status of `heimdall eval` are worth |
| `shop` | 1,470,066 | credit, coupons, refunds and returns under three overlapping requests, one code run as SQL |
| `mechanic` | 1,871,138 | sign-ups, statuses and report files under three overlapping requests |
| `contact_mechanic` | 238,924 | retries and starvation of five calls on two threads |
| `seed` | 1,444,285 | three starts, killed or failing anywhere |
| `jwt_secret` | violation | a guessed secret that was never verified |

A run's invariants are few and each is a conjunction of named parts, one of which is always the
type invariant: `IInv` of the client and of the pipeline, `RInv` of the replay, `ScanInv`, and the `Inv` of `Correlate`, `Cli`,
`Shop` and `Mechanic` and `BenchInv` hold the inductive invariants of the proofs, checked here before they were proved;
`ContactInv` and `SeedInv` gather what belongs together, each part under a comment of its own, and what is inductive about
them is in `Workshop_proofs`.

Bounds, and why they are enough:

* `client`: four sends at an interval of two ticks give every shape of two neighbours and of
  packets with one or two between; `MaxNow` leaves room for each of them to be late. Methods include a
  lower-case spelling of a destructive one.
* `scan`: the jobs are listed one by one in `MCScanEngine`, each for the paths it opens: crawl with
  an excluded path and a keyed one, two tenants with logins, hints that share a fingerprint,
  escalations created and confirmed at different paths and on different hosts, the same check twice,
  unsound hints, an unsound path and destructive methods behind a hit, offsite paths,
  seven kinds of odd token, and the refusals. A scan is sequential and its checks share
  nothing but `identities`, `endpoints` and `findings`, so two checks and two items show what
  one can do to another. Two payloads are the least with a first and a next one.
* `replay`: the seven scans of `MCReplay` find something of every check, with a readable login, without
  credentials, by a method a replay blocks, abroad, and offline. The command lines allow less than
  the scan, as much, and more. A finding is replayed by itself, so two or three in a report show
  what one can do to those behind it.
* `correlate`: three findings a side give two of one key and one of another, in every order and
  more on one side than on the other; findings of different keys never meet.
* `ci_gate`: the gate decides about every fingerprint by itself, so one at the threshold and
  one below it tell all cases apart; two days are a day an entry is active and a day it has
  expired; three pushes are enough for main to be pushed while a pull request waits.

* `commands`: a chain of three commands is scan, gate and a gate of that gate's output, or two
  reports and a command that reads both; the command lines hold every format, both uses of a file, and
  `--suite` with and without `--target`. Two days as in `ci_gate`, and four registers, one broken.
* `evaluation`: the suite of `vulnapp.yaml` and small ones for what it does not use (a document in a file,
  no safe target, checks of their own for it, a row that is not required, no expected rows). Two
  disturbances: one lost answer or visitor, and a second that meets it.
* `shop`, `mechanic`: two requests race, and a third comes before, between or after them; the
  requests are listed in the `MC` modules so that every handler meets every other on one row. One order
  is of a negative quantity, which no view refuses: `CreditFloor` excepts it (`AllPositive`). One coupon code
  is run as SQL and may leave tables in which everything a promise speaks of is changed. Reports have a limit of
  two files and three spellings, two of them of one row.
* `contact_mechanic`: two threads are the fewest that two calls can hold while neither is served.
* `seed`: a start that breaks off, one that repairs it, and one on repaired tables; two mechanics and two
  products, so that one can be there and the other not, and a visitor who may take either mechanic's code.

`CHECK_DEADLOCK FALSE` is said of the pipeline, the commands, the requests and the starts, which are
bounded in number, and of `correlate`, which returns; a scan and an evaluation must not stop, and their ends
stutter explicitly (`Terminated`, `Finished`); the client can always refuse a call.

Fairness. `ScanEngine` assumes weak fairness of its next-state relation: one thread runs the
loop, no step waits for another actor, and each request returns because httpx bounds every
network operation by a timeout of 10 s (`http_client.py:47`). `HttpClient` says so per action: the
clock, the scheduler and the timeout. What this leaves out: httpx bounds each read and not the
whole body, so a target that drips bytes for ever is outside the assumption. `ContactMechanic`
assumes that threads run and that the own server serves its queue, and nothing of the identity service, of another server
or of clients: `requests` is given no timeout for either (`utils/jwt.py:53`, `merchant/views.py:87`), so `Authenticate` and
`Elsewhere` are not fair, and `EveryCallEnds` is about behaviours in which no call waits for another server for ever. In
those it excepts the state in which every thread waits for this one. `Seed` assumes that the command runs while nobody kills
it; nobody has to start it. The other modules assume no fairness and state no liveness.

## 4. Proofs

TLAPS proves, for every value of the constants under the modules' named assumptions,
that TLC evaluates in the runs. Most are types, distinct model values, and that private hosts are hosts
(`ScopeAssumption`, `ClientAssumption`, `ChecksAssumption`, `EngineAssumption`, `RiskAssumption`,
`CIAssumption`, `ReplayAssumption`, `CorrelateAssumption`, `SastAssumption`, `DiskAssumption`, `ShopAssumption`,
`MechanicAssumption`, `ContactAssumption`, `AppAssumption`, `BenchAssumption`). Five say more:
`DocumentAssumption`, that an OpenAPI document has an operation once, since paths and methods are keys of
mappings; `LineAssumption`, what click requires of a command line (`cli.py:91-104,248,274-275,300`);
`SuiteAssumption`, that a suite for the demo target is like `benchmarks/suites/vulnapp.yaml`: its accounts have names, register and
get tokens that can be decoded, and none of them is asked to read its own note;
`RowsAssumption`, that its hints have what their checks read and are for accounts that can log in, and that its rows are
the bugs the vulnerable build has where the suite looks (`benchmarks/expected/vulnapp.json`);
and the two of what is seeded: in `Shop` that seeded products cost nothing less than nothing and seeded orders are of
seeded products (`seed_database.py:37-55,191-206`), in `Seed` that neither list is empty nor names a thing twice.

* **`HttpClient_proofs`**: `Invariance`, and from it `WireIsDisciplined`, `RateIsLimited`, `WaitIsBounded`.
  `DepartureRate` speaks of departures and the limiter only spaces stamps, so it is not
  inductive. `IInv` adds that a packet is stamped before it leaves and not after the latest stamp
  (`StampsOK`), that a sleeper sleeps out the interval since that stamp (`LimiterOK`), and the
  key fact `StampsFollowDepartures`: a packet is stamped `j - i - 1` intervals after an earlier
  one left, because the one behind it was stamped when that one had left. `StampedFollows` is the
  same fact about the packet that has not left yet, from which `Depart` makes the next one.
* **`ScanEngine_proofs`**: `TypeCorrect`, `WireIsGuarded`, `EvidenceIsBacked`. `WireGuarded` needs that the scope
  was validated before anything is sent and the gate is asked on every request (`Opened`), and typing
  needs that a step inside a probe belongs to an item its check has (`StepInPlace`). The proof has
  one lemma per phase; requests share `ProbeSent`, `LoginSent` and `WireGrows`. What the report cites
  was made by `Judge` long before, so `EInv` carries it along: findings held by the check, by the
  scan and by the report are all backed by exchanges on `wire`, which only grows; between the two
  requests of a two-step probe the first answer is still the last one on the wire and went to the path and by the
  method that an escalation is reported with (`CreateAnswered`),
  the token a guess is about is still the identity's (`TokenInHand`), and before the checks there is
  nothing to back (`NothingYet`).
* **`ScanEngine_proofs`**, second part: `ScanInvariance`, `HitsAreAccounted`, `ReportIsExact`, `ScanIsConclusive`,
  `ScanKeepsContract`. A hit counts when its check has ended, and checks end in four ways; so `ScanInv` says
  where a check stands (which checks have settled, that the current one has not, that hits of later ones do not
  exist), that a hit of the current check is among its findings, and what the answer before it
  allows a probe to be at (`SqliInject` stops at its first hit). `Conclusive` then goes from an answer on the
  wire to a hit, from the hit to a finding, and from the finding to the report, which is
  `ReportIsExact` about `FirstOfEach`. The refinement is proved for the initial states (`InitContract`) and
  for every step (`StepContract`): `StepKinds` sorts the steps of the scan into those that validate, scan, return
  and raise. `ScanContract` states no fairness, so that this is the whole refinement.
* **`Callers_proofs`**, first part: `ReplayInvariance`, and from it `ReplayTypeCorrect`, `ReplayIsGuarded`, `ConfirmedIsFresh`,
  `QuietIsChange`, `NoneIsSkipped`. `RInv` is `EInv` with `ReplayOpened`: what a replay sends again is an exchange the
  report cites, hence one that was in the scope of its scan, and nothing is sent before the scope of the
  replay was validated under its own flags. The last three follow the loop: a verdict is given for the
  finding at its position from the answer just received (`again`), and an answer that repeats the
  recorded one satisfies the oracle again, because what the report cites is backed.
* **`Callers_proofs`**, second part: `BenchKept`, `SafeTargetIsSilent`, `GreenIsSeen`. `Scan` is a step of `ScanEngine`, so
  `NextScanInv` says what it keeps of the scan, and `AppKept` what the target keeps of its tables; what is left is what they
  say of each other. For the silence of the hardened build, `SafeAnswer` goes through the six oracles: each asks for
  what that build does not answer, and for `bola` this needs that a note belongs to an owner of the hints (`NoteOwned`),
  for `jwt` that no identity holds a token whose key is in the wordlist (`Unguessed`, `SafeSecret`). A login is refused only when
  a visitor has the name: a call of `register` in the target is about the account at hand, and its user is there
  when the login is sent, whether or not an answer was lost (`Enrolled`), and users of others are in the log (`VisitorsLogged`).
  The two scans crawl the same endpoints because what a crawl has offered is a function of the document and its
  position (`AllCrawled`), and a required row that counts as found was seen because a reported finding is backed (`ScoreCore`).
* **`Callers_proofs`**, third part: `MissesAreExplained`. What a score misses was passed over somewhere in the first scan, so
  `Sweeping` says of every step of it what is swept already: an identity is the one its entry asks for unless its login was
  refused (`Identified`), each half of a probe has done its part (`Midway`: no payload sent so far breaks the query, the
  note is there, the user that confirms is admin, the secret was guessed), and the bugs of each item and of
  each check that is over are found unless an answer of that check was lost or a login it needs refused (`Settled`, `Swept`).
  `VulnAnswer` and `VulnCreate` are the counterpart of `SafeAnswer`, `SweptRun` and `SweptAgain` carry the invariant through
  a check and from one to the next. It needs that no visitor takes the random name of the mass assignment
  probe, so `FreshUnasked` is part of it, and that an excuse stays one (`ExcusedStays`). At the end the
  report has the fingerprints of the findings (`ReportExact`), from which `ScoreStep` reads off both halves.
* **`Correlate_proofs`**: `TypeCorrect`, `ListedOnce`, `ServedInOrder`, `Refinement`. `Close` of `Matching` speaks of all
  findings and the code only ever looks at one, so `IInv` says that what was passed is paired or set
  aside (`Sorted`), that pairs share no finding (`OneToOne`), and that what was set aside still has
  no free partner (`NoPartner`), because matches are never taken back. `ServedInOrder` is about order besides:
  `IndexFirst` takes the least free position. Here too the whole refinement is
  proved, since `Matching` states no fairness.
* **`CIGate_proofs`**: `Invariance`, and from it `BaselineIsCleared`, `NothingNewPasses`, `MainIsNoGreener`,
  `GreenSurvivesMerge`. `BaselineCleared` and `NoNewGrave` prove each other: a green main leaves only what its
  register accepted, which goes into `cleared`; hence the baseline only hides what is there; hence so does a
  green pull request. The invariant adds that a run that has not been gated has no verdict. The last two
  compare two refs gated on one day, and need what a gate's verdict was computed from.
* **`Cli_proofs`**: `FilesAreTrue`, `StatusIsExplained`, `NothingUnseen`. A property of an exit status speaks of a
  report that was scanned, filtered and written in three steps, with midnights, commits and kills between
  them, and the baseline it was filtered by was written by an earlier command. So `Inv` follows the findings:
  what a command holds at each step (`InHand`, `InCourse`), what the file holds when it exits (`ReportOut`),
  what every whole file holds of the scan it names (`OnDisk`), and that files which a command needs are
  there (`FilesThere`: no command deletes one, a killed one can only tear the file it writes).
  `FindingsAreAttributed` is about the index: `MetKeepsAll` says that the loop of `build_index` has every node of a
  file that parses and no other, `ResolvesToRoute` that the first of those in the index is one that a reader accepts,
  and that the index has none only when the tree has none. The loop is a recursive function, and induction over it is
  an argument about the least position where it would fail (`LoopExists`, `MinIsLeast`).
* **`Shop_proofs`**: `ShopInvariance`, `OwnRequestsOnly`. A handler saves the row it read earlier, so everything depends
  on how old that row is. `Inv` says what a request holds at each statement (`Holding`, `OwnRow`, `RowHeld`), that
  a coupon that was checked is on record once it was paid (`Claimed`), that a refund was paid by requests
  which all overlapped or left the order returned (`RefundKept`), and that balances in rows and in hands
  are above the floor (`Balances`). A statement that runs a coupon code as SQL ends the promises for good, so
  that they are conditional on `tampered`, and the types and courses, which it leaves, are not. One lemma per
  statement; `Statement` does what they share.
  `CreditIsAccounted` adds `Accounts`: the balance is also the sum of what was saved while handlers of the user are
  still on their way, and the balance a handler holds is the one in the table as long as no other of that user
  overlapped with it. A handler that arrives late makes `Orderly` false before it can read anything stale, and
  `Orderly` was true before whenever it is true now (`OrderlyBefore`). The sums are `SumFunctionOnSet` over a set of requests,
  defined by recursion over subsets: that there is such a function, that it is the one that is summed by, and what one
  element more adds (`FoldsExist`, `SumIsFold`, `SumMoved`) are proved by looking at a least subset without the
  property, since the library's induction over sets takes an operator.
* **`Workshop_proofs`**, `Mechanic`: `MechanicInvariance`, `StatusStays`, `ReportsAreKept`. The handlers of the three kinds share
  no table, so the invariant has three families, and a lemma for each says what the steps of the others leave of it.
  What a sign-up was promised holds from its inserts on and not only when it is answered: `SigningUp` says so of
  those past the user (`Entered`) and past the code (`Coded`), and the keys make the second of two that took the
  same id fail. A status stays because a comment that came later read it (`StatusHeld`), and
  because the handler that received the row is over. For the directory, `Aging` says that whatever is younger than a
  file was asked for since that file's request; `Choosing` that a handler which nobody overlaps has, among the files it
  has looked at, the oldest, which are all of them when it removes one; so that a file goes only when as many as the
  limit came since. `Tidy` says that a directory that requests use in turn has less than the limit between them.
* **`Workshop_proofs`**, `ContactMechanic`: `ContactKeepsCount`. What a call has sent and filed depends on jobs in the queue and on
  threads, so `ContactIInv` says that a job is in one place (`JobsOnce`), that where the jobs of a call are says how far it
  has come (`JobsInPlace`), that every attempt but the running one was counted (`Attempts`), and that a problem is filed for
  each row whose answer did not arrive, for the one that has still to be answered, and for the one that was (`Filing`).
  The proof is for any `number_of_repeats`, negative ones too: those are out of bounds, and a call with one of them sends nothing.
* **`Workshop_proofs`**, `Seed`: `NothingIsSeededTwice`, `StartCompletes`. `SeedIInv` says where each loop is (`InRound`), what a round of reports may
  add (`Reported`), that whom an order is still made for has none (`ToServe`), whose the seeded codes are (`Hired`), that
  of the users fetched all have their order but those still to be served, or else the making was broken off (`Making`),
  and what a start in which nothing failed has done so far (`Stocked`, `Staffed`, `Served`). Ids are taken in three ways; two users share none because what is inserted
  under a taken id fails and the largest plus one is free (`LargestOne`, `NextIsFree`). That orders are made of different users needs that
  the first users in the order of their ids are different ones and as many as there are (`RanksAreFilled`).

Only model-checked: liveness (`Termination`, `EveryCallReturns`, `EveryCallEnds`, `StartsAnyway`), since
TLAPS has no fairness. Every invariant and every action property of the runs that pass is proved.

## 5. Where the code and its documents differ

The run `jwt_secret` shows one: `_weak_secret` (`jwt.py:105-106`) returns a secret for which no signature
was verified, against `jwt.py:4-5`.

The others can be read off the definitions the models share with the code, and have no run of their own:

1. `load_spec` (`openapi.py:49`) fetches with a client of its own, without scope, rate or the TLS
   policy; `docs/threat-model.md:13` says every request goes through `HttpClient`. (`SpecFetch`)
2. `load_spec` does not read the status (`openapi.py:51`): a 404 with a JSON object is an empty
   document, and a scan whose checks crawl ends without an error, against `engine.py:68` and
   `tests/test_engine.py:155`. (`SpecFetch`)
3. An identity whose login gave no token reads anonymously (`auth/__init__.py:68`), and BOLA reports
   the read as cross-tenant; `docs/checks/bola.md:11` asks for two authenticated identities. (`Login`)
4. The baseline hides a finding whose accepted entry has expired (`risk.py:117-118`), against
   `accepted-risk.yml:7-8`. (`apply_filters`)
5. A report has no credentials (`http_client.py:31-32`), so `BolaCheck.replay` (`bola.py:44-53`) reads
   anonymously and a bug that is still there is NOT REPRODUCED; `docs/checks/bola.md:17`. (`Stripped`)
6. A row with `must_detect: false` that is found counts as unexpected (`harness.py:84,97`), while
   `tests/test_eval_harness.py:4` says such rows are ignored. (`Score`)
7. `jwt` and `mass_assignment` have no oracle (`checks/__init__.py:120-122`), so a replay says NO-ORACLE of
   their findings, while `README.md:7-9` calls every finding replayable. (`Judgements`)
8. Of two static rules on one route and CWE one stays in `sast_only` although DAST confirmed it
   (`correlate.py:72`), while `correlate.py:11-13` describes that list as what DAST never confirmed. (`Return`)
9. `gate_cmd` provides for a report that is a bare list and calls `get` of it first (`cli.py:309`), which
   raises `AttributeError`; no command writes such a report, and `Cli` has none.
10. `manage_reports_directory` of crAPI deletes a file as soon as the directory has reached its limit
   (`crapi/mechanic/views.py:443`); its docstring (436-437) says when the count exceeds it. `ReportsKept` only
   promises that the limit is not exceeded, which both keep. (`ListFiles`)

## 6. Plan

Done, in this order: `Scope` and `HttpClient`; `Checks`, `ScanEngine` and `ScanContract`; `RiskGate` and `CIGate`;
`Replay`; `Matching` and `Correlate`; `Sast` and `Cli`; `VulnApp` and `Benchmark`; `Shop`, `ContactMechanic`,
`Mechanic` and `Seed`; and the proofs of section 4.

Nothing of the plan is left. What a next step would be about is in section 7 and in the hazards
without a property.

## 7. Not modelled

The cookie jar of the one `httpx.Client` (`http_client.py:56`), which outlives the identity it was filled for:
which request carries a cookie is decided by what a target sets and how httpx matches it, and no oracle reads one.

Replay of reports that no scan wrote: a SAST report names check ids the registry does not have
(`KeyError`), an edited one may have no evidence. The cut of recorded bodies at 2048 characters.

Text: matching of bodies by regular expression, rendering of reports, redaction of headers,
console output; parsing of OpenAPI parameters. Validation of suites and registers, beyond what a
valid one can say, and that a broken one raises. Semgrep and GitHub, which are processes of others. DNS:
whether a host is private is a property of its name.

Of crAPI: the identity service (Java) but for its sign-up, community (Go), chatbot and web, which are other programs; the
views that only read; the migrations and settings, which are data; `crapi/apps.py`, an older copy of
the seeding that runs under the development server only.
