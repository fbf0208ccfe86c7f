------------------------------- MODULE Benchmark -------------------------------
(***************************************************************************)
(* heimdall eval on the demo target: evaluate scans the vulnerable build   *)
(* and then the hardened one (eval/harness.py) and eval_cmd turns the      *)
(* score into an exit status, while visitors use the same target.  The     *)
(* answers ScanEngine leaves free are those of VulnApp, or are lost.  The  *)
(* paths are those of vulnapp/app.py, since the answers depend on them.    *)
(***************************************************************************)
EXTENDS ScanEngine, VulnApp, FiniteSets

CONSTANTS
  Suites,          \* the suites to evaluate
  Scanner,         \* heimdall among the clients of the target
  Fresh,           \* the random name of the mass assignment probe
  MinRecall,       \* --min-recall, in percent
  MaxFp,           \* --max-fp
  MaxDisturbances  \* bound: answers lost and registrations of visitors

Row == [check : CheckIds, method : Methods, path : Paths, must_detect : BOOLEAN]
\* safe_checks is empty when the suite has none of its own
Suite == [job : Job, scored : BOOLEAN, safe_target : BOOLEAN,
          safe_checks : Seq(STRING), expected : SUBSET Row]

Strong(token) == IF token = NoToken THEN token
                 ELSE [token EXCEPT !.key = CHOOSE k \in Keys : k \notin Wordlist]
Resigned(account) == [account EXCEPT !.token = Strong(@)]

(* The second scan: suite.safe_checks or suite.checks, the document at the *)
(* safe target, no option of the first changed.  The two targets share a   *)
(* host and differ in the port; the safe build signs with another secret.  *)
SafeJob(s) ==
  [s.job EXCEPT !.check_ids = IF s.safe_checks # <<>> THEN s.safe_checks ELSE @,
                !.auth = [k \in DOMAIN @ |-> Resigned(@[k])]]

ASSUME BenchAssumption ==
  /\ \A s \in Suites :
       s \in Suite /\ s.job \in Jobs /\ SafeJob(s) \in Jobs /\ IsFiniteSet(s.expected)
  /\ Keys \ Wordlist # {}
  /\ Scanner \in Clients /\ Fresh \in Accounts \ Names
  /\ Names \ {Anon} \subseteq Accounts
  /\ {MinRecall, MaxFp, MaxDisturbances} \subseteq Nat

(* What a suite for this target is like: its accounts have names, register *)
(* and get tokens PyJWT can read, its document has paths that make URLs,   *)
(* and nobody is asked to read a note that is their own                    *)
(* (benchmarks/suites/vulnapp.yaml).                                       *)
ASSUME SuiteAssumption ==
  \A s \in Suites :
    /\ \A k \in 1..Len(s.job.auth) : LET a == s.job.auth[k] IN
         /\ a.name # Anon
         /\ a.kind = "login" => a.register
         /\ a.token # NoToken => a.token.decodable
    /\ \A m \in 1..Len(s.job.openapi.paths) : s.job.openapi.paths[m].sound
    /\ LET notes == s.job.hints["bola"] IN
         \A i, k \in 1..Len(notes) : notes[i].owner # Anon /\ notes[i].as # notes[k].owner

\* the identity build_identities makes of an entry that is let in
Issued(account) ==
  CASE account.kind = "header" -> [token |-> NoToken, headed |-> TRUE]
    [] account.kind \in {"login", "bearer"} /\ account.token # NoToken ->
         [token |-> account.token, headed |-> TRUE]
    [] OTHER -> Anonymous
AccountsOf(j, n) == {j.auth[k] : k \in {m \in 1..Len(j.auth) : j.auth[m].name = n}}
LetIn(j, n) == AccountsOf(j, n) # {} /\ \A a \in AccountsOf(j, n) : Issued(a).headed
Guessable(t) == t # NoToken /\ t.payload = "dict" /\ WeakSecret(t)

\* a hint has what its check reads, may be sent, is for accounts the suite has and
\* for the handlers that Answer and Effect take its steps to be for
Workable(j, cid, h) ==
  /\ h.sound /\ (j.unsafe \/ {h.method, h.create_method} \cap Destructive = {})
  /\ cid = "bola" => /\ h.create /\ LetIn(j, h.owner) /\ LetIn(j, h.as)
                     /\ h.create_path = "/api/notes" /\ h.path = "/api/notes/{note_id}"
  /\ cid = "mass_assignment" => h.create_path = "/api/register" /\ h.path = "/api/debug/users"
  /\ cid = "jwt" => /\ AccountsOf(j, h.as) # {}
                    /\ \A a \in AccountsOf(j, h.as) : Guessable(Issued(a).token)

\* the fingerprints the vulnerable build shows a check at an item (vulnapp/app.py)
Leaky == {"/api/debug/users", "/api/url-preview"}
Bugged(cid, x) ==
  CASE cid \in {"exposure", "ssrf"} -> FirstStep(cid, x) = "probe" /\ x.path \in Leaky
    [] cid = "sqli" -> /\ FirstStep(cid, x) = "inject" /\ x.path = "/api/products/search"
                       /\ Breaking \cap 1..Payloads # {}
    [] cid = "jwt" -> x.create
    [] OTHER -> TRUE
ShownBy(cid, x) ==
  (IF ~Bugged(cid, x) THEN {}
   ELSE IF cid = "mass_assignment" THEN {<<cid, x.create_method, x.create_path>>}
   ELSE {<<cid, x.method, x.path>>})
  \cup (IF cid = "jwt" THEN {<<cid, "POST", LoginPath>>} ELSE {})

\* what the checks of a job look at, and the bugs there are in it
AllOf(j, n) == {j.openapi.paths[m] : m \in {k \in 1..n : j.openapi.paths[k].path \notin j.exclude}}
HintsOf(j, cid) == {j.hints[cid][i] : i \in 1..Len(j.hints[cid])}
ItemsOf(j, cid) == IF cid \in SpecDriven THEN AllOf(j, Len(j.openapi.paths)) ELSE HintsOf(j, cid)
Shown(j) == UNION {UNION {ShownBy(cid, x) : x \in ItemsOf(j, cid)} :
                     cid \in CheckIds \cap {j.check_ids[k] : k \in 1..Len(j.check_ids)}}

Key(r) == <<r.check, r.method, r.path>>

(* A suite is written for its target: its hints work, its rows are bugs the *)
(* vulnerable build has where the suite looks, and of these it names all;   *)
(* those it does not require are of must_detect FALSE                       *)
(* (benchmarks/expected/vulnapp.json).                                      *)
ASSUME RowsAssumption ==
  \A s \in Suites :
    /\ \A cid \in HintKeys : \A h \in HintsOf(s.job, cid) : Workable(s.job, cid, h)
    /\ \A r \in s.expected : r.must_detect => Key(r) \in Shown(s.job)
    /\ Shown(s.job) \subseteq {Key(r) : r \in s.expected}

VARIABLES
  suite,
  stage,      \* where evaluate is: first and safe are its scans
  first,      \* history: the checks of the first scan that lost an answer, those that
              \* saw a bug, whether a login was denied, and its endpoints
  result,     \* EvalResult
  exit,       \* the exit status of heimdall eval
  disturbed   \* how many answers were lost and visitors came

eval == <<suite, stage, first, result, exit>>
bench == <<vars, app, eval, disturbed>>

Stages == {"load", "first", "safe", "scored", "ended"}
Build == IF stage = "safe" THEN "safe" ELSE "vulnerable"
KeySet == CheckIds \X Methods \X Paths
NoResult == [matched |-> {}, missed |-> {}, unexpected |-> {}, safe_fp |-> 0]

BenchTypeOK ==
  /\ TypeOK /\ AppTypeOK
  /\ suite \in Suites /\ stage \in Stages
  /\ result \in [matched : SUBSET KeySet, missed : SUBSET KeySet,
                 unexpected : SUBSET KeySet, safe_fp : Nat]
  /\ exit \in {"none", "0", "1", "2"}
  /\ disturbed \in 0..MaxDisturbances

BenchInit ==
  /\ Init /\ suite \in Suites /\ job = suite.job
  /\ LET logins == {k \in 1..Len(suite.job.auth) : suite.job.auth[k].kind = "login"}
         hints == suite.job.hints["bola"]
     IN  AppInit(Scanner, {suite.job.auth[k].name : k \in logins},
                 IF hints = <<>> THEN NoNote ELSE hints[1].owner)
  /\ stage = "load" /\ exit = "none" /\ disturbed = 0
  /\ result = NoResult
  /\ first = [lost |-> {}, seen |-> {}, denied |-> FALSE, endpoints |-> {}]

------------------------------------------------------------------------------
\* The target answers.

Probed(b, x) ==
  CASE x.path = "/api/debug/users" -> debug_users(b)
    [] x.path = "/api/me" -> me(b, x.as)
    [] x.path = "/api/url-preview" -> url_preview(b)
    [] x.path = "/api/url-preview-safe" -> url_preview_safe
    [] x.path \in {"/healthz", "/api/products"} -> "clean"
    [] OTHER -> "denied"

\* An injected path parameter finds no row, or is behind a login
Injected(b, x) ==
  IF x.path = "/api/products/search" THEN search_products(b, tries + 1) ELSE "denied"

Answer(b, x) ==
  CASE x.step = "login"    -> login(b, Scanner, Account.name)
    [] x.step = "inject"   -> Injected(b, x)
    [] x.step = "read"     -> read_note(b, x.as)
    [] x.step = "confirm"  -> debug_shows_admin(b, Fresh)
    [] x.step = "alg_none" -> me(b, x.as)
    [] x.step = "probe"    -> Probed(b, x)
    [] OTHER               -> "clean"

Effect(b, x) ==
  CASE x.step = "register" /\ calls[b][Scanner] # NoCall -> RegisterInsert(b, Scanner, FALSE)
    [] x.step = "create" /\ Check = "bola" -> CreateNote(b, x.as)
    [] x.step = "create" /\ Check = "mass_assignment" -> RegisterFresh(b, Scanner, Fresh, TRUE)
    [] OTHER -> UNCHANGED app

\* register has the scanner's request; its answer is the step Register of the scan
Registering == Authenticating /\ Account.kind = "login" /\ Account.register /\ step = "next"
Receive ==
  /\ stage \in {"first", "safe"} /\ Registering
  /\ RegisterTest(Build, Scanner, Account.name)
  /\ UNCHANGED <<vars, eval, disturbed>>

\* an answer may be lost before the request arrived, or after
Served(b, x) ==
  \/ /\ x.resp = Answer(b, x) /\ Effect(b, x)
     /\ x.step = "register" => calls[b][Scanner] # NoCall \/ Account.name \in DOMAIN users[b]
     /\ UNCHANGED disturbed
  \/ /\ x.resp = "lost" /\ disturbed < MaxDisturbances /\ disturbed' = disturbed + 1
     /\ Effect(b, x) \/ (calls[b][Scanner] = NoCall /\ UNCHANGED app)

\* a file is found from the suite (scan_suite); as it is spelled it may not be
FileFound ==
  pc = "spec" /\ job.openapi.given /\ ~job.openapi.remote /\ stage = "first" => pc' = "crawl"

\* one step of the running scan
Scan ==
  /\ stage \in {"first", "safe"} /\ pc \notin Ended
  /\ Next /\ FileFound
  /\ IF wire' = wire THEN UNCHANGED <<app, disturbed>> ELSE Served(Build, wire'[Len(wire')])
  /\ UNCHANGED eval

------------------------------------------------------------------------------
\* evaluate and eval_cmd.

\* a suite without a file of expected rows: FileNotFoundError
Unscored ==
  /\ stage = "load" /\ ~suite.scored
  /\ stage' = "ended" /\ exit' = "1"
  /\ UNCHANGED <<vars, app, suite, first, result, disturbed>>

Load ==
  /\ stage = "load" /\ suite.scored /\ stage' = "first"
  /\ UNCHANGED <<vars, app, suite, first, result, exit, disturbed>>

\* eval_cmd catches nothing a scan raises
Raised ==
  /\ stage \in {"first", "safe"} /\ pc \in Ended \ {"done"}
  /\ stage' = "ended" /\ exit' = "1"
  /\ UNCHANGED <<vars, app, suite, first, result, disturbed>>

StartScan(j) ==
  /\ job' = j /\ pc' = "validate" /\ endpoints' = <<>>
  /\ identities' = [n \in {Anon} |-> Anonymous]
  /\ slot' = 1 /\ item' = 1 /\ step' = "next" /\ tries' = 0
  /\ local' = <<>> /\ findings' = <<>> /\ report' = <<>>
  /\ status' = [k \in 1..Len(j.check_ids) |-> "pending"]
  /\ hits' = <<>> /\ wire' = <<>>

Crawls(j) == \E k \in 1..Len(j.check_ids) : j.check_ids[k] \in SpecDriven
Expected == {Key(r) : r \in {row \in suite.expected : row.must_detect}}

\* what the wire of a scan shows
LostIn == {CheckOf(wire[k]) : k \in {i \in 1..Len(wire) : wire[i].slot > 0 /\ wire[i].resp = "lost"}}
SeenIn == {CheckOf(wire[k]) : k \in {i \in 1..Len(wire) :
             wire[i].step \in Deciding /\ Fires(CheckOf(wire[i]), wire[i].resp)}}
\* the endpoints the crawl has found so far
Offered == {endpoints[i] : i \in 1..Len(endpoints)}
LoginDenied == \E k \in 1..Len(wire) : wire[k].step = "login" /\ wire[k].resp = "denied"

Score ==
  /\ stage = "first" /\ pc = "done"
  /\ LET found == Fingerprints(report) IN
       result' = [matched |-> Expected \cap found, missed |-> Expected \ found,
                  unexpected |-> found \ Expected, safe_fp |-> 0]
  /\ first' = [lost |-> LostIn, seen |-> SeenIn, denied |-> LoginDenied, endpoints |-> Offered]
  /\ IF suite.safe_target THEN stage' = "safe" /\ StartScan(SafeJob(suite))
                          ELSE stage' = "scored" /\ UNCHANGED vars
  /\ UNCHANGED <<app, suite, exit, disturbed>>

ScoreSafe ==
  /\ stage = "safe" /\ pc = "done"
  /\ stage' = "scored" /\ result' = [result EXCEPT !.safe_fp = Len(report)]
  /\ UNCHANGED <<vars, app, suite, first, exit, disturbed>>

\* recall is 1 when there is nothing to find
LowRecall ==
  Cardinality(result.matched) * 100
    < MinRecall * (Cardinality(result.matched) + Cardinality(result.missed))

\* mutant: the recall is not compared
Exit_AnyRecall ==
  /\ stage = "scored" /\ stage' = "ended"
  /\ exit' = IF result.safe_fp > MaxFp THEN "2" ELSE "0"
  /\ UNCHANGED <<vars, app, suite, first, result, disturbed>>
Exit ==
  /\ stage = "scored" /\ stage' = "ended"
  /\ exit' = IF LowRecall \/ result.safe_fp > MaxFp THEN "2" ELSE "0"
  /\ UNCHANGED <<vars, app, suite, first, result, disturbed>>

------------------------------------------------------------------------------
\* Visitors register while the scan runs, a name of the suite's accounts or another.

VisitorTest(c) ==
  /\ c # Scanner /\ stage \in {"first", "safe"} /\ disturbed < MaxDisturbances
  /\ \E n \in Accounts \ {Fresh} : RegisterTest(Build, c, n)
  /\ disturbed' = disturbed + 1
  /\ UNCHANGED <<vars, eval>>

VisitorInsert(c, b) ==
  /\ c # Scanner /\ RegisterInsert(b, c, FALSE)
  /\ UNCHANGED <<vars, eval, disturbed>>

EvalStep == Unscored \/ Load \/ Receive \/ Scan \/ Raised \/ Score \/ ScoreSafe \/ Exit

Finished == stage = "ended" /\ UNCHANGED bench

BenchNext ==
  \/ EvalStep
  \/ \E c \in Clients : VisitorTest(c) \/ \E b \in Builds : VisitorInsert(c, b)
  \/ Finished

BenchSpec == BenchInit /\ [][BenchNext]_bench

------------------------------------------------------------------------------
(* The hardened build is silent in every scan of it, whatever is lost and  *)
(* whoever registers meanwhile (app.py with SAFE, the six oracles).        *)
SafeIsSilent ==
  /\ stage = "safe" => hits = <<>>
  /\ stage \in {"scored", "ended"} => result.safe_fp = 0

(* The score has an explanation: a planted bug is missed only when an      *)
(* answer of its own check was lost, or an account of the suite could not  *)
(* log in and the check needs one; what is found beside the expected rows  *)
(* is a row the suite does not require (evaluate, lines 86-101).           *)
ScoreExplained ==
  /\ \A k \in result.missed :
       k[1] \in first.lost \/ (k[1] \in {"bola", "jwt"} /\ first.denied)
  /\ result.unexpected \subseteq {Key(r) : r \in suite.expected}

(* An account of the suite is refused only when a visitor has its name:    *)
(* a second evaluation of the same target is as good as the first          *)
(* (_register_and_login does not read the status of register).             *)
LoginHolds ==
  LoginDenied \/ first.denied =>
    \E b \in Builds : \E k \in 1..Len(log[b]) :
      /\ log[b][k].do = "insert" /\ log[b][k].client # Scanner
      /\ \E a \in 1..Len(job.auth) : job.auth[a].name = log[b][k].name

(* Exit status 0 with full recall is evidence: each required row was seen  *)
(* on the wire of the first scan or read off a token, and nothing on the   *)
(* wire of the second (eval_cmd, harness.py).                              *)
GreenMeansSeen ==
  exit = "0" /\ MinRecall = 100 =>
    /\ \A k \in Expected : k[3] = LoginPath \/ k[1] \in first.seen
    /\ suite.safe_target => SeenIn = {}

(* The false-positive control looked at the endpoints the first scan       *)
(* looked at, when both crawl: with a document it cannot read, a scan      *)
(* whose checks crawl fails, and eval with it (harness.py:117,             *)
(* engine.py:67-85).                                                       *)
ControlIsComplete ==
  exit = "0" /\ suite.safe_target /\ NeedsSpec /\ Crawls(suite.job) => Offered = first.endpoints

------------------------------------------------------------------------------
\* The parts of the inductive invariant.

\* the scan that runs, or ran last, is that of the hardened build
Controlled == stage = "safe" \/ (suite.safe_target /\ (stage = "scored" \/ exit \in {"0", "2"}))

\* where evaluate is says what it scans, and how far it has come
Course ==
  /\ exit # "1" => job = IF Controlled THEN SafeJob(suite) ELSE suite.job
  /\ stage = "load" => Init
  /\ stage \in {"load", "first"} => result = NoResult
  /\ stage = "safe" => suite.safe_target
  /\ stage = "ended" <=> exit # "none"
  /\ stage = "scored" \/ exit \in {"0", "2"} => pc = "done"

\* every identity is an account of the suite, and one that a scan of the hardened
\* build uses has a token that nobody guesses
Unguessed == \A n \in DOMAIN identities :
  /\ n = Anon \/ \E k \in 1..Len(job.auth) : job.auth[k].name = n
  /\ n = Anon => identities[n] = Anonymous
  /\ Controlled /\ identities[n].token # NoToken =>
       identities[n].token.decodable /\ identities[n].token.key \notin Wordlist

\* a note belongs to an owner the suite names
NoteOwned == \A b \in Builds : note[b] # NoNote =>
  \E k \in 1..Len(suite.job.hints["bola"]) : note[b] = suite.job.hints["bola"][k].owner

\* nothing the hardened build answered was a finding
Silent == Controlled =>
  /\ local = <<>> /\ findings = <<>> /\ report = <<>> /\ hits = <<>>
  /\ SeenIn = {}

\* a scan whose checks crawl has seen the document as far as it has come
AllCrawled ==
  /\ pc \in {"validate", "resolve", "spec"} => slot = 1
  /\ pc = "crawl" => slot <= Len(job.openapi.paths) + 1 /\ Offered = AllOf(job, slot - 1)
  /\ pc \in {"auth", "checks", "run", "dedup", "done"} /\ NeedsSpec =>
       Offered = AllOf(job, Len(job.openapi.paths))
  /\ Controlled /\ Crawls(suite.job) =>
       first.endpoints = AllOf(suite.job, Len(suite.job.openapi.paths))

\* a user that somebody else than the scanner registered is in the log
VisitorLogged(b, n) == \E k \in 1..Len(log[b]) :
  log[b][k].do = "insert" /\ log[b][k].client # Scanner /\ log[b][k].name = n
VisitorsLogged ==
  \A b \in Builds : \A n \in DOMAIN users[b] : users[b][n].by # Scanner => VisitorLogged(b, n)

\* a call of the scanner is about the account it registers, which is a user when the
\* scan goes on to log it in
Enrolled ==
  /\ stage \in {"load", "first"} => calls["safe"][Scanner] = NoCall
  /\ stage \in {"load", "first", "safe"} /\ pc \notin Ended /\ calls[Build][Scanner] # NoCall =>
       stage # "load" /\ Registering /\ calls[Build][Scanner] = Account.name
  /\ stage \in {"first", "safe"} /\ pc = "auth" /\ step = "login" =>
       Account.name \in DOMAIN users[Build]

\* what the score says was found was seen on the wire of the first scan, or read off a token
Explained ==
  /\ stage \in {"safe", "scored"} \/ exit \in {"0", "2"} =>
       /\ result.matched \cup result.missed = Expected
       /\ \A k \in result.matched : k[3] = LoginPath \/ k[1] \in first.seen
  /\ exit = "0" => ~LowRecall
  /\ result.safe_fp = 0

(* The scan of the vulnerable build, on its way.                            *)
Checking == {"checks", "run", "dedup", "done"}
Excused(cid) == cid \in LostIn \/ (cid \in {"bola", "jwt"} /\ LoginDenied)

\* an identity is what its entry gives, or was refused at the login
Identified ==
  /\ \A n \in DOMAIN identities \ {Anon} :
       \/ \E a \in AccountsOf(job, n) : identities[n] = Issued(a)
       \/ LoginDenied /\ identities[n] = Anonymous
  /\ \A k \in 1..Len(job.auth) :
       pc \in Checking \/ (pc = "auth" /\ k < slot) => job.auth[k].name \in DOMAIN identities

\* what the steps of a probe have done so far: no payload sent breaks the query, a
\* note is there to be read, the user that confirms is admin, the secret is guessed
Midway ==
  pc = "run" =>
    /\ step \in {"probe", "inject"} => FirstStep(Check, Item) = step
    /\ step = "inject" /\ Item.path = "/api/products/search" /\ "sqli" \notin LostIn =>
         \A p \in 1..tries : p \notin Breaking
    /\ step = "read" => Excused("bola") \/ note["vulnerable"] # NoNote
    /\ step = "confirm" => Fresh \in DOMAIN users["vulnerable"] /\ users["vulnerable"][Fresh].admin
    /\ step = "alg_none" => /\ Check = "jwt" /\ JwtToken # NoToken
                             /\ <<"jwt", "POST", LoginPath>> \in Fingerprints(local)

\* no check has failed, and the bugs of one that is over are found, or excused
Settled(s, cid) ==
  /\ status[s] \notin {"blocked", "errored"}
  /\ pc \in Checking /\ status[s] # "pending" /\ ~Excused(cid) =>
       \A x \in ItemsOf(job, cid) : ShownBy(cid, x) \subseteq Fingerprints(findings)

\* so are those of an item that is over, and nothing else is found
Swept ==
  /\ pc = "run" => \A i \in 1..Len(Items) :
       i < item => Excused(Check) \/ ShownBy(Check, Items[i]) \subseteq Fingerprints(local)
  /\ \A s \in Slots : Settled(s, job.check_ids[s])
  /\ Fingerprints(local) \cup Fingerprints(findings) \subseteq Shown(job)
  /\ pc \in Phases \ {"run"} => item = 1

Sweeping ==
  /\ stage = "first" => Identified /\ Midway /\ Swept
  /\ \A b \in Builds : \A c \in Clients : calls[b][c] # Fresh

(* What an evaluation keeps, whatever is lost and whoever registers        *)
(* meanwhile: its accounts, the table of users behind them, and the reach  *)
(* of its false-positive control (harness.py, app.py); with what both of   *)
(* its scans and the score owe each other on the way.                      *)
BenchInv ==
  /\ BenchTypeOK /\ LoginHolds /\ NamesHeld /\ ControlIsComplete
  /\ ScanInv /\ Course /\ Unguessed /\ NoteOwned /\ Silent /\ AllCrawled
  /\ VisitorsLogged /\ Enrolled /\ Explained /\ Sweeping
==============================================================================
