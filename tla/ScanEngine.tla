------------------------------ MODULE ScanEngine ------------------------------
(***************************************************************************)
(* One scan: engine.scan of src/heimdall with the six checks it runs.  A   *)
(* job is what the command line and the suite ask for; the responses of    *)
(* the target are free.  Every request is a step of its own, so an outcome *)
(* may differ between any two of them.  HttpClient models the time inside  *)
(* a request; here only the verdict of its gate matters.                   *)
(***************************************************************************)
EXTENDS Scope, Checks

CONSTANTS
  Jobs,       \* the scans to look at
  Elsewhere,  \* the host an offsite path leads to
  Payloads    \* how many SQL payloads there are

AuthSpec == [name : Names, kind : {"login", "bearer", "header", "none"},
             register : BOOLEAN, token : Token \cup {NoToken}]
Openapi == [given : BOOLEAN, remote : BOOLEAN, host : Hosts, paths : Seq(Endpoint)]
Job == [target : Url, scope_hosts : SUBSET Url, allow_public : BOOLEAN,
        unsafe : BOOLEAN, check_ids : Seq(STRING), openapi : Openapi,
        exclude : SUBSET Paths, auth : Seq(AuthSpec),
        hints : [HintKeys -> Seq(Hint)]]

ASSUME EngineAssumption ==
  /\ Jobs \subseteq Job
  /\ Elsewhere \in Hosts
  /\ Payloads \in Nat \ {0}
  /\ Nobody \notin Names /\ Forged \notin Names /\ Nobody # Forged
  /\ NoToken \notin Token

\* parse_endpoints walks the keys of two nested objects: each operation once
ASSUME DocumentAssumption ==
  \A j \in Jobs : LET ops == j.openapi.paths IN
    \A m, n \in 1..Len(ops) :
      ops[m].path = ops[n].path /\ ops[m].method = ops[n].method => m = n

VARIABLES
  job,         \* the arguments of scan
  pc,          \* the phase, or how the scan ended
  endpoints,   \* what the OpenAPI document offers, less the excluded paths
  identities,  \* ctx.identities
  slot,        \* which entry of auth, of check_ids or of findings is next
  item,        \* which endpoint or hint the running check probes
  step,        \* which request of that probe is next
  tries,       \* SQL payloads already sent to this endpoint
  local,       \* the findings of the running check
  findings,    \* the findings of the checks that returned
  status,      \* how each check ended
  report,      \* what scan returns
  hits,        \* history: the findings traced as "hit", with their check's slot
  wire         \* history: every exchange, in order

vars == <<job, pc, endpoints, identities, slot, item, step, tries, local,
          findings, status, report, hits, wire>>
probe == <<item, step, tries, local>>
setup == <<job, endpoints, identities>>
output == <<findings, status, report, hits>>

Ended == {"done", "ScopeError", "KeyError", "ScanError", "HTTPError"}
Phases == {"validate", "resolve", "spec", "crawl", "auth", "checks", "run", "dedup"}
Steps == {"next", "spec", "register", "login", "probe", "inject", "create",
          "read", "confirm", "weak", "alg_none"}
Outcomes == {"pending", "ran", "skipped", "blocked", "errored"}

\* evidence: positions on the wire; 0 stands for the offline evidence of a
\* guessed secret
Finding == [check : CheckIds, method : Methods, path : Paths, evidence : Seq(Nat)]
fingerprint(f) == <<f.check, f.method, f.path>>

Exchange == [slot : Nat, item : Nat, step : Steps, path : Paths, host : Hosts,
             method : Methods, as : Names \cup {Nobody, Forged},
             resp : Responses]

Slots == 1..Len(job.check_ids)
Check == job.check_ids[slot]
Allow == from_targets({job.target} \cup job.scope_hosts)
NeedsSpec == \E k \in Slots : job.check_ids[k] \in SpecDriven

TypeOK ==
  /\ job \in Jobs
  /\ pc \in Phases \cup Ended
  /\ endpoints \in Seq(Endpoint)
  /\ DOMAIN identities \subseteq Names
  /\ \A n \in DOMAIN identities : identities[n] \in Identity
  /\ slot \in Nat \ {0} /\ item \in Nat \ {0} /\ tries \in Nat
  /\ step \in Steps
  /\ local \in Seq(Finding) /\ findings \in Seq(Finding) /\ report \in Seq(Finding)
  /\ status \in [Slots -> Outcomes]
  /\ hits \in Seq([slot : Nat, finding : Finding])
  /\ wire \in Seq(Exchange)

Init ==
  /\ job \in Jobs
  /\ pc = "validate"
  /\ endpoints = <<>>
  /\ identities = [n \in {Anon} |-> Anonymous]
  /\ slot = 1 /\ item = 1 /\ step = "next" /\ tries = 0
  /\ local = <<>> /\ findings = <<>> /\ report = <<>>
  /\ status = [k \in Slots |-> "pending"]
  /\ hits = <<>> /\ wire = <<>>

------------------------------------------------------------------------------
\* Before the first request.

Validate ==
  /\ pc = "validate"
  /\ pc' = IF validate(Allow, job.allow_public) THEN "resolve" ELSE "ScopeError"
  /\ UNCHANGED <<setup, slot, probe, output, wire>>

\* checks = [get_check(cid) for cid in check_ids]
Resolve ==
  /\ pc = "resolve"
  /\ pc' = IF \A k \in Slots : job.check_ids[k] \in CheckIds THEN "spec" ELSE "KeyError"
  /\ UNCHANGED <<setup, slot, probe, output, wire>>

\* mutant: no document is never a problem
SpecUnusable_Warn == pc' = "auth"
\* _load_endpoints: no document is only a problem for a check that crawls it
SpecUnusable ==
  pc' = IF NeedsSpec THEN "ScanError" ELSE "auth"

SpecNotGiven ==
  /\ pc = "spec" /\ ~job.openapi.given
  /\ SpecUnusable
  /\ UNCHANGED <<setup, slot, probe, output, wire>>

SpecFile ==
  /\ pc = "spec" /\ job.openapi.given /\ ~job.openapi.remote
  /\ SpecUnusable \/ pc' = "crawl"
  /\ UNCHANGED <<setup, slot, probe, output, wire>>

\* load_spec fetches the document with a client of its own: no gate, and the
\* status is not looked at.  What is no document cannot be parsed, or is a JSON
\* object without "paths" and offers no endpoint.
SpecFetch ==
  /\ pc = "spec" /\ job.openapi.given /\ job.openapi.remote
  /\ \E resp \in {"lost", "denied", "clean"} :
       /\ wire' = Append(wire, [slot |-> 0, item |-> 1, step |-> "spec",
            path |-> LoginPath, host |-> job.openapi.host, method |-> "GET",
            as |-> Nobody, resp |-> resp])
       /\ \/ resp \in {"lost", "denied"} /\ SpecUnusable
          \/ resp = "denied" /\ pc' = "auth"
          \/ resp = "clean" /\ pc' = "crawl"
  /\ UNCHANGED <<setup, slot, probe, output>>

\* parse_endpoints, less the excluded paths: one operation per step
Crawl ==
  /\ pc = "crawl" /\ slot <= Len(job.openapi.paths)
  /\ LET ep == job.openapi.paths[slot]
     IN  endpoints' = IF ep.path \in job.exclude THEN endpoints ELSE Append(endpoints, ep)
  /\ slot' = slot + 1
  /\ UNCHANGED <<job, pc, identities, probe, output, wire>>

Crawled ==
  /\ pc = "crawl" /\ slot > Len(job.openapi.paths)
  /\ pc' = "auth" /\ slot' = 1
  /\ UNCHANGED <<setup, probe, output, wire>>

------------------------------------------------------------------------------
\* Requests of the client.

\* The credentials a request made as this identity carries
Credentials(name) ==
  IF name \in DOMAIN identities /\ identities[name].headed THEN name ELSE Nobody

UrlOf(offsite) ==
  [schemed |-> job.target.schemed, host |-> IF offsite THEN Elsewhere ELSE job.target.host]

\* mutant: the scope is not checked again
Gate_NoScope(offsite, method) ==
  IF method \in Destructive /\ ~job.unsafe THEN "PermissionError" ELSE "sent"
\* The verdict of HttpClient.request before it sends
Gate(offsite, method) ==
  CASE ~check(Allow, UrlOf(offsite)) -> "ScopeError"
    [] check(Allow, UrlOf(offsite)) /\ method \in Destructive /\ ~job.unsafe -> "PermissionError"
    [] OTHER -> "sent"

\* The exchange a request that passed the gate adds to the wire
Sent(s, i, st, path, offsite, method, as, resp) ==
  Append(wire, [slot |-> s, item |-> i, step |-> st, path |-> path,
                host |-> UrlOf(offsite).host, method |-> method, as |-> as, resp |-> resp])

------------------------------------------------------------------------------
\* build_identities: one entry of the auth block after the other.  No exception
\* is caught here, so one lost login ends the scan.

Account == job.auth[slot]
Authenticating == pc = "auth" /\ slot <= Len(job.auth)

AddIdentity(identity) ==
  identities' = [n \in DOMAIN identities \cup {Account.name} |->
                   IF n = Account.name THEN identity ELSE identities[n]]

\* a bearer entry without a token raises KeyError
StaticIdentity ==
  /\ Authenticating /\ Account.kind # "login"
  /\ IF Account.kind = "bearer" /\ Account.token = NoToken
     THEN pc' = "KeyError" /\ UNCHANGED <<identities, slot>>
     ELSE /\ AddIdentity(CASE Account.kind = "bearer" -> [token |-> Account.token, headed |-> TRUE]
                           [] Account.kind = "header" -> [token |-> NoToken, headed |-> TRUE]
                           [] OTHER -> Anonymous)
          /\ slot' = slot + 1 /\ UNCHANGED pc
  /\ UNCHANGED <<job, endpoints, probe, output, wire>>

LoginRefused ==
  /\ Authenticating /\ Account.kind = "login" /\ Gate(FALSE, "POST") # "sent"
  /\ pc' = Gate(FALSE, "POST")
  /\ UNCHANGED <<setup, slot, probe, output, wire>>

\* the status of the answer is not read
Register ==
  /\ Authenticating /\ Account.kind = "login" /\ Gate(FALSE, "POST") = "sent"
  /\ Account.register /\ step = "next"
  /\ \E resp \in {"lost", "clean"} :
       /\ wire' = Sent(0, slot, "register", LoginPath, FALSE, "POST", Nobody, resp)
       /\ IF resp = "lost" THEN pc' = "HTTPError" /\ UNCHANGED step
                           ELSE step' = "login" /\ UNCHANGED pc
  /\ UNCHANGED <<setup, slot, item, tries, local, output>>

\* no token in the answer: an identity without credentials, and no complaint
Login ==
  /\ Authenticating /\ Account.kind = "login" /\ Gate(FALSE, "POST") = "sent"
  /\ Account.register => step = "login"
  /\ \E resp \in {"lost", "denied", "clean"} :
       /\ wire' = Sent(0, slot, "login", LoginPath, FALSE, "POST", Nobody, resp)
       /\ IF resp = "lost"
          THEN pc' = "HTTPError" /\ UNCHANGED <<identities, slot>>
          ELSE /\ AddIdentity(IF resp = "clean" /\ Account.token # NoToken
                              THEN [token |-> Account.token, headed |-> TRUE] ELSE Anonymous)
               /\ slot' = slot + 1 /\ UNCHANGED pc
  /\ step' = "next"
  /\ UNCHANGED <<job, endpoints, item, tries, local, output>>

Authenticated ==
  /\ pc = "auth" /\ slot > Len(job.auth)
  /\ pc' = "checks" /\ slot' = 1
  /\ UNCHANGED <<setup, probe, output, wire>>

------------------------------------------------------------------------------
\* The loop over the checks.

Items == IF Check \in SpecDriven THEN endpoints ELSE job.hints[Check]
Item == Items[item]

\* this check is over; the next one begins with nothing of it
NextCheck(outcome) ==
  /\ pc' = "checks" /\ slot' = slot + 1
  /\ item' = 1 /\ step' = "next" /\ tries' = 0 /\ local' = <<>>
  /\ status' = [status EXCEPT ![slot] = outcome]
  /\ UNCHANGED <<setup, report>>

\* a check that is driven by hints has none
Hintless(id) == id \in HintKeys /\ job.hints[id] = <<>>

SkipCheck ==
  /\ pc = "checks" /\ slot <= Len(job.check_ids)
  /\ Hintless(Check)
  /\ NextCheck("skipped")
  /\ UNCHANGED <<findings, hits, wire>>

StartCheck ==
  /\ pc = "checks" /\ slot <= Len(job.check_ids)
  /\ ~Hintless(Check)
  /\ pc' = "run"
  /\ UNCHANGED <<setup, slot, probe, output, wire>>

\* mutant: assigned, not extended
ReturnFindings_Assign ==
  /\ pc = "run" /\ step = "next" /\ item > Len(Items)
  /\ findings' = local
  /\ NextCheck("ran")
  /\ UNCHANGED <<hits, wire>>
\* findings.extend(check.run(ctx))
ReturnFindings ==
  /\ pc = "run" /\ step = "next" /\ item > Len(Items)
  /\ findings' = findings \o local
  /\ NextCheck("ran")
  /\ UNCHANGED <<hits, wire>>

ChecksDone ==
  /\ pc = "checks" /\ slot > Len(job.check_ids)
  /\ pc' = "dedup" /\ slot' = 1
  /\ UNCHANGED <<setup, probe, output, wire>>

\* mutant: unique[f.fingerprint] = f, the last one stays
Dedup_LastWins ==
  /\ pc = "dedup" /\ slot <= Len(findings)
  /\ LET f == findings[slot]
     IN  report' = IF \E i \in 1..Len(report) : fingerprint(report[i]) = fingerprint(f)
                   THEN [i \in 1..Len(report) |->
                           IF fingerprint(report[i]) = fingerprint(f) THEN f ELSE report[i]]
                   ELSE Append(report, f)
  /\ slot' = slot + 1
  /\ UNCHANGED <<setup, pc, probe, findings, status, hits, wire>>
\* unique.setdefault(f.fingerprint, f): the first of each fingerprint stays
Dedup ==
  /\ pc = "dedup" /\ slot <= Len(findings)
  /\ LET f == findings[slot]
     IN  report' = IF \E i \in 1..Len(report) : fingerprint(report[i]) = fingerprint(f)
                   THEN report ELSE Append(report, f)
  /\ slot' = slot + 1
  /\ UNCHANGED <<setup, pc, probe, findings, status, hits, wire>>

Return ==
  /\ pc = "dedup" /\ slot > Len(findings)
  /\ pc' = "done"
  /\ UNCHANGED <<setup, slot, probe, output, wire>>

------------------------------------------------------------------------------
\* What every check does with its items.

\* jwt: the named identity, or the first one that has a token
WithToken == {n \in DOMAIN identities : identities[n].token # NoToken}
Position(name) ==
  IF name = Anon THEN 0 ELSE CHOOSE k \in 1..Len(job.auth) : job.auth[k].name = name
TokenFor(name) ==
  IF name \in DOMAIN identities THEN identities[name].token
  ELSE IF WithToken = {} THEN NoToken
  ELSE identities[CHOOSE n \in WithToken :
                    \A m \in WithToken : Position(n) <= Position(m)].token
JwtToken == TokenFor(Item.as)

PassedBy == \/ FirstStep(Check, Item) = "none"
            \/ Check = "jwt" /\ JwtToken = NoToken

NextItem == item' = item + 1 /\ step' = "next" /\ tries' = 0

\* mutant: the index stays
PassBy_Stays ==
  /\ pc = "run" /\ step = "next" /\ item <= Len(Items) /\ PassedBy
  /\ UNCHANGED vars
PassBy ==
  /\ pc = "run" /\ step = "next" /\ item <= Len(Items) /\ PassedBy
  /\ NextItem
  /\ UNCHANGED <<setup, pc, slot, local, output, wire>>

Begin ==
  /\ pc = "run" /\ step = "next" /\ item <= Len(Items) /\ ~PassedBy
  /\ step' = FirstStep(Check, Item)
  /\ UNCHANGED <<setup, pc, slot, item, tries, local, output, wire>>

\* _alg_none gets as far as forging a token
Forging == Item.create /\ JwtToken.payload = "dict"

\* The request a probe makes in this step: the one that sets it up, or the one
\* that decides
Creation ==
  [path |-> Item.create_path, offsite |-> Item.create_offsite, method |-> Item.create_method,
   as |-> IF Check = "bola" THEN Credentials(Item.owner) ELSE Nobody]
Decision(method, as) ==
  [path |-> Item.path, offsite |-> Item.offsite, method |-> method, as |-> as]
Asked ==
  IF Check \in SpecDriven THEN Decision("GET", Nobody)
  ELSE CASE step = "create" -> Creation
         [] step = "confirm" -> Decision(Item.method, Nobody)
         [] step = "alg_none" -> Decision(Item.method, Forged)
         [] OTHER -> Decision(Item.method, Credentials(Item.as))

Asking ==
  /\ pc = "run"
  /\ step \in {"probe", "inject", "create", "read", "confirm", "alg_none"}
  /\ step = "alg_none" => Forging
Verdict == Gate(Asked.offsite, Asked.method)

\* except ScopeError: raise
OutOfScope ==
  /\ Asking /\ Verdict = "ScopeError"
  /\ pc' = "ScopeError"
  /\ UNCHANGED <<setup, slot, probe, output, wire>>

\* except PermissionError: the check is over, and what it found is gone
BlockedMethod ==
  /\ Asking /\ Verdict = "PermissionError"
  /\ NextCheck("blocked")
  /\ UNCHANGED <<findings, hits, wire>>

\* except Exception: a key that a hint lacks raises when the probe reads it, and a
\* path that makes no URL when it is joined, which may be after a request; a token
\* may decode to what is no object
RaisesKeyError == step # "next" /\ ~Item.sound
RaisesTypeError ==
  /\ Check = "jwt"
  /\ \/ step = "weak" /\ JwtToken.header = "not_a_dict"
     \/ step = "alg_none" /\ Item.create /\ JwtToken.payload = "not_a_dict"

\* mutant: the findings of all checks are dropped
CheckErrors_DropsAll ==
  /\ pc = "run" /\ (RaisesKeyError \/ RaisesTypeError)
  /\ NextCheck("errored") /\ findings' = <<>>
  /\ UNCHANGED <<hits, wire>>
CheckErrors ==
  /\ pc = "run" /\ (RaisesKeyError \/ RaisesTypeError)
  /\ NextCheck("errored")
  /\ UNCHANGED <<findings, hits, wire>>

\* the request of this step is sent and gets resp
Ask(resp) ==
  /\ Asking /\ Verdict = "sent"
  /\ wire' = Sent(slot, item, step, Asked.path, Asked.offsite, Asked.method, Asked.as, resp)
  /\ UNCHANGED <<setup, pc, slot, findings, status, report>>

Found(method, path, evidence) ==
  LET f == [check |-> Check, method |-> method, path |-> path, evidence |-> evidence]
  IN  local' = Append(local, f) /\ hits' = Append(hits, [slot |-> slot, finding |-> f])

\* the oracle judges resp: a finding of this method and path, or a miss
Judge(resp, method, path, evidence) ==
  IF Fires(Check, resp) THEN Found(method, path, evidence)
                        ELSE UNCHANGED <<local, hits>>

\* the position the next exchange takes
Here == Len(wire) + 1

------------------------------------------------------------------------------
\* The six checks.

ExposureProbe ==
  /\ step = "probe" /\ Check = "exposure"
  /\ \E resp \in Responses : Ask(resp) /\ Judge(resp, Item.method, Item.path, <<Here>>)
  /\ NextItem

\* mutant: the key has no path
Seen_AnyPath == local # <<>>
\* an endpoint already reported is not reported again (seen)
Seen == \E i \in 1..Len(local) : local[i].path = Item.path

\* mutant: no break after a confirmed injection
SqliInject_NoBreak ==
  /\ step = "inject" /\ Check = "sqli"
  /\ \E resp \in Responses :
       /\ Ask(resp)
       /\ IF Fires(Check, resp) /\ ~Seen
          THEN Found(Item.method, Item.path, <<Here>>) ELSE UNCHANGED <<local, hits>>
       /\ IF tries + 1 < Payloads
          THEN tries' = tries + 1 /\ UNCHANGED <<item, step>> ELSE NextItem
SqliInject ==
  /\ step = "inject" /\ Check = "sqli"
  /\ \E resp \in Responses :
       /\ Ask(resp)
       /\ IF Fires(Check, resp) /\ ~Seen
          THEN Found(Item.method, Item.path, <<Here>>) /\ NextItem
          ELSE /\ IF tries + 1 < Payloads
                  THEN tries' = tries + 1 /\ UNCHANGED <<item, step>> ELSE NextItem
               /\ UNCHANGED <<local, hits>>

\* the owner's object; a lost answer is passed over
BolaCreate ==
  /\ step = "create" /\ Check = "bola"
  /\ \E resp \in {"lost", "clean"} : Ask(resp)
  /\ step' = "read"
  /\ UNCHANGED <<item, tries, local, hits>>

BolaRead ==
  /\ step = "read" /\ Check = "bola"
  /\ \E resp \in Responses : Ask(resp) /\ Judge(resp, Item.method, Item.path, <<Here>>)
  /\ NextItem

\* a lost answer ends the probe
MassCreate ==
  /\ step = "create" /\ Check = "mass_assignment"
  /\ \E resp \in {"lost", "clean"} :
       Ask(resp) /\ IF resp = "lost" THEN NextItem ELSE step' = "confirm" /\ UNCHANGED <<item, tries>>
  /\ UNCHANGED <<local, hits>>

\* mutant: the two pieces of evidence change places
MassConfirm_Swapped ==
  /\ step = "confirm" /\ Check = "mass_assignment"
  /\ \E resp \in Responses :
       Ask(resp) /\ Judge(resp, Item.create_method, Item.create_path, <<Len(wire), Here>>)
  /\ NextItem
\* the finding is of the create, and cites the confirm first
MassConfirm ==
  /\ step = "confirm" /\ Check = "mass_assignment"
  /\ \E resp \in Responses :
       Ask(resp) /\ Judge(resp, Item.create_method, Item.create_path, <<Here, Len(wire)>>)
  /\ NextItem

SsrfProbe ==
  /\ step = "probe" /\ Check = "ssrf"
  /\ \E resp \in Responses : Ask(resp) /\ Judge(resp, Item.method, Item.path, <<Here>>)
  /\ NextItem

\* offline: no request is made
JwtWeakSecret ==
  /\ pc = "run" /\ step = "weak" /\ ~RaisesTypeError
  /\ IF WeakSecret(JwtToken) THEN Found("POST", LoginPath, <<0>>) ELSE UNCHANGED <<local, hits>>
  /\ step' = "alg_none"
  /\ UNCHANGED <<setup, pc, slot, item, tries, findings, status, report, wire>>

JwtNoForgery ==
  /\ pc = "run" /\ step = "alg_none"
  /\ ~Item.create \/ JwtToken.payload = "unreadable"
  /\ NextItem
  /\ UNCHANGED <<setup, pc, slot, local, output, wire>>

JwtAlgNone ==
  /\ step = "alg_none" /\ Check = "jwt"
  /\ \E resp \in Responses : Ask(resp) /\ Judge(resp, Item.method, Item.path, <<Here>>)
  /\ NextItem

------------------------------------------------------------------------------
Terminated == pc \in Ended /\ UNCHANGED vars

Next ==
  \/ Validate \/ Resolve
  \/ SpecNotGiven \/ SpecFile \/ SpecFetch \/ Crawl \/ Crawled
  \/ StaticIdentity \/ LoginRefused \/ Register \/ Login \/ Authenticated
  \/ SkipCheck \/ StartCheck \/ ReturnFindings \/ ChecksDone
  \/ PassBy \/ Begin \/ OutOfScope \/ BlockedMethod \/ CheckErrors
  \/ ExposureProbe \/ SqliInject \/ BolaCreate \/ BolaRead
  \/ MassCreate \/ MassConfirm \/ SsrfProbe
  \/ JwtWeakSecret \/ JwtNoForgery \/ JwtAlgNone
  \/ Dedup \/ Return
  \/ Terminated

Spec == Init /\ [][Next]_vars

\* One thread runs the scan, and every wait in it is a request with a timeout.
FairSpec == Spec /\ WF_vars(Next)

------------------------------------------------------------------------------
\* Properties.

Deciding == {"probe", "inject", "read", "confirm", "alg_none"}
CheckOf(x) == job.check_ids[x.slot]
Fingerprints(fs) == {fingerprint(fs[i]) : i \in 1..Len(fs)}
SameProbe(x, y) == x.slot = y.slot /\ x.item = y.item

Guarded(x) ==
  x.step # "spec" =>
    /\ x.host \in Allow
    /\ x.host \in Private \/ job.allow_public
    /\ x.method \in Destructive => job.unsafe

\* Whatever the suite asks for and the target answers, every request of the
\* client goes to a host of the scope, a public one only with --i-understand,
\* and a destructive one leaves only with --unsafe (engine.scan and the client).
WireGuarded == \A k \in 1..Len(wire) : Guarded(wire[k])

\* the token of an identity jwt was asked of has a guessable secret
Guessed ==
  \E i \in 1..Len(job.hints["jwt"]) : LET token == TokenFor(job.hints["jwt"][i].as) IN
    token # NoToken /\ WeakSecret(token)

\* the path of the finding this exchange makes: an escalation is one of the
\* request that created, wherever it was confirmed
PathOf(x) ==
  IF x.step = "confirm" THEN job.hints["mass_assignment"][x.item].create_path ELSE x.path

\* the exchange cited first is one of this check that its oracle accepts, for this
\* path; for mass assignment the one cited second is the create before it, which
\* went to the path and by the method of the finding
Cited(f) ==
  LET k == f.evidence[1] IN
    /\ k \in 1..Len(wire)
    /\ CheckOf(wire[k]) = f.check /\ PathOf(wire[k]) = f.path
    /\ wire[k].step \in Deciding /\ Fires(f.check, wire[k].resp)
    /\ f.check = "mass_assignment" => LET create == wire[f.evidence[2]] IN
         /\ f.evidence[2] \in 1..(k - 1) /\ SameProbe(create, wire[k])
         /\ create.step = "create" /\ create.resp # "lost"
         /\ create.path = f.path /\ create.method = f.method

\* A finding cites an exchange that its own check made and whose response the
\* oracle accepts.  The exchange was on the finding's own path, except that an
\* escalation is confirmed elsewhere: its finding names the path and the method of
\* the answered create that came before, and cites that second (mass_assignment.py).
\* A guessed secret is that of the token of an identity it was asked of.
Backed(f) ==
  IF f.evidence[1] = 0
  THEN f.check = "jwt" /\ f.method = "POST" /\ f.path = LoginPath /\ Guessed
  ELSE Cited(f)
EvidenceBacked ==
  /\ \A i \in 1..Len(local) : Backed(local[i])
  /\ \A i \in 1..Len(findings) : Backed(findings[i])
  /\ \A i \in 1..Len(report) : Backed(report[i])

\* No positive is lost: when the scan returns, every response that satisfied the
\* oracle of a check that ran to its end is in the report, whatever came after it.
Conclusive ==
  pc = "done" =>
    \A k \in 1..Len(wire) : LET x == wire[k] IN
      x.step \in Deciding /\ status[x.slot] = "ran" /\ Fires(CheckOf(x), x.resp) =>
        \E i \in 1..Len(report) : report[i].check = CheckOf(x) /\ report[i].path = PathOf(x)

\* A hit the transcript shows is in the findings unless its check was blocked
\* or errored, or is still running, or the scan was aborted.
HitsAccounted ==
  \A h \in 1..Len(hits) :
    \/ \E i \in 1..Len(findings) : findings[i] = hits[h].finding
    \/ \E i \in 1..Len(local) : local[i] = hits[h].finding
    \/ status[hits[h].slot] \in {"blocked", "errored"}

\* The checks that crawl never touch an excluded path (scan, lines 112-116).
ExcludedNeverCrawled ==
  \A k \in 1..Len(wire) :
    wire[k].step \in {"probe", "inject"} /\ CheckOf(wire[k]) \in SpecDriven =>
      wire[k].path \notin job.exclude

\* A two-step probe decides on the very next exchange after the one that set it
\* up: nothing comes between the owner's create and the other identity's read,
\* and an escalation is confirmed only after a create that was answered.
SetupFirst ==
  \A k \in 1..Len(wire) : LET x == wire[k] IN
    x.step = "confirm" \/ (x.step = "read" /\ job.hints["bola"][x.item].create) =>
      /\ k > 1 /\ wire[k - 1].step = "create" /\ SameProbe(wire[k - 1], x)
      /\ x.step = "confirm" => wire[k - 1].resp # "lost"

\* After a confirmed injection no further payload goes to that endpoint, and
\* none gets more than the list holds (SqliCheck.run, lines 87-93).
InjectionStops ==
  \A j, k \in 1..Len(wire) :
    j < k /\ wire[j].step = "inject" /\ wire[k].step = "inject" /\ SameProbe(wire[j], wire[k]) =>
      ~Fires("sqli", wire[j].resp) /\ k - j < Payloads

\* A check that is blocked or errors stops none of the others: when the scan
\* returns every check has ended, and those without a hint have sent nothing.
EveryCheckSettled ==
  pc = "done" =>
    \A s \in Slots :
      /\ status[s] # "pending"
      /\ status[s] = "skipped" => \A k \in 1..Len(wire) : wire[k].slot # s
      /\ status[s] = "skipped" <=> Hintless(job.check_ids[s])

\* the report has the fingerprints of the first n findings, each once, and of
\* several findings with one fingerprint the first
FirstOfEach(n) ==
  /\ Fingerprints(report) = {fingerprint(findings[k]) : k \in 1..n}
  /\ \A i, j \in 1..Len(report) : fingerprint(report[i]) = fingerprint(report[j]) => i = j
  /\ \A i \in 1..Len(report) : \E k \in 1..n :
       /\ findings[k] = report[i]
       /\ \A m \in 1..(k - 1) : fingerprint(findings[m]) # fingerprint(report[i])

\* The report has the fingerprints of the findings, each once, and of several
\* findings with one fingerprint the first.
ReportExact == pc = "done" => FirstOfEach(Len(findings))

\* A scan that was validated aborts on scope only for a path that leads to another
\* host or a target without a scheme, which from_targets takes and check refuses.
OwnTargetInScope ==
  pc = "ScopeError" =>
    \/ ~validate(Allow, job.allow_public)
    \/ ~job.target.schemed
    \/ \E i \in 1..Len(endpoints) : endpoints[i].offsite
    \/ \E h \in HintKeys : \E i \in 1..Len(job.hints[h]) :
         job.hints[h][i].offsite \/ job.hints[h][i].create_offsite

\* Every scan ends, whatever the target answers.
Termination == <>(pc \in Ended)

\* The engine keeps the contract its callers rely on.
Contract == INSTANCE ScanContract WITH
  phase <- CASE pc = "validate" -> "closed" [] pc = "done" -> "returned"
             [] pc \in Ended \ {"done"} -> "raised" [] OTHER -> "open",
  sent <- Len(wire),
  found <- Fingerprints(findings),
  result <- IF pc = "done" THEN Fingerprints(report) ELSE {}
KeepsContract == Contract!Spec

------------------------------------------------------------------------------
\* What a docstring says, and the code does not do.

\* jwt.py:4-5: the candidate secret correctly verifies the token's signature.
SecretVerified ==
  \A i \in 1..Len(report) : report[i].check = "jwt" /\ report[i].evidence = <<0>> =>
    \E n \in {job.hints["jwt"][k].as : k \in 1..Len(job.hints["jwt"])} :
      TokenFor(n).decodable /\ TokenFor(n).key \in Wordlist

------------------------------------------------------------------------------
\* The parts of the inductive invariant.

\* nothing runs before the scope was validated and the checks were found
Opened ==
  /\ pc \in Phases \ {"validate"} => validate(Allow, job.allow_public)
  /\ pc \in Phases \ {"validate", "resolve"} => \A k \in Slots : job.check_ids[k] \in CheckIds

\* a request of a probe is made for an item of the running check, and one of a
\* login for an entry of the auth block
StepInPlace ==
  /\ pc = "run" => slot \in Slots /\ (step = "next" \/ item \in 1..Len(Items))
  /\ pc = "auth" => step = "next" \/ (Authenticating /\ Account.kind = "login")
  /\ pc \in Phases \ {"auth", "run"} => step = "next"

\* What a step of the scan keeps, for the types and the wire (engine.scan).
IInv == TypeOK /\ Opened /\ StepInPlace /\ WireGuarded

\* there are no findings before the checks run
NothingYet ==
  pc \in {"validate", "resolve", "spec", "crawl", "auth"} =>
    local = <<>> /\ findings = <<>> /\ report = <<>>

\* an escalation is about to be confirmed: its create was the last exchange
CreateAnswered ==
  pc = "run" /\ step = "confirm" =>
    /\ Check = "mass_assignment" /\ Len(wire) > 0
    /\ wire[Len(wire)].slot = slot /\ wire[Len(wire)].item = item
    /\ wire[Len(wire)].step = "create" /\ wire[Len(wire)].resp # "lost"
    /\ wire[Len(wire)].path = Item.create_path /\ wire[Len(wire)].method = Item.create_method

\* a secret is only guessed of a token
TokenInHand == pc = "run" /\ step = "weak" => Check = "jwt" /\ JwtToken # NoToken

\* What a step of the scan keeps, for its evidence (the run of the six checks).
EInv == IInv /\ EvidenceBacked /\ NothingYet /\ CreateAnswered /\ TokenInHand

Preparing == {"validate", "resolve", "spec", "crawl", "auth"}

\* the checks before this one have ended and those after it have not begun; what
\* is held belongs to the check that runs, and no other check is skipped than
\* one without a hint
ChecksInOrder ==
  /\ pc \in Preparing => \A s \in Slots : status[s] = "pending"
  /\ pc \in {"checks", "run"} => \A s \in Slots : status[s] = "pending" <=> s >= slot
  /\ pc \in {"dedup", "done"} => \A s \in Slots : status[s] # "pending"
  /\ \A s \in Slots : status[s] # "pending" =>
       (status[s] = "skipped" <=> Hintless(job.check_ids[s]))
  /\ pc = "run" => ~Hintless(Check) /\ \A i \in 1..Len(local) : local[i].check = Check
  /\ pc \in (Phases \ {"run"}) \cup {"done"} => local = <<>>

\* the wire is behind the loops: every exchange of a check was made for an item
\* that is over or is being probed
WireBehind ==
  /\ \A k \in 1..Len(wire) : LET x == wire[k] IN
       /\ x.slot \in Slots \/ (x.slot = 0 /\ x.step \in {"spec", "register", "login"})
       /\ pc \in Preparing => x.slot = 0
       /\ pc = "checks" => x.slot < slot
       /\ pc = "run" => \/ x.slot < slot
                        \/ x.slot = slot /\ x.item < item
                        \/ x.slot = slot /\ x.item = item /\ step # "next"
       /\ x.slot \in Slots => status[x.slot] # "skipped"
  /\ \A i \in 1..Len(endpoints) : endpoints[i].path \notin job.exclude

\* an endpoint is crawled once, so sqli meets no path it has already reported
OperationsOnce ==
  /\ pc \in {"validate", "resolve", "spec"} => endpoints = <<>>
  /\ pc = "crawl" =>
       \A i \in 1..Len(endpoints) : \E m \in 1..(slot - 1) : endpoints[i] = job.openapi.paths[m]
  /\ \A i, j \in 1..Len(endpoints) :
       endpoints[i].path = endpoints[j].path /\ endpoints[i].method = endpoints[j].method => i = j
  /\ pc = "run" /\ Check = "sqli" =>
       /\ step = "inject" => Item.method = "GET"
       /\ \A i \in 1..Len(local) : \E m \in 1..(item - 1) :
            m <= Len(endpoints) /\ endpoints[m].path = local[i].path /\ endpoints[m].method = "GET"

\* the payloads of this endpoint were the last exchanges, and none of them fired
PayloadsBehind ==
  /\ pc \in Preparing \/ step # "inject" => tries = 0
  /\ pc = "run" /\ step = "inject" =>
       /\ tries < Payloads
       /\ \A k \in 1..Len(wire) :
            wire[k].step = "inject" /\ wire[k].slot = slot /\ wire[k].item = item =>
              k > Len(wire) - tries /\ ~Fires("sqli", wire[k].resp)

\* the other identity is about to read: the owner's create was the last exchange
CreateBehind ==
  pc = "run" /\ step = "read" =>
    /\ Check = "bola"
    /\ Item.create =>
         /\ Len(wire) > 0 /\ wire[Len(wire)].step = "create"
         /\ wire[Len(wire)].slot = slot /\ wire[Len(wire)].item = item

\* what a hit or a response that fired has become, at any time
HitsPlaced ==
  \A h \in 1..Len(hits) :
    /\ hits[h].slot \in Slots
    /\ \/ \E i \in 1..Len(findings) : findings[i] = hits[h].finding
       \/ hits[h].slot = slot /\ \E i \in 1..Len(local) : local[i] = hits[h].finding
       \/ status[hits[h].slot] \in {"blocked", "errored"}
Concluded ==
  \A k \in 1..Len(wire) : LET x == wire[k] IN
    x.step \in Deciding /\ Fires(CheckOf(x), x.resp) =>
      \/ \E i \in 1..Len(findings) : findings[i].check = CheckOf(x) /\ findings[i].path = PathOf(x)
      \/ x.slot = slot /\ \E i \in 1..Len(local) : local[i].check = CheckOf(x) /\ local[i].path = PathOf(x)
      \/ status[x.slot] \in {"blocked", "errored"}

\* the report is that of the findings looked at so far
Deduped ==
  /\ pc \notin {"dedup", "done"} => report = <<>>
  /\ pc = "dedup" => slot <= Len(findings) + 1 /\ FirstOfEach(slot - 1)
  /\ ReportExact

\* What the checks of a scan owe each other and the scope, in one invariant: the
\* two steps of a probe stay together, a confirmed injection stops, excluded
\* paths are never crawled, one check's failure settles no other check, and
\* only a path or a target that leads elsewhere aborts a validated scan
\* (engine.scan and the run of the six checks).
ScanInv ==
  /\ EInv
  /\ SetupFirst /\ InjectionStops /\ ExcludedNeverCrawled
  /\ EveryCheckSettled /\ OwnTargetInScope
  /\ ChecksInOrder /\ WireBehind /\ OperationsOnce /\ PayloadsBehind /\ CreateBehind
  /\ HitsPlaced /\ Concluded /\ Deduped
==============================================================================
