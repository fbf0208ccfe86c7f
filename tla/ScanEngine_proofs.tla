-------------------------- MODULE ScanEngine_proofs --------------------------
(***************************************************************************)
(* ScanEngine: for every set of jobs, hosts, paths, identities, payloads   *)
(* and secrets, the scan stays well typed and its client stays in scope,   *)
(* what it collects and returns is backed by the exchanges it made, and no *)
(* hit and no positive is lost on the way to the report.                   *)
(***************************************************************************)
EXTENDS ScanEngine, TLAPS

\* An appended exchange is the last one and moves no other (wire in Sent).
LEMMA AppendSeq ==
  ASSUME NEW S, NEW s \in Seq(S), NEW e \in S
  PROVE  /\ Append(s, e) \in Seq(S)
         /\ Len(Append(s, e)) = Len(s) + 1
         /\ \A i \in 1..Len(s) : Append(s, e)[i] = s[i]
         /\ Append(s, e)[Len(s) + 1] = e
         /\ Len(s) \in Nat
  OBVIOUS

\* The arguments of scan have their types (scan, lines 88-104).
LEMMA JobTypes ==
  ASSUME job \in Jobs
  PROVE  /\ job.target \in Url /\ job.openapi \in Openapi
         /\ job.check_ids \in Seq(STRING) /\ job.auth \in Seq(AuthSpec)
         /\ job.hints \in [HintKeys -> Seq(Hint)]
         /\ Len(job.check_ids) \in Nat /\ Len(job.auth) \in Nat
  <1>1. job \in Job
    BY EngineAssumption
  <1>2. QED
    BY <1>1 DEF Job

\* A check that runs is one of the six, and probes endpoints or hints
\* (get_check, and what each check iterates over).
LEMMA ItemsTyped ==
  ASSUME IInv, pc = "run"
  PROVE  /\ slot \in Slots /\ Check \in CheckIds
         /\ Check \in SpecDriven => Items = endpoints /\ Items \in Seq(Endpoint)
         /\ Check \notin SpecDriven => Check \in HintKeys /\ Items \in Seq(Hint)
         /\ Len(Items) \in Nat
  <1>1. slot \in Slots /\ Check \in CheckIds
    BY DEF IInv, StepInPlace, Opened, Phases, Check
  <1>2. job.hints \in [HintKeys -> Seq(Hint)] /\ endpoints \in Seq(Endpoint)
    BY JobTypes DEF IInv, TypeOK
  <1>3. CASE Check \in SpecDriven
    BY <1>1, <1>2, <1>3 DEF Items
  <1>4. CASE Check \notin SpecDriven
    BY <1>1, <1>2, <1>4 DEF Items, HintKeys
  <1>5. QED
    BY <1>1, <1>3, <1>4

\* The item a probe looks at has a path and a method; a hint has its other
\* methods and names too.
LEMMA ItemTyped ==
  ASSUME IInv, pc = "run", item \in 1..Len(Items)
  PROVE  /\ Item.path \in Paths /\ Item.method \in Methods
         /\ Check \notin SpecDriven =>
              Item \in Hint /\ Item.create_path \in Paths /\ Item.create_method \in Methods
  <1>1. CASE Check \in SpecDriven
    <2>1. Item \in Endpoint
      BY <1>1, ItemsTyped DEF Item
    <2>2. QED
      BY <1>1, <2>1 DEF Endpoint
  <1>2. CASE Check \notin SpecDriven
    <2>1. Item \in Hint
      BY <1>2, ItemsTyped DEF Item
    <2>2. QED
      BY <1>2, <2>1 DEF Hint
  <1>3. QED
    BY <1>1, <1>2

\* What the gate of the client lets through goes to a host of the validated
\* scope, and is not destructive without --unsafe (HttpClient.request).
LEMMA GateSound ==
  ASSUME IInv, pc \in Phases \ {"validate"}, NEW offsite, NEW method,
         Gate(offsite, method) = "sent"
  PROVE  LET host == UrlOf(offsite).host
         IN  /\ host \in Allow /\ host \in Hosts
             /\ host \in Private \/ job.allow_public
             /\ method \in Destructive => job.unsafe
  <1>1. check(Allow, UrlOf(offsite)) /\ (method \in Destructive => job.unsafe)
    BY DEF Gate
  <1>2. validate(Allow, job.allow_public)
    BY DEF IInv, Opened
  <1>3. job.target \in Url
    BY JobTypes DEF IInv, TypeOK
  <1>4. UrlOf(offsite).host \in Hosts /\ UrlOf(offsite).schemed \in BOOLEAN
    BY <1>3, EngineAssumption DEF UrlOf, Url
  <1>5. job.scope_hosts \subseteq Url
    BY EngineAssumption DEF IInv, TypeOK, Job
  <1>6. NoHost \notin Allow
    BY <1>3, <1>5, ScopeAssumption DEF Allow, from_targets, Url
  <1>7. UrlOf(offsite).host \in Allow
    BY <1>1, <1>6 DEF check, hostname
  <1>8. QED
    BY <1>1, <1>2, <1>4, <1>7 DEF validate

\* One more guarded exchange leaves the wire typed and guarded.
LEMMA WireGrows ==
  ASSUME IInv, NEW x \in Exchange, Guarded(x), wire' = Append(wire, x), job' = job
  PROVE  wire' \in Seq(Exchange) /\ WireGuarded'
  <1>1. wire \in Seq(Exchange)
    BY DEF IInv, TypeOK
  <1>2. /\ wire' \in Seq(Exchange) /\ Len(wire') = Len(wire) + 1 /\ Len(wire) \in Nat
        /\ \A i \in 1..Len(wire) : wire'[i] = wire[i]
        /\ wire'[Len(wire) + 1] = x
    BY <1>1, AppendSeq
  <1>3. Allow' = Allow
    BY DEF Allow
  <1>4. ASSUME NEW k \in 1..Len(wire')
        PROVE  Guarded(wire'[k])
    <2>1. CASE k \in 1..Len(wire)
      BY <1>2, <2>1 DEF IInv, WireGuarded, Guarded
    <2>2. CASE k = Len(wire) + 1
      BY <1>2, <2>2
    <2>3. QED
      BY <1>2, <2>1, <2>2
  <1>5. QED
    BY <1>2, <1>3, <1>4 DEF WireGuarded, Guarded

\* A request of build_identities leaves the wire typed and guarded.
LEMMA LoginSent ==
  ASSUME IInv, Authenticating, Gate(FALSE, "POST") = "sent",
         NEW st \in {"register", "login"}, NEW resp \in Responses, job' = job,
         wire' = Sent(0, slot, st, LoginPath, FALSE, "POST", Nobody, resp)
  PROVE  wire' \in Seq(Exchange) /\ WireGuarded'
  <1> DEFINE x == [slot |-> 0, item |-> slot, step |-> st, path |-> LoginPath,
                   host |-> UrlOf(FALSE).host, method |-> "POST", as |-> Nobody, resp |-> resp]
  <1>1. pc \in Phases \ {"validate"} /\ slot \in Nat
    BY DEF Authenticating, Phases, IInv, TypeOK
  <1>2. /\ UrlOf(FALSE).host \in Allow /\ UrlOf(FALSE).host \in Hosts
        /\ UrlOf(FALSE).host \in Private \/ job.allow_public
        /\ "POST" \in Destructive => job.unsafe
    BY <1>1, GateSound
  <1>3. x \in Exchange
    BY <1>1, <1>2, ChecksAssumption DEF Exchange, Steps, Methods
  <1>4. Guarded(x)
    BY <1>2 DEF Guarded
  <1>5. wire' = Append(wire, x)
    BY DEF Sent
  <1> HIDE DEF x
  <1>6. QED
    BY <1>3, <1>4, <1>5, WireGrows

\* The request a probe makes is the one that sets it up in the step create, and
\* goes to the path of its item in the others.
LEMMA AskedTyped ==
  ASSUME IInv, pc = "run", item \in 1..Len(Items)
  PROVE  /\ Asked.path \in Paths /\ Asked.method \in Methods
         /\ Asked.as \in Names \cup {Nobody, Forged}
         /\ Check \in SpecDriven \/ step # "create" => Asked.path = Item.path
         /\ Check \notin SpecDriven /\ step = "create" =>
              Asked.path = Item.create_path /\ Asked.method = Item.create_method
  <1>1. /\ Item.path \in Paths /\ Item.method \in Methods
        /\ Check \notin SpecDriven => Item.create_path \in Paths /\ Item.create_method \in Methods
    BY ItemTyped
  <1>2. \A name : Credentials(name) \in Names \cup {Nobody}
    BY DEF Credentials, IInv, TypeOK
  <1>3. CASE Check \in SpecDriven
    BY <1>1, <1>3 DEF Asked, Decision, Methods
  <1>4. CASE Check \notin SpecDriven /\ step = "create"
    BY <1>1, <1>2, <1>4 DEF Asked, Creation
  <1>5. CASE Check \notin SpecDriven /\ step # "create"
    BY <1>1, <1>2, <1>5 DEF Asked, Decision
  <1>6. QED
    BY <1>3, <1>4, <1>5

\* A request of a check leaves the wire typed and guarded, and it is made for an
\* item of the running check (Ask).
LEMMA ProbeSent ==
  ASSUME IInv, NEW resp \in Responses, Ask(resp)
  PROVE  /\ wire' \in Seq(Exchange) /\ WireGuarded'
         /\ pc = "run" /\ item \in 1..Len(Items) /\ step # "next"
         /\ Len(wire) \in Nat
  <1> DEFINE x == [slot |-> slot, item |-> item, step |-> step, path |-> Asked.path,
                   host |-> UrlOf(Asked.offsite).host, method |-> Asked.method,
                   as |-> Asked.as, resp |-> resp]
  <1>1. pc = "run" /\ step # "next" /\ Gate(Asked.offsite, Asked.method) = "sent"
    BY DEF Ask, Asking, Verdict
  <1>2. item \in 1..Len(Items) /\ slot \in Nat /\ item \in Nat /\ step \in Steps
    BY <1>1 DEF IInv, StepInPlace, TypeOK
  <1>3. /\ Asked.path \in Paths /\ Asked.method \in Methods
        /\ Asked.as \in Names \cup {Nobody, Forged}
    BY <1>1, <1>2, AskedTyped
  <1>4. /\ UrlOf(Asked.offsite).host \in Allow /\ UrlOf(Asked.offsite).host \in Hosts
        /\ UrlOf(Asked.offsite).host \in Private \/ job.allow_public
        /\ Asked.method \in Destructive => job.unsafe
    BY <1>1, GateSound DEF Phases
  <1>5. x \in Exchange
    BY <1>2, <1>3, <1>4 DEF Exchange
  <1>6. Guarded(x)
    BY <1>4 DEF Guarded
  <1>7. wire' = Append(wire, x) /\ job' = job
    BY DEF Ask, Sent, setup
  <1> HIDE DEF x
  <1>8. wire' \in Seq(Exchange) /\ WireGuarded'
    BY <1>5, <1>6, <1>7, WireGrows
  <1>9. QED
    BY <1>1, <1>2, <1>8 DEF IInv, TypeOK

\* A finding a check records is typed, and so is its trace (Found).
LEMMA FoundTyped ==
  ASSUME IInv, pc = "run", item \in 1..Len(Items),
         NEW method \in Methods, NEW path \in Paths, NEW evidence \in Seq(Nat),
         Found(method, path, evidence)
  PROVE  local' \in Seq(Finding) /\ hits' \in Seq([slot : Nat, finding : Finding])
  <1> DEFINE f == [check |-> Check, method |-> method, path |-> path, evidence |-> evidence]
  <1>1. f \in Finding
    BY ItemsTyped DEF Finding
  <1> HIDE DEF f
  <1>2. local' = Append(local, f) /\ hits' = Append(hits, [slot |-> slot, finding |-> f])
    BY DEF Found, f
  <1>3. slot \in Nat /\ local \in Seq(Finding) /\ hits \in Seq([slot : Nat, finding : Finding])
    BY DEF IInv, TypeOK
  <1>4. QED
    BY <1>1, <1>2, <1>3

\* The same of a verdict that may be a miss (Judge).
LEMMA JudgeTyped ==
  ASSUME IInv, pc = "run", item \in 1..Len(Items), NEW resp,
         NEW method \in Methods, NEW path \in Paths, NEW evidence \in Seq(Nat),
         Judge(resp, method, path, evidence)
  PROVE  local' \in Seq(Finding) /\ hits' \in Seq([slot : Nat, finding : Finding])
  <1>1. CASE Fires(Check, resp)
    BY <1>1, FoundTyped DEF Judge
  <1>2. CASE ~Fires(Check, resp)
    BY <1>2 DEF Judge, IInv, TypeOK
  <1>3. QED
    BY <1>1, <1>2

\* A step inside a probe keeps the invariant when the wire and what was found
\* stay typed and the probe stays at its item or leaves it.
LEMMA ProbeIInv ==
  ASSUME IInv, pc = "run", item \in 1..Len(Items),
         UNCHANGED <<setup, pc, slot, findings, status, report>>,
         wire' \in Seq(Exchange), WireGuarded',
         local' \in Seq(Finding), hits' \in Seq([slot : Nat, finding : Finding]),
         tries' \in Nat,
         (item' = item /\ step' \in Steps) \/ (item' = item + 1 /\ step' = "next")
  PROVE  IInv'
  <1>0. UNCHANGED <<job, endpoints, identities>>
    BY DEF setup
  <1>1. TypeOK'
    <2>1. item' \in Nat \ {0} /\ step' \in Steps
      BY DEF IInv, TypeOK, Steps
    <2>2. Slots' = Slots
      BY <1>0 DEF Slots
    <2>3. QED
      BY <1>0, <2>1, <2>2 DEF IInv, TypeOK
  <1>2. Opened'
    BY <1>0 DEF IInv, Opened, Allow, Slots
  <1>3. StepInPlace'
    BY <1>0 DEF IInv, StepInPlace, Items, Check, Slots, Phases
  <1>4. QED
    BY <1>1, <1>2, <1>3 DEF IInv

\* The end of a check keeps the invariant (the except clauses of scan's loop).
LEMMA NextCheckIInv ==
  ASSUME IInv, pc \in {"checks", "run"}, slot \in Slots, NEW outcome \in Outcomes,
         NextCheck(outcome), findings' \in Seq(Finding), UNCHANGED <<hits, wire>>
  PROVE  IInv'
  <1>0. UNCHANGED <<job, endpoints, identities, report>> /\ pc' = "checks"
        /\ slot' = slot + 1 /\ item' = 1 /\ step' = "next" /\ tries' = 0 /\ local' = <<>>
        /\ status' = [status EXCEPT ![slot] = outcome]
    BY DEF NextCheck, setup
  <1>1. TypeOK'
    <2>1. status' \in [Slots' -> Outcomes]
      BY <1>0 DEF IInv, TypeOK, Slots
    <2>2. QED
      BY <1>0, <2>1 DEF IInv, TypeOK, Steps, Phases
  <1>2. Opened'
    BY <1>0 DEF IInv, Opened, Allow, Slots, Phases
  <1>3. StepInPlace'
    BY <1>0 DEF StepInPlace, Phases
  <1>4. WireGuarded'
    BY <1>0 DEF IInv, WireGuarded, Guarded, Allow
  <1>5. QED
    BY <1>1, <1>2, <1>3, <1>4 DEF IInv

\* A step that only moves the program counter or the loop index keeps the
\* invariant when it opens nothing that was not checked.
LEMMA QuietIInv ==
  ASSUME IInv, UNCHANGED <<setup, probe, output, wire>>,
         pc' \in Phases \cup Ended, slot' \in Nat \ {0}, Opened', StepInPlace'
  PROVE  IInv'
  <1>1. UNCHANGED <<job, endpoints, identities, item, step, tries, local,
                    findings, status, report, hits, wire>>
    BY DEF setup, probe, output
  <1>2. TypeOK'
    BY <1>1 DEF IInv, TypeOK, Slots
  <1>3. WireGuarded'
    BY <1>1 DEF IInv, WireGuarded, Guarded, Allow
  <1>4. QED
    BY <1>2, <1>3 DEF IInv

\* scan begins with the invariant.
LEMMA InitIInv == Init => IInv
  <1> SUFFICES ASSUME Init PROVE IInv
    OBVIOUS
  <1>1. TypeOK
    BY ChecksAssumption DEF Init, TypeOK, Phases, Steps, Slots, Outcomes, Identity, Anonymous
  <1>2. Opened /\ StepInPlace /\ WireGuarded
    BY DEF Init, Opened, StepInPlace, WireGuarded, Phases
  <1>3. QED
    BY <1>1, <1>2 DEF IInv

\* Before the first request of the client (scan, lines 105-119).
LEMMA SetupIInv ==
  ASSUME IInv, Validate \/ Resolve \/ SpecNotGiven \/ SpecFile \/ SpecFetch \/ Crawl \/ Crawled
  PROVE  IInv'
  <1>t. TypeOK /\ slot \in Nat \ {0}
    BY DEF IInv, TypeOK
  <1> USE DEF Phases, Ended
  <1>1. CASE Validate
    <2>1. Opened' /\ StepInPlace'
      BY <1>1 DEF Validate, IInv, Opened, StepInPlace, Allow, setup, probe
    <2>2. QED
      BY <1>1, <1>t, <2>1, QuietIInv DEF Validate
  <1>2. CASE Resolve
    <2>1. Opened' /\ StepInPlace'
      BY <1>2 DEF Resolve, IInv, Opened, StepInPlace, Allow, Slots, setup, probe
    <2>2. QED
      BY <1>2, <1>t, <2>1, QuietIInv DEF Resolve
  <1>3. CASE SpecNotGiven \/ SpecFile
    <2>1. pc = "spec" /\ pc' \in {"ScanError", "auth", "crawl"} /\ slot' = slot
          /\ UNCHANGED <<setup, probe, output, wire>>
      BY <1>3 DEF SpecNotGiven, SpecFile, SpecUnusable
    <2>2. Opened' /\ StepInPlace'
      BY <2>1 DEF IInv, Opened, StepInPlace, Allow, Slots, setup, probe
    <2>3. QED
      BY <1>t, <2>1, <2>2, QuietIInv
  <1>4. CASE SpecFetch
    <2>1. PICK resp \in {"lost", "denied", "clean"} :
            wire' = Append(wire, [slot |-> 0, item |-> 1, step |-> "spec",
              path |-> LoginPath, host |-> job.openapi.host, method |-> "GET",
              as |-> Nobody, resp |-> resp])
      BY <1>4 DEF SpecFetch
    <2> DEFINE x == [slot |-> 0, item |-> 1, step |-> "spec", path |-> LoginPath,
                     host |-> job.openapi.host, method |-> "GET", as |-> Nobody, resp |-> resp]
    <2>2. pc = "spec" /\ pc' \in {"ScanError", "auth", "crawl"} /\ slot' = slot
          /\ UNCHANGED <<job, endpoints, identities, item, step, tries, local,
                         findings, status, report, hits>>
      BY <1>4 DEF SpecFetch, SpecUnusable, setup, probe, output
    <2>3. job.openapi.host \in Hosts
      BY <1>t, JobTypes DEF TypeOK, Openapi
    <2>4. x \in Exchange
      BY <2>3, ChecksAssumption DEF Exchange, Steps, Methods, Responses
    <2>5. Guarded(x)
      BY DEF Guarded
    <2> HIDE DEF x
    <2>6. wire' \in Seq(Exchange) /\ WireGuarded'
      BY <2>1, <2>2, <2>4, <2>5, WireGrows DEF x
    <2>7. Opened' /\ StepInPlace'
      BY <2>2 DEF IInv, Opened, StepInPlace, Allow, Slots
    <2>8. TypeOK'
      BY <1>t, <2>2, <2>6 DEF TypeOK, Slots
    <2>9. QED
      BY <2>6, <2>7, <2>8 DEF IInv
  <1>5. CASE Crawl
    <2>1. pc = "crawl" /\ slot \in 1..Len(job.openapi.paths) /\ slot' = slot + 1
          /\ UNCHANGED <<job, pc, identities, item, step, tries, local,
                         findings, status, report, hits, wire>>
      BY <1>5, <1>t DEF Crawl, probe, output
    <2>2. job.openapi.paths \in Seq(Endpoint) /\ endpoints \in Seq(Endpoint)
      BY <1>t, JobTypes DEF TypeOK, Openapi
    <2>3. endpoints' \in Seq(Endpoint)
      <3>1. job.openapi.paths[slot] \in Endpoint
        BY <2>1, <2>2
      <3>2. endpoints' = endpoints \/ endpoints' = Append(endpoints, job.openapi.paths[slot])
        BY <1>5 DEF Crawl
      <3>3. QED
        BY <2>2, <3>1, <3>2, AppendSeq
    <2>4. Opened' /\ StepInPlace' /\ WireGuarded'
      BY <2>1 DEF IInv, Opened, StepInPlace, WireGuarded, Guarded, Allow, Slots
    <2>5. TypeOK'
      BY <1>t, <2>1, <2>3 DEF TypeOK, Slots
    <2>6. QED
      BY <2>4, <2>5 DEF IInv
  <1>6. CASE Crawled
    <2>1. Opened' /\ StepInPlace'
      BY <1>6 DEF Crawled, IInv, Opened, StepInPlace, Allow, Slots, setup, probe
    <2>2. QED
      BY <1>6, <1>t, <2>1, QuietIInv DEF Crawled
  <1>7. QED
    BY <1>1, <1>2, <1>3, <1>4, <1>5, <1>6

\* The entry of the auth block at hand is typed (AuthConfig).
LEMMA AccountTyped ==
  ASSUME IInv, Authenticating
  PROVE  Account \in AuthSpec /\ slot \in 1..Len(job.auth) /\ Len(job.auth) \in Nat
  <1>1. job.auth \in Seq(AuthSpec) /\ slot \in Nat \ {0}
    BY JobTypes DEF IInv, TypeOK
  <1>2. slot \in 1..Len(job.auth)
    BY <1>1 DEF Authenticating
  <1>3. QED
    BY <1>1, <1>2 DEF Account

\* A new identity has a name of the auth block (identities[spec.name] = ...).
LEMMA IdentityAdded ==
  ASSUME IInv, Authenticating, NEW identity \in Identity, AddIdentity(identity)
  PROVE  /\ DOMAIN identities' \subseteq Names
         /\ \A n \in DOMAIN identities' : identities'[n] \in Identity
  <1>1. Account.name \in Names
    BY AccountTyped DEF AuthSpec
  <1>2. /\ DOMAIN identities \subseteq Names
        /\ \A n \in DOMAIN identities : identities[n] \in Identity
    BY DEF IInv, TypeOK
  <1>3. QED
    BY <1>1, <1>2 DEF AddIdentity

\* build_identities (auth/__init__.py): one entry at a time, a login in two steps.
LEMMA AuthIInv ==
  ASSUME IInv, StaticIdentity \/ LoginRefused \/ Register \/ Login \/ Authenticated
  PROVE  IInv'
  <1>t. TypeOK /\ slot \in Nat \ {0}
    BY DEF IInv, TypeOK
  <1> USE DEF Phases, Ended
  <1>1. CASE StaticIdentity
    <2>1. Authenticating /\ pc = "auth" /\ Account.kind # "login" /\ step = "next"
      BY <1>1 DEF StaticIdentity, Authenticating, IInv, StepInPlace
    <2>2. UNCHANGED <<job, endpoints, item, step, tries, local,
                      findings, status, report, hits, wire>>
      BY <1>1 DEF StaticIdentity, probe, output
    <2>3. CASE pc' = "KeyError" /\ UNCHANGED <<identities, slot>>
      <3>1. Opened' /\ StepInPlace'
        BY <2>3 DEF Opened, StepInPlace
      <3>2. QED
        BY <1>t, <2>2, <2>3, <3>1, QuietIInv DEF setup, probe, output
    <2>4. CASE ~(Account.kind = "bearer" /\ Account.token = NoToken)
      <3> DEFINE identity == CASE Account.kind = "bearer" -> [token |-> Account.token, headed |-> TRUE]
                               [] Account.kind = "header" -> [token |-> NoToken, headed |-> TRUE]
                               [] OTHER -> Anonymous
      <3>1. AddIdentity(identity) /\ slot' = slot + 1 /\ pc' = pc
        BY <1>1, <2>4 DEF StaticIdentity
      <3>2. identity \in Identity
        BY <2>1, AccountTyped DEF AuthSpec, Identity, Anonymous
      <3> HIDE DEF identity
      <3>3. TypeOK'
        BY <1>t, <2>1, <2>2, <3>1, <3>2, IdentityAdded DEF TypeOK, Slots
      <3>4. Opened' /\ StepInPlace' /\ WireGuarded'
        BY <2>1, <2>2, <3>1 DEF IInv, Opened, StepInPlace, WireGuarded, Guarded, Allow, Slots
      <3>5. QED
        BY <3>3, <3>4 DEF IInv
    <2>5. QED
      BY <1>1, <2>3, <2>4 DEF StaticIdentity
  <1>2. CASE LoginRefused
    <2>1. pc' = "ScopeError"
      BY <1>2 DEF LoginRefused, Gate, Destructive
    <2>2. Opened' /\ StepInPlace'
      BY <2>1 DEF Opened, StepInPlace
    <2>3. QED
      BY <1>2, <1>t, <2>1, <2>2, QuietIInv DEF LoginRefused
  <1>3. CASE Register
    <2>1. PICK resp \in {"lost", "clean"} :
            /\ wire' = Sent(0, slot, "register", LoginPath, FALSE, "POST", Nobody, resp)
            /\ IF resp = "lost" THEN pc' = "HTTPError" /\ UNCHANGED step
                                ELSE step' = "login" /\ UNCHANGED pc
      BY <1>3 DEF Register
    <2>2. Authenticating /\ pc = "auth" /\ Account.kind = "login" /\ Gate(FALSE, "POST") = "sent"
          /\ UNCHANGED <<job, endpoints, identities, slot, item, tries, local,
                         findings, status, report, hits>>
      BY <1>3 DEF Register, Authenticating, setup, output
    <2>3. wire' \in Seq(Exchange) /\ WireGuarded'
      BY <2>1, <2>2, LoginSent DEF Responses
    <2>4. TypeOK'
      BY <1>t, <2>1, <2>2, <2>3 DEF TypeOK, Slots, Steps
    <2>5. Opened' /\ StepInPlace'
      BY <2>1, <2>2 DEF IInv, Opened, StepInPlace, Allow, Slots, Authenticating, Account
    <2>6. QED
      BY <2>3, <2>4, <2>5 DEF IInv
  <1>4. CASE Login
    <2>1. PICK resp \in {"lost", "denied", "clean"} :
            /\ wire' = Sent(0, slot, "login", LoginPath, FALSE, "POST", Nobody, resp)
            /\ IF resp = "lost"
               THEN pc' = "HTTPError" /\ UNCHANGED <<identities, slot>>
               ELSE /\ AddIdentity(IF resp = "clean" /\ Account.token # NoToken
                                   THEN [token |-> Account.token, headed |-> TRUE] ELSE Anonymous)
                    /\ slot' = slot + 1 /\ UNCHANGED pc
      BY <1>4 DEF Login
    <2>2. Authenticating /\ pc = "auth" /\ Account.kind = "login" /\ Gate(FALSE, "POST") = "sent"
          /\ step' = "next"
          /\ UNCHANGED <<job, endpoints, item, tries, local, findings, status, report, hits>>
      BY <1>4 DEF Login, Authenticating, output
    <2>3. wire' \in Seq(Exchange) /\ WireGuarded'
      BY <2>1, <2>2, LoginSent DEF Responses
    <2>4. /\ DOMAIN identities' \subseteq Names
          /\ \A n \in DOMAIN identities' : identities'[n] \in Identity
          /\ pc' \in {"HTTPError", "auth"} /\ slot' \in Nat \ {0}
      <3>1. CASE resp = "lost"
        BY <1>t, <2>1, <3>1 DEF TypeOK
      <3>2. CASE resp # "lost"
        <4> DEFINE identity == IF resp = "clean" /\ Account.token # NoToken
                               THEN [token |-> Account.token, headed |-> TRUE] ELSE Anonymous
        <4>1. identity \in Identity
          BY <2>2, AccountTyped DEF AuthSpec, Identity, Anonymous
        <4>2. AddIdentity(identity) /\ slot' = slot + 1 /\ pc' = pc
          BY <2>1, <3>2
        <4> HIDE DEF identity
        <4>3. QED
          BY <1>t, <2>2, <4>1, <4>2, IdentityAdded
      <3>3. QED
        BY <3>1, <3>2
    <2>5. TypeOK'
      BY <1>t, <2>2, <2>3, <2>4 DEF TypeOK, Slots, Steps
    <2>6. Opened' /\ StepInPlace'
      BY <2>2, <2>4 DEF IInv, Opened, StepInPlace, Allow, Slots
    <2>7. QED
      BY <2>3, <2>5, <2>6 DEF IInv
  <1>5. CASE Authenticated
    <2>1. pc = "auth" /\ slot > Len(job.auth) /\ pc' = "checks" /\ slot' = 1
          /\ UNCHANGED <<setup, probe, output, wire>>
      BY <1>5 DEF Authenticated
    <2>2. step = "next"
      <3>1. ~Authenticating
        BY <1>t, <2>1, JobTypes DEF Authenticating, TypeOK
      <3>2. QED
        BY <2>1, <3>1 DEF IInv, StepInPlace
    <2>3. Opened' /\ StepInPlace'
      BY <2>1, <2>2 DEF IInv, Opened, StepInPlace, Allow, Slots, setup, probe
    <2>4. QED
      BY <2>1, <2>3, QuietIInv
  <1>6. QED
    BY <1>1, <1>2, <1>3, <1>4, <1>5

\* What engine.scan does around a check: its loop, its except clauses, the
\* de-duplication.
LEMMA LoopIInv ==
  ASSUME IInv, \/ SkipCheck \/ StartCheck \/ ReturnFindings \/ ChecksDone
               \/ OutOfScope \/ BlockedMethod \/ CheckErrors \/ Dedup \/ Return
  PROVE  IInv'
  <1>t. /\ TypeOK /\ slot \in Nat \ {0} /\ Len(job.check_ids) \in Nat
        /\ findings \in Seq(Finding) /\ local \in Seq(Finding)
    BY JobTypes DEF IInv, TypeOK
  <1>r. pc = "run" => slot \in Slots
    BY DEF IInv, StepInPlace
  <1> USE DEF Phases, Ended
  <1>1. CASE SkipCheck
    <2>1. slot \in Slots /\ findings' \in Seq(Finding)
      BY <1>1, <1>t DEF SkipCheck, Slots
    <2>2. QED
      BY <1>1, <2>1, NextCheckIInv DEF SkipCheck, Outcomes
  <1>2. CASE StartCheck
    <2>1. slot \in Slots
      BY <1>2, <1>t DEF StartCheck, Slots
    <2>2. Opened' /\ StepInPlace'
      BY <1>2, <2>1 DEF StartCheck, IInv, Opened, StepInPlace, Allow, Slots, setup, probe
    <2>3. QED
      BY <1>2, <1>t, <2>2, QuietIInv DEF StartCheck
  <1>3. CASE ReturnFindings
    <2>1. findings' \in Seq(Finding)
      BY <1>3, <1>t DEF ReturnFindings
    <2>2. QED
      BY <1>3, <1>r, <2>1, NextCheckIInv DEF ReturnFindings, Outcomes
  <1>4. CASE ChecksDone
    <2>1. Opened' /\ StepInPlace'
      BY <1>4 DEF ChecksDone, IInv, Opened, StepInPlace, Allow, Slots, setup, probe
    <2>2. QED
      BY <1>4, <2>1, QuietIInv DEF ChecksDone
  <1>5. CASE OutOfScope
    <2>1. Opened' /\ StepInPlace'
      BY <1>5 DEF OutOfScope, Opened, StepInPlace
    <2>2. QED
      BY <1>5, <1>t, <2>1, QuietIInv DEF OutOfScope
  <1>6. CASE BlockedMethod \/ CheckErrors
    <2>1. /\ pc = "run" /\ findings' \in Seq(Finding) /\ UNCHANGED <<hits, wire>>
          /\ NextCheck("blocked") \/ NextCheck("errored")
      BY <1>6, <1>t DEF BlockedMethod, CheckErrors, Asking
    <2>2. QED
      BY <1>r, <2>1, NextCheckIInv DEF Outcomes
  <1>7. CASE Dedup
    <2>1. /\ pc = "dedup" /\ slot \in 1..Len(findings) /\ slot' = slot + 1
          /\ UNCHANGED <<job, endpoints, identities, pc, item, step, tries, local,
                         findings, status, hits, wire>>
      BY <1>7, <1>t DEF Dedup, setup, probe
    <2>2. report' \in Seq(Finding)
      <3>1. report' = report \/ report' = Append(report, findings[slot])
        BY <1>7 DEF Dedup
      <3>2. findings[slot] \in Finding /\ report \in Seq(Finding)
        BY <1>t, <2>1 DEF TypeOK
      <3>3. QED
        BY <3>1, <3>2, AppendSeq
    <2>3. TypeOK'
      BY <1>t, <2>1, <2>2 DEF TypeOK, Slots
    <2>4. Opened' /\ StepInPlace' /\ WireGuarded'
      BY <2>1 DEF IInv, Opened, StepInPlace, WireGuarded, Guarded, Allow, Slots
    <2>5. QED
      BY <2>3, <2>4 DEF IInv
  <1>8. CASE Return
    <2>1. Opened' /\ StepInPlace'
      BY <1>8 DEF Return, Opened, StepInPlace
    <2>2. QED
      BY <1>8, <1>t, <2>1, QuietIInv DEF Return
  <1>9. QED
    BY <1>1, <1>2, <1>3, <1>4, <1>5, <1>6, <1>7, <1>8

\* Steps of a check that send nothing.
LEMMA OfflineIInv ==
  ASSUME IInv, PassBy \/ Begin \/ JwtWeakSecret \/ JwtNoForgery
  PROVE  IInv'
  <1>t. /\ TypeOK /\ item \in Nat \ {0} /\ wire \in Seq(Exchange) /\ WireGuarded
        /\ local \in Seq(Finding) /\ hits \in Seq([slot : Nat, finding : Finding]) /\ tries \in Nat
    BY DEF IInv, TypeOK
  <1>1. /\ pc = "run" /\ UNCHANGED <<setup, pc, slot, findings, status, report, wire>>
        /\ tries' \in Nat
    BY <1>t DEF PassBy, Begin, JwtWeakSecret, JwtNoForgery, NextItem, output
  <1>2. item \in 1..Len(Items)
    <2>1. Len(Items) \in Nat
      BY <1>1, ItemsTyped
    <2>2. step # "next" \/ item <= Len(Items)
      BY DEF PassBy, Begin, JwtWeakSecret, JwtNoForgery
    <2>3. QED
      BY <1>t, <1>1, <2>1, <2>2 DEF IInv, StepInPlace
  <1>3. WireGuarded'
    BY <1>1 DEF IInv, WireGuarded, Guarded, Allow, setup
  <1>4. CASE PassBy \/ Begin \/ JwtNoForgery
    <2>1. UNCHANGED <<local, hits>>
      BY <1>4 DEF PassBy, Begin, JwtNoForgery, output
    <2>2. (item' = item /\ step' \in Steps) \/ (item' = item + 1 /\ step' = "next")
      BY <1>4 DEF PassBy, Begin, JwtNoForgery, NextItem, PassedBy, FirstStep, Steps
    <2>3. QED
      BY <1>t, <1>1, <1>2, <1>3, <2>1, <2>2, ProbeIInv
  <1>5. CASE JwtWeakSecret
    <2>1. local' \in Seq(Finding) /\ hits' \in Seq([slot : Nat, finding : Finding])
      <3>1. CASE Found("POST", LoginPath, <<0>>)
        <4>1. "POST" \in Methods /\ LoginPath \in Paths /\ <<0>> \in Seq(Nat)
          BY ChecksAssumption DEF Methods
        <4>2. QED
          BY <1>1, <1>2, <3>1, <4>1, FoundTyped
      <3>2. CASE UNCHANGED <<local, hits>>
        BY <1>t, <3>2
      <3>3. QED
        BY <1>5, <3>1, <3>2 DEF JwtWeakSecret
    <2>2. item' = item /\ step' \in Steps
      BY <1>5 DEF JwtWeakSecret, Steps
    <2>3. QED
      BY <1>t, <1>1, <1>2, <1>3, <2>1, <2>2, ProbeIInv
  <1>6. QED
    BY <1>4, <1>5

\* Steps of a check that send a request and judge the answer or remember it.
LEMMA RequestIInv ==
  ASSUME IInv, \/ ExposureProbe \/ SqliInject \/ BolaCreate \/ BolaRead
               \/ MassCreate \/ MassConfirm \/ SsrfProbe \/ JwtAlgNone
  PROVE  IInv'
  <1>t. /\ item \in Nat \ {0} /\ local \in Seq(Finding) /\ tries \in Nat /\ step \in Steps
        /\ hits \in Seq([slot : Nat, finding : Finding])
    BY DEF IInv, TypeOK
  <1>1. PICK resp \in Responses : Ask(resp)
    BY DEF ExposureProbe, SqliInject, BolaCreate, BolaRead, MassCreate, MassConfirm,
           SsrfProbe, JwtAlgNone, Responses
  <1>2. /\ wire' \in Seq(Exchange) /\ WireGuarded'
        /\ pc = "run" /\ item \in 1..Len(Items) /\ Len(wire) \in Nat
    BY <1>1, ProbeSent
  <1>3. UNCHANGED <<setup, pc, slot, findings, status, report>>
    BY <1>1 DEF Ask
  <1>4. /\ Item.path \in Paths /\ Item.method \in Methods
        /\ Check \notin SpecDriven => Item.create_path \in Paths /\ Item.create_method \in Methods
    BY <1>2, ItemTyped
  <1>5. <<Here>> \in Seq(Nat) /\ <<Here, Len(wire)>> \in Seq(Nat)
    BY <1>2 DEF Here
  <1>6. local' \in Seq(Finding) /\ hits' \in Seq([slot : Nat, finding : Finding])
    <2>1. CASE ExposureProbe \/ BolaRead \/ SsrfProbe \/ JwtAlgNone
      <3>1. PICK r \in Responses : Judge(r, Item.method, Item.path, <<Here>>)
        BY <2>1 DEF ExposureProbe, BolaRead, SsrfProbe, JwtAlgNone
      <3>2. QED
        BY <1>2, <1>4, <1>5, <3>1, JudgeTyped
    <2>2. CASE MassConfirm
      <3>1. PICK r \in Responses :
              Judge(r, Item.create_method, Item.create_path, <<Here, Len(wire)>>)
        BY <2>2 DEF MassConfirm
      <3>2. Item.create_path \in Paths /\ Item.create_method \in Methods
        BY <1>4, <2>2 DEF MassConfirm, SpecDriven
      <3>3. QED
        BY <1>2, <1>5, <3>1, <3>2, JudgeTyped
    <2>3. CASE SqliInject
      <3>1. Found(Item.method, Item.path, <<Here>>) \/ UNCHANGED <<local, hits>>
        BY <2>3 DEF SqliInject
      <3>2. QED
        BY <1>t, <1>2, <1>4, <1>5, <3>1, FoundTyped
    <2>4. CASE BolaCreate \/ MassCreate
      BY <1>t, <2>4 DEF BolaCreate, MassCreate
    <2>5. QED
      BY <2>1, <2>2, <2>3, <2>4
  <1>7. /\ tries' \in Nat
        /\ (item' = item /\ step' \in Steps) \/ (item' = item + 1 /\ step' = "next")
    BY <1>t DEF ExposureProbe, SqliInject, BolaCreate, BolaRead, MassCreate, MassConfirm,
                SsrfProbe, JwtAlgNone, NextItem, Steps
  <1>8. QED
    BY <1>2, <1>3, <1>6, <1>7, ProbeIInv

\* Every step of a scan keeps the invariant.
LEMMA NextIInv == IInv /\ [Next]_vars => IInv'
  <1> SUFFICES ASSUME IInv, [Next]_vars PROVE IInv'
    OBVIOUS
  <1>1. CASE Terminated \/ UNCHANGED vars
    <2>1. UNCHANGED vars
      BY <1>1 DEF Terminated
    <2>2. QED
      BY <2>1 DEF vars, IInv, TypeOK, Opened, StepInPlace, WireGuarded, Guarded,
                  Allow, Slots, Items, Check, Authenticating, Account
  <1>2. QED
    BY <1>1, SetupIInv, AuthIInv, LoopIInv, OfflineIInv, RequestIInv DEF Next

\* The invariant holds of every scan.
THEOREM Invariance == Spec => []IInv
  <1>1. QED
    BY InitIInv, NextIInv, PTL DEF Spec

\* Type correctness of the state of a scan: every exchange, finding, identity
\* and loop index is what the code after it takes it for (engine.scan).
THEOREM TypeCorrect == Spec => []TypeOK
  <1>1. IInv => TypeOK
    BY DEF IInv
  <1>2. QED
    BY <1>1, Invariance, PTL

\* Whatever the suite asks for and the target answers, no request of the client
\* leaves the validated scope, and none is destructive without --unsafe.
THEOREM WireIsGuarded == Spec => []WireGuarded
  <1>1. IInv => WireGuarded
    BY DEF IInv
  <1>2. QED
    BY <1>1, Invariance, PTL

------------------------------------------------------------------------------
\* The identities do not change once the checks run, so a token stays what it
\* was when its secret was guessed (JwtCheck.run).
LEMMA TokenStays ==
  ASSUME job' = job, identities' = identities
  PROVE  \A n : TokenFor(n)' = TokenFor(n)
  BY DEF TokenFor, WithToken, Position

\* A guess stays while the job and the identities do.
LEMMA GuessedStays ==
  ASSUME job' = job, identities' = identities, Guessed
  PROVE  Guessed'
  BY TokenStays DEF Guessed

\* The wire only grows, so an exchange a finding cites stays where it is.
LEMMA BackedStays ==
  ASSUME job' = job, identities' = identities, wire \in Seq(Exchange), NEW x \in Exchange,
         wire' = wire \/ wire' = Append(wire, x)
  PROVE  \A f \in Finding : Backed(f) => Backed(f)'
  <1> SUFFICES ASSUME NEW f \in Finding, Backed(f) PROVE Backed(f)'
    OBVIOUS
  <1>1. CASE f.evidence[1] = 0
    BY <1>1, GuessedStays DEF Backed
  <1>2. CASE f.evidence[1] # 0
    <2>1. /\ Len(wire) \in Nat /\ Len(wire') \in Nat /\ Len(wire) <= Len(wire')
          /\ \A k \in 1..Len(wire) : wire'[k] = wire[k]
      BY AppendSeq
    <2>2. Cited(f)
      BY <1>2 DEF Backed
    <2>3. f.evidence[1] \in 1..Len(wire)
      BY <2>2 DEF Cited
    <2>4. wire'[f.evidence[1]] = wire[f.evidence[1]] /\ f.evidence[1] \in 1..Len(wire')
      BY <2>1, <2>3
    <2>5. f.check = "mass_assignment" => wire'[f.evidence[2]] = wire[f.evidence[2]]
      <3>1. f.check = "mass_assignment" => f.evidence[2] \in 1..(f.evidence[1] - 1)
        BY <2>2 DEF Cited
      <3>2. \A k \in 1..(f.evidence[1] - 1) : k \in 1..Len(wire)
        BY <2>1, <2>3
      <3>3. QED
        BY <2>1, <3>1, <3>2
    <2> DEFINE first == wire[f.evidence[1]]
               create == wire[f.evidence[2]]
    <2>6. /\ CheckOf(first) = f.check /\ PathOf(first) = f.path
          /\ first.step \in Deciding /\ Fires(f.check, first.resp)
      BY <2>2 DEF Cited
    <2>7. /\ CheckOf(first)' = f.check /\ PathOf(first)' = f.path
          /\ first'.step \in Deciding /\ Fires(f.check, first'.resp)
      BY <2>4, <2>6 DEF CheckOf, PathOf
    <2>8. ASSUME f.check = "mass_assignment"
          PROVE  /\ f.evidence[2] \in 1..(f.evidence[1] - 1) /\ SameProbe(create, first)'
                 /\ create'.step = "create" /\ create'.resp # "lost"
                 /\ create'.path = f.path /\ create'.method = f.method
      <3>1. /\ f.evidence[2] \in 1..(f.evidence[1] - 1) /\ SameProbe(create, first)
            /\ create.step = "create" /\ create.resp # "lost"
            /\ create.path = f.path /\ create.method = f.method
        BY <2>2, <2>8 DEF Cited
      <3>2. create' = create /\ first' = first
        BY <2>4, <2>5, <2>8
      <3>3. QED
        BY <3>1, <3>2 DEF SameProbe
    <2>9. Cited(f)'
      BY <2>4, <2>7, <2>8 DEF Cited
    <2>10. QED
      BY <1>2, <2>9 DEF Backed
  <1>3. QED
    BY <1>1, <1>2

\* The same when no request is made.
LEMMA BackedStill ==
  ASSUME UNCHANGED <<job, identities, wire>>
  PROVE  \A f \in Finding : Backed(f) => Backed(f)'
  <1>1. \A f : Guessed => Guessed'
    BY GuessedStays
  <1>2. \A f \in Finding : Cited(f) => Cited(f)'
    BY DEF Cited, CheckOf, PathOf, SameProbe
  <1>3. QED
    BY <1>1, <1>2 DEF Backed

\* What is collected is a sequence of findings.
LEMMA Collected ==
  ASSUME IInv
  PROVE  /\ local \in Seq(Finding) /\ findings \in Seq(Finding) /\ report \in Seq(Finding)
         /\ wire \in Seq(Exchange) /\ Len(wire) \in Nat
  BY DEF IInv, TypeOK

\* An element of a concatenation is one of its parts (list.extend).
LEMMA ConcatParts ==
  ASSUME NEW S, NEW s \in Seq(S), NEW t \in Seq(S)
  PROVE  \A i \in 1..Len(s \o t) : \/ \E j \in 1..Len(s) : (s \o t)[i] = s[j]
                                   \/ \E j \in 1..Len(t) : (s \o t)[i] = t[j]
  <1> SUFFICES ASSUME NEW i \in 1..Len(s \o t)
               PROVE  \/ \E j \in 1..Len(s) : (s \o t)[i] = s[j]
                      \/ \E j \in 1..Len(t) : (s \o t)[i] = t[j]
    OBVIOUS
  <1>1. CASE i <= Len(s)
    BY <1>1
  <1>2. CASE i > Len(s)
    <2>1. i - Len(s) \in 1..Len(t) /\ (s \o t)[i] = t[i - Len(s)]
      BY <1>2
    <2>2. QED
      BY <2>1
  <1>3. QED
    BY <1>1, <1>2

------------------------------------------------------------------------------
\* scan begins with nothing.
LEMMA InitEInv == Init => EInv
  <1> SUFFICES ASSUME Init PROVE EInv
    OBVIOUS
  <1>1. IInv
    BY InitIInv
  <1>2. EvidenceBacked /\ NothingYet /\ CreateAnswered /\ TokenInHand
    BY DEF Init, EvidenceBacked, NothingYet, CreateAnswered, TokenInHand
  <1>3. QED
    BY <1>1, <1>2 DEF EInv

\* Until the checks run nothing is collected (scan, lines 105-126).
LEMMA EarlyEInv ==
  ASSUME EInv, IInv', pc \in {"validate", "resolve", "spec", "crawl", "auth"}, pc' # "run",
         UNCHANGED <<local, findings, report>>
  PROVE  EInv'
  <1>1. local' = <<>> /\ findings' = <<>> /\ report' = <<>>
    BY DEF EInv, NothingYet
  <1>2. QED
    BY <1>1 DEF EInv, EvidenceBacked, NothingYet, CreateAnswered, TokenInHand

\* The steps before the first job.
LEMMA SetupEInv ==
  ASSUME EInv, IInv',
         \/ Validate \/ Resolve \/ SpecNotGiven \/ SpecFile \/ SpecFetch \/ Crawl \/ Crawled
         \/ StaticIdentity \/ LoginRefused \/ Register \/ Login \/ Authenticated
  PROVE  EInv'
  <1>1. pc \in {"validate", "resolve", "spec", "crawl", "auth"} /\ UNCHANGED <<local, findings, report>>
    BY DEF Validate, Resolve, SpecNotGiven, SpecFile, SpecFetch, Crawl, Crawled, StaticIdentity,
           LoginRefused, Register, Login, Authenticated, Authenticating, probe, output
  <1>2. pc' # "run"
    <2>1. CASE Validate \/ Resolve \/ Crawl \/ Crawled
      BY <2>1 DEF Validate, Resolve, Crawl, Crawled
    <2>2. CASE SpecNotGiven \/ SpecFile \/ SpecFetch
      BY <2>2 DEF SpecNotGiven, SpecFile, SpecFetch, SpecUnusable
    <2>3. CASE LoginRefused
      BY <2>3 DEF LoginRefused, Gate
    <2>4. CASE StaticIdentity \/ Register \/ Login \/ Authenticated
      BY <2>4 DEF StaticIdentity, Register, Login, Authenticated, Authenticating
    <2>5. QED
      BY <2>1, <2>2, <2>3, <2>4
  <1>3. QED
    BY <1>1, <1>2, EarlyEInv

------------------------------------------------------------------------------
\* A step of the loop over the checks, and of the de-duplication, hands on what
\* was collected or drops it (scan, lines 133-157).
LEMMA LoopEInv ==
  ASSUME EInv, IInv',
         \/ SkipCheck \/ StartCheck \/ ReturnFindings \/ ChecksDone
         \/ OutOfScope \/ BlockedMethod \/ CheckErrors \/ Dedup \/ Return
  PROVE  EInv'
  <1>1. UNCHANGED <<job, identities, wire>>
    BY DEF SkipCheck, StartCheck, ReturnFindings, ChecksDone, OutOfScope, BlockedMethod,
           CheckErrors, Dedup, Return, NextCheck, setup
  <1>2. \A f \in Finding : Backed(f) => Backed(f)'
    BY <1>1, BackedStill
  <1>3. IInv /\ EvidenceBacked
    BY DEF EInv
  <1> DEFINE B == {f \in Finding : Backed(f)}
  <1>b. /\ \A i \in 1..Len(local) : local[i] \in B
        /\ \A i \in 1..Len(findings) : findings[i] \in B
        /\ \A i \in 1..Len(report) : report[i] \in B
        /\ \A f \in B : f \in Finding /\ Backed(f)'
    BY <1>2, <1>3, Collected DEF EvidenceBacked
  <1> HIDE DEF B
  <1>4. /\ pc \in {"checks", "run", "dedup"} /\ pc' \notin {"validate", "resolve", "spec", "crawl", "auth"}
        /\ pc' = "run" => step' = "next"
    BY <1>3 DEF SkipCheck, StartCheck, ReturnFindings, ChecksDone, OutOfScope, BlockedMethod,
           CheckErrors, Dedup, Return, NextCheck, Asking, probe, IInv, StepInPlace, Phases
  <1>5. NothingYet' /\ CreateAnswered' /\ TokenInHand'
    BY <1>4 DEF NothingYet, CreateAnswered, TokenInHand
  <1>6. CASE UNCHANGED <<local, findings, report>>
    <2>1. /\ \A i \in 1..Len(local') : Backed(local[i])'
          /\ \A i \in 1..Len(findings') : Backed(findings[i])'
          /\ \A i \in 1..Len(report') : Backed(report[i])'
      BY <1>b, <1>6
    <2>2. EvidenceBacked'
      BY <2>1 DEF EvidenceBacked
    <2>3. QED
      BY <1>5, <2>2 DEF EInv
  <1>7. CASE SkipCheck \/ BlockedMethod \/ CheckErrors
    <2>1. local' = <<>> /\ UNCHANGED <<findings, report>>
      BY <1>7 DEF SkipCheck, BlockedMethod, CheckErrors, NextCheck
    <2>2. /\ \A i \in 1..Len(local') : Backed(local[i])'
          /\ \A i \in 1..Len(findings') : Backed(findings[i])'
          /\ \A i \in 1..Len(report') : Backed(report[i])'
      BY <1>b, <2>1
    <2>3. EvidenceBacked'
      BY <2>2 DEF EvidenceBacked
    <2>4. QED
      BY <1>5, <2>3 DEF EInv
  <1>8. CASE ReturnFindings
    <2>1. local' = <<>> /\ findings' = findings \o local /\ report' = report
      BY <1>8 DEF ReturnFindings, NextCheck
    <2>2. \A i \in 1..Len(findings') : \/ \E j \in 1..Len(findings) : findings'[i] = findings[j]
                                       \/ \E j \in 1..Len(local) : findings'[i] = local[j]
      <3>1. local \in Seq(Finding) /\ findings \in Seq(Finding)
        BY <1>3, Collected
      <3>2. QED
        BY <2>1, <3>1, ConcatParts
    <2>3. \A i \in 1..Len(findings') : findings'[i] \in Finding /\ Backed(findings[i])'
      BY <1>b, <2>1, <2>2
    <2>4. \A i \in 1..Len(report') : Backed(report[i])'
      BY <1>b, <2>1
    <2>5. \A i \in 1..Len(local') : Backed(local[i])'
      BY <2>1
    <2>6. EvidenceBacked'
      BY <2>3, <2>4, <2>5 DEF EvidenceBacked
    <2>7. QED
      BY <1>5, <2>6 DEF EInv
  <1>9. CASE Dedup
    <2>1. /\ UNCHANGED <<local, findings>> /\ slot \in 1..Len(findings)
          /\ report' = report \/ report' = Append(report, findings[slot])
      BY <1>3, <1>9 DEF Dedup, probe, IInv, TypeOK
    <2>2. \A i \in 1..Len(report') : \/ \E j \in 1..Len(report) : report'[i] = report[j]
                                     \/ \E j \in 1..Len(findings) : report'[i] = findings[j]
      BY <1>3, <2>1, Collected
    <2>3. \A i \in 1..Len(report') : report'[i] \in Finding /\ Backed(report[i])'
      BY <1>b, <2>1, <2>2
    <2>4. \A i \in 1..Len(local') : Backed(local[i])'
      BY <1>b, <2>1
    <2>5. \A i \in 1..Len(findings') : Backed(findings[i])'
      BY <1>b, <2>1
    <2>6. QED
      BY <1>5, <2>3, <2>4, <2>5 DEF EInv, EvidenceBacked
  <1>10. CASE StartCheck \/ ChecksDone \/ OutOfScope \/ Return
    BY <1>6, <1>10 DEF StartCheck, ChecksDone, OutOfScope, Return, probe, output
  <1>11. QED
    BY <1>7, <1>8, <1>9, <1>10
------------------------------------------------------------------------------
\* A step of a check that asks nothing keeps what it holds; only jwt, offline,
\* may add a finding (JwtCheck._weak_secret).
LEMMA QuietEInv ==
  ASSUME EInv, PassBy \/ Begin \/ JwtNoForgery \/ JwtWeakSecret, IInv'
  PROVE  EInv'
  <1>1. /\ UNCHANGED <<job, identities, wire, pc, slot, findings, report>> /\ pc = "run"
        /\ step' # "confirm"
    <2>1. CASE Begin
      BY <2>1 DEF Begin, setup, output, FirstStep
    <2>2. CASE PassBy \/ JwtNoForgery \/ JwtWeakSecret
      BY <2>2 DEF PassBy, JwtNoForgery, JwtWeakSecret, NextItem, setup, output
    <2>3. QED
      BY <2>1, <2>2
  <1>2. \A f \in Finding : Backed(f) => Backed(f)'
    BY <1>1, BackedStill
  <1>3. IInv /\ EvidenceBacked
    BY DEF EInv
  <1>4. NothingYet' /\ CreateAnswered'
    BY <1>1 DEF NothingYet, CreateAnswered
  <1>5. TokenInHand'
    <2>1. CASE Begin
      <3>1. ~PassedBy /\ step' = FirstStep(Check, Item) /\ item' = item /\ endpoints' = endpoints
        BY <2>1 DEF Begin, setup
      <3>2. Check' = Check /\ JwtToken' = JwtToken
        BY <1>1, <3>1, TokenStays DEF Check, JwtToken, Item, Items
      <3>3. step' = "weak" => Check = "jwt"
        BY <3>1 DEF FirstStep
      <3>4. QED
        BY <3>1, <3>2, <3>3 DEF TokenInHand, PassedBy
    <2>2. CASE PassBy \/ JwtNoForgery \/ JwtWeakSecret
      BY <2>2 DEF PassBy, JwtNoForgery, JwtWeakSecret, NextItem, TokenInHand
    <2>3. QED
      BY <2>1, <2>2
  <1>6. EvidenceBacked'
    <2>1. CASE local' = local
      BY <1>1, <1>2, <1>3, <2>1, Collected DEF EvidenceBacked
    <2>2. CASE local' # local
      <3> DEFINE f == [check |-> Check, method |-> "POST", path |-> LoginPath, evidence |-> <<0>>]
      <3>1. /\ JwtWeakSecret /\ WeakSecret(JwtToken) /\ step = "weak"
            /\ local' = Append(local, f)
        BY <2>2 DEF PassBy, Begin, JwtNoForgery, JwtWeakSecret, Found
      <3>2. Check = "jwt" /\ JwtToken # NoToken
        BY <1>1, <3>1 DEF EInv, TokenInHand
      <3>3. item \in 1..Len(job.hints["jwt"]) /\ JwtToken = TokenFor(job.hints["jwt"][item].as)
        BY <1>1, <1>3, <3>1, <3>2
           DEF IInv, StepInPlace, Items, Item, JwtToken, SpecDriven
      <3>4. Guessed'
        BY <1>1, <3>1, <3>2, <3>3, GuessedStays DEF Guessed
      <3>5. f.evidence[1] = 0 /\ f.check = "jwt" /\ f.method = "POST" /\ f.path = LoginPath
        BY <3>2
      <3> HIDE DEF f
      <3>6. \A i \in 1..Len(local') : Backed(local[i])'
        <4> SUFFICES ASSUME NEW i \in 1..Len(local') PROVE Backed(local[i])'
          OBVIOUS
        <4>1. CASE i \in 1..Len(local)
          <5>1. local'[i] = local[i] /\ local[i] \in Finding /\ Backed(local[i])
            BY <1>3, <3>1, <4>1, Collected DEF EvidenceBacked
          <5>2. QED
            BY <1>2, <5>1
        <4>2. CASE i \notin 1..Len(local)
          <5>1. local'[i] = f
            BY <1>3, <3>1, <4>2, Collected
          <5>2. QED
            BY <3>4, <3>5, <5>1 DEF Backed
        <4>3. QED
          BY <4>1, <4>2
      <3>7. QED
        BY <1>1, <1>2, <1>3, <3>6, Collected DEF EvidenceBacked
    <2>3. QED
      BY <2>1, <2>2
  <1>7. QED
    BY <1>4, <1>5, <1>6 DEF EInv

------------------------------------------------------------------------------
\* A request of a check is the last exchange of its wire, made by the running
\* check for its item (Ask).
LEMMA AskedLast ==
  ASSUME EInv, NEW resp \in Responses, Ask(resp)
  PROVE  /\ UNCHANGED <<job, identities, pc, slot, findings, report>> /\ pc = "run"
         /\ \A f \in Finding : Backed(f) => Backed(f)'
         /\ Len(wire) \in Nat /\ Len(wire') = Here
         /\ \A k \in 1..Len(wire) : wire'[k] = wire[k]
         /\ wire'[Here].slot = slot /\ wire'[Here].item = item /\ wire'[Here].step = step
         /\ wire'[Here].path = Asked.path /\ wire'[Here].method = Asked.method
         /\ wire'[Here].resp = resp
         /\ step \in {"probe", "inject", "create", "read", "confirm", "alg_none"}
  <1> DEFINE x == [slot |-> slot, item |-> item, step |-> step, path |-> Asked.path,
                   host |-> UrlOf(Asked.offsite).host, method |-> Asked.method,
                   as |-> Asked.as, resp |-> resp]
  <1>1. IInv /\ wire \in Seq(Exchange) /\ Len(wire) \in Nat
    BY Collected DEF EInv
  <1>2. wire' \in Seq(Exchange) /\ pc = "run"
    BY <1>1, ProbeSent
  <1>3. UNCHANGED <<job, identities, pc, slot, findings, report>> /\ wire' = Append(wire, x)
    BY DEF Ask, Sent, setup
  <1>4. /\ x.slot = slot /\ x.item = item /\ x.step = step
        /\ x.path = Asked.path /\ x.method = Asked.method /\ x.resp = resp
    OBVIOUS
  <1>5. step \in {"probe", "inject", "create", "read", "confirm", "alg_none"}
    BY DEF Ask, Asking
  <1> HIDE DEF x
  <1>6. /\ Len(wire') = Len(wire) + 1 /\ wire'[Len(wire) + 1] = x
        /\ \A k \in 1..Len(wire) : wire'[k] = wire[k]
    BY <1>1, <1>3
  <1>7. x \in Exchange
    BY <1>1, <1>2, <1>6
  <1>8. \A f \in Finding : Backed(f) => Backed(f)'
    BY <1>1, <1>3, <1>7, BackedStays
  <1>9. QED
    BY <1>1, <1>2, <1>3, <1>4, <1>5, <1>6, <1>8 DEF Here

\* The running escalation is that of the hint of its item.
LEMMA EscalationItem ==
  ASSUME EInv, pc = "run", step = "confirm"
  PROVE  Check = "mass_assignment" /\ Item = job.hints["mass_assignment"][item]
  BY DEF EInv, CreateAnswered, Item, Items, SpecDriven

\* What the deciding request of a probe says of the path of its finding: that of
\* the item, and for an escalation that of its create.
LEMMA DecidingPath ==
  ASSUME EInv, NEW resp \in Responses, Ask(resp), step \in Deciding
  PROVE  /\ step # "confirm" => PathOf(wire'[Here]) = Item.path
         /\ step = "confirm" => PathOf(wire'[Here]) = Item.create_path
  <1>1. /\ pc = "run" /\ wire'[Here].item = item /\ wire'[Here].step = step
        /\ wire'[Here].path = Asked.path
    BY AskedLast
  <1>2. step # "create" /\ IInv /\ item \in 1..Len(Items)
    BY ProbeSent DEF Deciding, EInv
  <1>3. Asked.path = Item.path
    BY <1>1, <1>2, AskedTyped
  <1>4. CASE step # "confirm"
    BY <1>1, <1>3, <1>4 DEF PathOf
  <1>5. CASE step = "confirm"
    BY <1>1, <1>5, EscalationItem DEF PathOf
  <1>6. QED
    BY <1>4, <1>5

\* A finding made of the answer is backed by it (Judge): by the exchange alone,
\* or, for an escalation, with the create that came before.
LEMMA JudgedBacked ==
  ASSUME EInv, NEW resp \in Responses, Ask(resp), step \in Deciding,
         NEW f \in Finding, Fires(Check, resp), f.check = Check,
         \/ Check # "mass_assignment" /\ f.path = Item.path /\ f.evidence = <<Here>>
         \/ /\ step = "confirm" /\ f.evidence = <<Here, Len(wire)>>
            /\ f.path = Item.create_path /\ f.method = Item.create_method
  PROVE  Backed(f)'
  <1>1. /\ UNCHANGED <<job, slot>> /\ pc = "run"
        /\ Len(wire) \in Nat /\ Len(wire') = Here /\ Here = Len(wire) + 1
        /\ \A k \in 1..Len(wire) : wire'[k] = wire[k]
        /\ wire'[Here].slot = slot /\ wire'[Here].item = item /\ wire'[Here].step = step
        /\ wire'[Here].resp = resp
    BY AskedLast DEF Here
  <1>2. f.evidence[1] = Here /\ f.evidence[1] # 0 /\ f.evidence[1] \in 1..Len(wire')
    BY <1>1
  <1>3. job'.check_ids[wire'[Here].slot] = f.check
    BY <1>1 DEF Check
  <1>4. f.check = "mass_assignment" =>
          /\ f.evidence[2] \in 1..(Here - 1)
          /\ wire'[f.evidence[2]].slot = slot /\ wire'[f.evidence[2]].item = item
          /\ wire'[f.evidence[2]].step = "create" /\ wire'[f.evidence[2]].resp # "lost"
          /\ wire'[f.evidence[2]].path = f.path /\ wire'[f.evidence[2]].method = f.method
    <2> SUFFICES ASSUME f.check = "mass_assignment"
                 PROVE  /\ f.evidence[2] \in 1..(Here - 1)
                        /\ wire'[f.evidence[2]].slot = slot /\ wire'[f.evidence[2]].item = item
                        /\ wire'[f.evidence[2]].step = "create"
                        /\ wire'[f.evidence[2]].resp # "lost"
                        /\ wire'[f.evidence[2]].path = f.path
                        /\ wire'[f.evidence[2]].method = f.method
      OBVIOUS
    <2>1. /\ step = "confirm" /\ f.evidence[2] = Len(wire)
          /\ f.path = Item.create_path /\ f.method = Item.create_method
      OBVIOUS
    <2>2. /\ Len(wire) > 0 /\ wire[Len(wire)].slot = slot /\ wire[Len(wire)].item = item
          /\ wire[Len(wire)].step = "create" /\ wire[Len(wire)].resp # "lost"
          /\ wire[Len(wire)].path = Item.create_path
          /\ wire[Len(wire)].method = Item.create_method
      BY <1>1, <2>1 DEF EInv, CreateAnswered
    <2>3. wire'[Len(wire)] = wire[Len(wire)]
      BY <1>1, <2>2
    <2>4. QED
      BY <1>1, <2>1, <2>2, <2>3
  <1>5. PathOf(wire'[Here]) = f.path
    <2>1. step = "confirm" => Check = "mass_assignment"
      BY <1>1, EscalationItem
    <2>2. QED
      BY <2>1, DecidingPath
  <1>6. Cited(f)'
    <2>1. PathOf(wire[f.evidence[1]])' = f.path
      BY <1>1, <1>2, <1>5 DEF PathOf
    <2>2. QED
      BY <1>1, <1>2, <1>3, <1>4, <2>1 DEF Cited, CheckOf, SameProbe
  <1>7. QED
    BY <1>2, <1>6 DEF Backed

\* What is collected is backed, finding by finding.
LEMMA AllBacked ==
  ASSUME IInv, EvidenceBacked
  PROVE  /\ \A i \in 1..Len(local) : local[i] \in Finding /\ Backed(local[i])
         /\ \A i \in 1..Len(findings) : findings[i] \in Finding /\ Backed(findings[i])
         /\ \A i \in 1..Len(report) : report[i] \in Finding /\ Backed(report[i])
  BY Collected DEF EvidenceBacked

\* So what is held after the answer was judged is backed, whether it made a
\* finding or not.
LEMMA JudgedEvidence ==
  ASSUME EInv, NEW resp \in Responses, Ask(resp), step \in Deciding,
         NEW method \in Methods, NEW path \in Paths, NEW evidence \in Seq(Nat),
         \/ UNCHANGED local
         \/ Found(method, path, evidence) /\ Fires(Check, resp),
         \/ Check # "mass_assignment" /\ path = Item.path /\ evidence = <<Here>>
         \/ /\ step = "confirm" /\ evidence = <<Here, Len(wire)>>
            /\ path = Item.create_path /\ method = Item.create_method
  PROVE  EvidenceBacked'
  <1>1. /\ UNCHANGED <<job, slot, findings, report>> /\ pc = "run"
        /\ \A f \in Finding : Backed(f) => Backed(f)'
    BY AskedLast
  <1>2. IInv /\ EvidenceBacked
    BY DEF EInv
  <1>3. CASE local' = local
    <2>1. /\ \A i \in 1..Len(local) : local[i] \in Finding /\ Backed(local[i])
          /\ \A i \in 1..Len(findings) : findings[i] \in Finding /\ Backed(findings[i])
          /\ \A i \in 1..Len(report) : report[i] \in Finding /\ Backed(report[i])
      BY <1>2, AllBacked
    <2>2. local' = local /\ findings' = findings /\ report' = report
      BY <1>1, <1>3
    <2>3. QED
      BY <1>1, <2>1, <2>2 DEF EvidenceBacked
  <1>4. CASE Found(method, path, evidence) /\ Fires(Check, resp)
    <2> DEFINE f == [check |-> Check, method |-> method, path |-> path, evidence |-> evidence]
    <2>1. local' = Append(local, f)
      BY <1>4 DEF Found
    <2>2. f \in Finding
      <3>1. item \in 1..Len(Items)
        BY <1>2, ProbeSent
      <3>2. Check \in CheckIds
        BY <1>1, <1>2, <3>1, ItemsTyped
      <3>3. QED
        BY <3>2 DEF Finding
    <2>3. f.check = Check /\ f.method = method /\ f.path = path /\ f.evidence = evidence
      OBVIOUS
    <2> HIDE DEF f
    <2>4. \A g \in Finding : g = f => Backed(g)'
      <3> SUFFICES ASSUME NEW g \in Finding, g = f PROVE Backed(g)'
        OBVIOUS
      <3>1. g.check = Check /\ g.method = method /\ g.path = path /\ g.evidence = evidence
        BY <2>3
      <3>2. QED
        BY <1>4, <3>1, JudgedBacked
    <2>5. \A i \in 1..Len(local') : Backed(local[i])'
      <3> SUFFICES ASSUME NEW i \in 1..Len(local') PROVE Backed(local[i])'
        OBVIOUS
      <3>1. CASE i \in 1..Len(local)
        <4>1. local'[i] = local[i] /\ local[i] \in Finding /\ Backed(local[i])
          BY <1>2, <2>1, <3>1, Collected DEF EvidenceBacked
        <4>2. QED
          BY <1>1, <4>1
      <3>2. CASE i \notin 1..Len(local)
        <4>1. local'[i] = f
          BY <1>2, <2>1, <3>2, Collected
        <4>2. QED
          BY <2>2, <2>4, <4>1
      <3>3. QED
        BY <3>1, <3>2
    <2>6. QED
      BY <1>1, <1>2, <2>5, Collected DEF EvidenceBacked
  <1>5. QED
    BY <1>3, <1>4

\* The steps of the six checks that ask (their run methods).
LEMMA RequestEInv ==
  ASSUME EInv, IInv', \/ ExposureProbe \/ SqliInject \/ BolaCreate \/ BolaRead
                      \/ MassCreate \/ MassConfirm \/ SsrfProbe \/ JwtAlgNone
  PROVE  EInv'
  <1>1. IInv /\ EvidenceBacked /\ Len(wire) \in Nat
    BY Collected DEF EInv
  <1>2. PICK resp \in Responses : Ask(resp)
    BY DEF ExposureProbe, SqliInject, BolaCreate, BolaRead, MassCreate, MassConfirm,
           SsrfProbe, JwtAlgNone, Responses
  <1>3. /\ UNCHANGED <<job, identities, pc, slot, findings, report>> /\ pc = "run"
        /\ \A f \in Finding : Backed(f) => Backed(f)'
    BY <1>2, AskedLast
  <1>4. item \in 1..Len(Items)
    BY <1>1, <1>2, ProbeSent
  <1>5. /\ Item.path \in Paths /\ Item.method \in Methods
        /\ Check \notin SpecDriven => Item.create_path \in Paths /\ Item.create_method \in Methods
    BY <1>1, <1>3, <1>4, ItemTyped
  <1>6. <<Here>> \in Seq(Nat) /\ <<Here, Len(wire)>> \in Seq(Nat)
    BY <1>1 DEF Here
  <1>7. EvidenceBacked'
    <2>1. CASE ExposureProbe \/ BolaRead \/ SsrfProbe \/ JwtAlgNone
      <3>1. Check # "mass_assignment" /\ step \in Deciding
        BY <2>1 DEF ExposureProbe, BolaRead, SsrfProbe, JwtAlgNone, Deciding
      <3>2. PICK r \in Responses : Ask(r) /\ Judge(r, Item.method, Item.path, <<Here>>)
        BY <2>1 DEF ExposureProbe, BolaRead, SsrfProbe, JwtAlgNone
      <3>3. \/ UNCHANGED local
            \/ Found(Item.method, Item.path, <<Here>>) /\ Fires(Check, r)
        BY <3>2 DEF Judge
      <3>4. QED
        BY <1>5, <1>6, <3>1, <3>2, <3>3, JudgedEvidence
    <2>2. CASE MassConfirm
      <3>1. step = "confirm" /\ step \in Deciding /\ Check = "mass_assignment"
        BY <2>2 DEF MassConfirm, Deciding
      <3>2. PICK r \in Responses :
              Ask(r) /\ Judge(r, Item.create_method, Item.create_path, <<Here, Len(wire)>>)
        BY <2>2 DEF MassConfirm
      <3>3. Item.create_path \in Paths /\ Item.create_method \in Methods
        BY <1>5, <3>1 DEF SpecDriven
      <3>4. \/ UNCHANGED local
            \/ /\ Found(Item.create_method, Item.create_path, <<Here, Len(wire)>>)
               /\ Fires(Check, r)
        BY <3>2 DEF Judge
      <3>5. QED
        BY <1>6, <3>1, <3>2, <3>3, <3>4, JudgedEvidence
    <2>3. CASE SqliInject
      <3>1. Check # "mass_assignment" /\ step \in Deciding
        BY <2>3 DEF SqliInject, Deciding
      <3>2. PICK r \in Responses :
              /\ Ask(r)
              /\ \/ UNCHANGED local
                 \/ Found(Item.method, Item.path, <<Here>>) /\ Fires(Check, r)
        BY <2>3 DEF SqliInject
      <3>3. QED
        BY <1>5, <1>6, <3>1, <3>2, JudgedEvidence
    <2>4. CASE BolaCreate \/ MassCreate
      <3>1. local' = local
        BY <2>4 DEF BolaCreate, MassCreate
      <3>2. QED
        BY <1>1, <1>3, <3>1, Collected DEF EvidenceBacked
    <2>5. QED
      BY <2>1, <2>2, <2>3, <2>4
  <1>8. CreateAnswered'
    <2>1. CASE step' # "confirm"
      BY <2>1 DEF CreateAnswered
    <2>2. CASE step' = "confirm"
      <3>1. MassCreate
        BY <1>2, <2>2 DEF ExposureProbe, SqliInject, BolaCreate, BolaRead, MassCreate,
                          MassConfirm, SsrfProbe, JwtAlgNone, NextItem
      <3>2. PICK r \in {"lost", "clean"} : Ask(r) /\ r # "lost"
        BY <2>2, <3>1 DEF MassCreate, NextItem
      <3>3. r \in Responses
        BY DEF Responses
      <3>4. /\ Len(wire') = Here /\ wire'[Here].slot = slot /\ wire'[Here].item = item
            /\ wire'[Here].step = step /\ wire'[Here].resp = r
            /\ wire'[Here].path = Asked.path /\ wire'[Here].method = Asked.method
        BY <3>2, <3>3, AskedLast
      <3>5. step = "create" /\ Check = "mass_assignment" /\ item' = item
        BY <2>2, <3>1 DEF MassCreate, NextItem
      <3>6. Check' = Check /\ Here > 0
        BY <1>1, <1>3 DEF Check, Here
      <3>7. Asked.path = Item.create_path /\ Asked.method = Item.create_method
        BY <1>1, <1>3, <1>4, <3>5, AskedTyped DEF SpecDriven
      <3>8. Item' = Item
        BY <1>3, <3>5, <3>6 DEF Item, Items, SpecDriven
      <3>9. QED
        BY <1>3, <3>2, <3>4, <3>5, <3>6, <3>7, <3>8 DEF CreateAnswered
    <2>3. QED
      BY <2>1, <2>2
  <1>9. NothingYet'
    BY <1>3 DEF NothingYet
  <1>10. TokenInHand'
    <2>1. step' # "weak"
      BY DEF ExposureProbe, SqliInject, BolaCreate, BolaRead, MassCreate, MassConfirm,
             SsrfProbe, JwtAlgNone, NextItem
    <2>2. QED
      BY <2>1 DEF TokenInHand
  <1>11. QED
    BY <1>7, <1>8, <1>9, <1>10 DEF EInv

\* Every step of a scan keeps its evidence.
LEMMA NextEInv == EInv /\ [Next]_vars => EInv'
  <1> SUFFICES ASSUME EInv, [Next]_vars PROVE EInv'
    OBVIOUS
  <1>1. IInv'
    BY NextIInv DEF EInv
  <1>2. CASE Terminated \/ UNCHANGED vars
    <2>1. UNCHANGED vars
      BY <1>2 DEF Terminated
    <2>2. UNCHANGED <<job, identities, wire, pc, slot, item, step, endpoints, local, findings, report>>
      BY <2>1 DEF vars
    <2>3. \A f \in Finding : Backed(f) => Backed(f)'
      BY <2>2, BackedStill
    <2>4. EvidenceBacked'
      BY <2>2, <2>3, Collected DEF EInv, EvidenceBacked
    <2>5. CreateAnswered' /\ NothingYet'
      BY <2>2 DEF EInv, CreateAnswered, NothingYet, Check, Item, Items
    <2>6. TokenInHand'
      BY <2>2, TokenStays DEF EInv, TokenInHand, Check, JwtToken, Item, Items
    <2>7. QED
      BY <1>1, <2>4, <2>5, <2>6 DEF EInv
  <1>3. QED
    BY <1>1, <1>2, SetupEInv, LoopEInv, QuietEInv, RequestEInv DEF Next

\* The evidence invariant holds of every scan.
THEOREM EvidenceInvariance == Spec => []EInv
  <1>1. QED
    BY InitEInv, NextEInv, PTL DEF Spec

\* Every finding a scan collects or returns cites an exchange of its own check
\* that the oracle accepts, with the create before it for an escalation, or a
\* token whose secret is guessable (EvidenceBacked, the run methods of the checks).
THEOREM EvidenceIsBacked == Spec => []EvidenceBacked
  <1>1. EInv => EvidenceBacked
    BY DEF EInv
  <1>2. QED
    BY <1>1, EvidenceInvariance, PTL

------------------------------------------------------------------------------
\* What the checks of a scan owe each other and what the scan returns: no hit and no
\* positive is lost, one check's failure settles no other check, and the report is that
\* of the findings.  From it, a scan keeps the contract of ScanContract.

\* The loop variables and the histories have the types the steps below need.
LEMMA Shape ==
  ASSUME EInv
  PROVE  /\ job \in Jobs /\ Len(job.check_ids) \in Nat
         /\ slot \in Nat \ {0} /\ item \in Nat \ {0} /\ tries \in Nat
         /\ status \in [Slots -> Outcomes] /\ Len(hits) \in Nat
         /\ hits \in Seq([slot : Nat, finding : Finding])
         /\ local \in Seq(Finding) /\ findings \in Seq(Finding) /\ report \in Seq(Finding)
         /\ Len(local) \in Nat /\ Len(findings) \in Nat /\ Len(report) \in Nat
         /\ wire \in Seq(Exchange) /\ Len(wire) \in Nat /\ endpoints \in Seq(Endpoint)
         /\ Payloads \in Nat \ {0}
  BY JobTypes, EngineAssumption DEF EInv, IInv, TypeOK

\* The wire only grows, so what held of two neighbours or of two payloads still
\* does, if it holds of the exchange that is new (Ask).
LEMMA HistoryStays ==
  ASSUME SetupFirst, InjectionStops, ExcludedNeverCrawled, job' = job,
         Len(wire) \in Nat, \A k \in 1..Len(wire) : wire'[k] = wire[k],
         \/ Len(wire') = Len(wire)
         \/ LET x == wire'[Len(wire) + 1] IN
              /\ Len(wire') = Len(wire) + 1
              /\ x.step = "confirm" \/ (x.step = "read" /\ job.hints["bola"][x.item].create) =>
                   /\ Len(wire) > 0 /\ wire[Len(wire)].step = "create"
                   /\ SameProbe(wire[Len(wire)], x)
                   /\ x.step = "confirm" => wire[Len(wire)].resp # "lost"
              /\ x.step = "inject" =>
                   \A j \in 1..Len(wire) :
                     wire[j].step = "inject" /\ SameProbe(wire[j], x) =>
                       ~Fires("sqli", wire[j].resp) /\ Len(wire) + 1 - j < Payloads
              /\ x.step \in {"probe", "inject"} /\ job.check_ids[x.slot] \in SpecDriven =>
                   x.path \notin job.exclude
  PROVE  SetupFirst' /\ InjectionStops' /\ ExcludedNeverCrawled'
  <1>1. CASE Len(wire') = Len(wire)
    <2>1. SetupFirst'
      BY <1>1 DEF SetupFirst
    <2>2. InjectionStops'
      BY <1>1 DEF InjectionStops
    <2>3. ExcludedNeverCrawled'
      BY <1>1 DEF ExcludedNeverCrawled, CheckOf
    <2>4. QED
      BY <2>1, <2>2, <2>3
  <1>2. CASE Len(wire') = Len(wire) + 1
    <2> DEFINE x == wire'[Len(wire) + 1]
    <2>1. /\ x.step = "confirm" \/ (x.step = "read" /\ job.hints["bola"][x.item].create) =>
               /\ Len(wire) > 0 /\ wire[Len(wire)].step = "create"
               /\ SameProbe(wire[Len(wire)], x)
               /\ x.step = "confirm" => wire[Len(wire)].resp # "lost"
          /\ x.step = "inject" =>
               \A j \in 1..Len(wire) :
                 wire[j].step = "inject" /\ SameProbe(wire[j], x) =>
                   ~Fires("sqli", wire[j].resp) /\ Len(wire) + 1 - j < Payloads
          /\ x.step \in {"probe", "inject"} /\ job.check_ids[x.slot] \in SpecDriven =>
               x.path \notin job.exclude
      BY <1>2
    <2> HIDE DEF x
    <2>2. /\ Len(wire') = Len(wire) + 1 /\ wire'[Len(wire) + 1] = x
          /\ \A k \in 1..Len(wire') : k \in 1..Len(wire) \/ k = Len(wire) + 1
      BY <1>2 DEF x
    <2>3. SetupFirst'
      <3> SUFFICES ASSUME NEW k \in 1..Len(wire'),
                          \/ wire'[k].step = "confirm"
                          \/ wire'[k].step = "read" /\ job.hints["bola"][wire'[k].item].create
                   PROVE  /\ k > 1 /\ wire'[k - 1].step = "create"
                          /\ SameProbe(wire'[k - 1], wire'[k])
                          /\ wire'[k].step = "confirm" => wire'[k - 1].resp # "lost"
        BY DEF SetupFirst
      <3>1. CASE k \in 1..Len(wire)
        <4>1. /\ k > 1 /\ wire[k - 1].step = "create" /\ SameProbe(wire[k - 1], wire[k])
              /\ wire[k].step = "confirm" => wire[k - 1].resp # "lost"
          BY <3>1 DEF SetupFirst
        <4>2. k - 1 \in 1..Len(wire)
          BY <3>1, <4>1
        <4>3. QED
          BY <3>1, <4>1, <4>2
      <3>2. CASE k = Len(wire) + 1
        BY <2>1, <2>2, <3>2
      <3>3. QED
        BY <2>2, <3>1, <3>2
    <2>4. InjectionStops'
      <3> SUFFICES ASSUME NEW j \in 1..Len(wire'), NEW k \in 1..Len(wire'), j < k,
                          wire'[j].step = "inject", wire'[k].step = "inject",
                          SameProbe(wire'[j], wire'[k])
                   PROVE  ~Fires("sqli", wire'[j].resp) /\ k - j < Payloads
        BY DEF InjectionStops
      <3>1. j \in 1..Len(wire) /\ wire'[j] = wire[j]
        BY <2>2
      <3>2. CASE k \in 1..Len(wire)
        BY <3>1, <3>2 DEF InjectionStops
      <3>3. CASE k = Len(wire) + 1
        BY <2>1, <2>2, <3>1, <3>3
      <3>4. QED
        BY <2>2, <3>2, <3>3
    <2>5. ExcludedNeverCrawled'
      BY <2>1, <2>2 DEF ExcludedNeverCrawled, CheckOf
    <2>6. QED
      BY <2>3, <2>4, <2>5
  <1>3. QED
    BY <1>1, <1>2

------------------------------------------------------------------------------
\* Nothing is held and nothing was returned: a scan begins.
LEMMA InitScanInv == Init => ScanInv
  <1> SUFFICES ASSUME Init PROVE ScanInv
    OBVIOUS
  <1>1. EInv
    BY InitEInv
  <1>2. /\ pc = "validate" /\ local = <<>> /\ findings = <<>> /\ report = <<>>
        /\ hits = <<>> /\ wire = <<>> /\ endpoints = <<>> /\ tries = 0
        /\ \A s \in Slots : status[s] = "pending"
    BY DEF Init
  <1>3. SetupFirst /\ InjectionStops /\ ExcludedNeverCrawled
    BY <1>2 DEF SetupFirst, InjectionStops, ExcludedNeverCrawled
  <1>4. EveryCheckSettled /\ OwnTargetInScope
    BY <1>2 DEF EveryCheckSettled, OwnTargetInScope
  <1>5. ChecksInOrder /\ WireBehind /\ OperationsOnce /\ PayloadsBehind /\ CreateBehind
    BY <1>2 DEF ChecksInOrder, WireBehind, OperationsOnce, PayloadsBehind, CreateBehind
  <1>6. HitsPlaced /\ Concluded /\ Deduped
    BY <1>2 DEF HitsPlaced, Concluded, Deduped, ReportExact
  <1>7. QED
    BY <1>1, <1>3, <1>4, <1>5, <1>6 DEF ScanInv

\* What the steps before the checks leave alone, and what they may send.
LEMMA SetupStep ==
  ASSUME ScanInv,
         \/ Validate \/ Resolve \/ SpecNotGiven \/ SpecFile \/ SpecFetch \/ Crawl \/ Crawled
         \/ StaticIdentity \/ LoginRefused \/ Register \/ Login \/ Authenticated
  PROVE  /\ pc \in Preparing /\ UNCHANGED <<job, status, tries, local, findings, report, hits>>
         /\ pc' \in Preparing \cup {"checks", "ScopeError", "KeyError", "ScanError", "HTTPError"}
         /\ pc' = "checks" => slot' = 1
         /\ \A k \in 1..Len(wire) : wire'[k] = wire[k]
         /\ \/ Len(wire') = Len(wire)
            \/ /\ Len(wire') = Len(wire) + 1 /\ wire'[Len(wire) + 1].slot = 0
               /\ wire'[Len(wire) + 1].step \in {"spec", "register", "login"}
         /\ \A i \in 1..Len(endpoints') : endpoints'[i].path \notin job.exclude
  <1>0. /\ wire \in Seq(Exchange) /\ Len(wire) \in Nat /\ endpoints \in Seq(Endpoint)
        /\ job \in Jobs /\ slot \in Nat \ {0}
    BY Shape DEF ScanInv
  <1>1. pc \in Preparing /\ UNCHANGED <<job, status, tries, local, findings, report, hits>>
    BY DEF Validate, Resolve, SpecNotGiven, SpecFile, SpecFetch, Crawl, Crawled, StaticIdentity,
           LoginRefused, Register, Login, Authenticated, Authenticating, probe, output, setup,
           Preparing
  <1>2. /\ pc' \in Preparing \cup {"checks", "ScopeError", "KeyError", "ScanError", "HTTPError"}
        /\ pc' = "checks" => slot' = 1
    <2>1. CASE Validate \/ Resolve \/ Crawl \/ Crawled
      BY <2>1 DEF Validate, Resolve, Crawl, Crawled, Preparing
    <2>2. CASE SpecNotGiven \/ SpecFile \/ SpecFetch
      BY <2>2 DEF SpecNotGiven, SpecFile, SpecFetch, SpecUnusable, Preparing
    <2>3. CASE LoginRefused
      BY <2>3 DEF LoginRefused, Gate, Destructive, Preparing
    <2>4. CASE StaticIdentity \/ Register \/ Login \/ Authenticated
      BY <2>4 DEF StaticIdentity, Register, Login, Authenticated, Authenticating, Preparing
    <2>5. QED
      BY <2>1, <2>2, <2>3, <2>4
  <1>3. \/ wire' = wire
        \/ \E st \in {"spec", "register", "login"} : \E i, path, host, method, as, resp :
             wire' = Append(wire, [slot |-> 0, item |-> i, step |-> st, path |-> path,
                                   host |-> host, method |-> method, as |-> as, resp |-> resp])
    <2>1. CASE SpecFetch
      BY <2>1 DEF SpecFetch
    <2>2. CASE Register
      BY <2>2 DEF Register, Sent
    <2>3. CASE Login
      BY <2>3 DEF Login, Sent
    <2>4. CASE \/ Validate \/ Resolve \/ SpecNotGiven \/ SpecFile \/ Crawl \/ Crawled
               \/ StaticIdentity \/ LoginRefused \/ Authenticated
      BY <2>4 DEF Validate, Resolve, SpecNotGiven, SpecFile, Crawl, Crawled, StaticIdentity,
                  LoginRefused, Authenticated
    <2>5. QED
      BY <2>1, <2>2, <2>3, <2>4
  <1>4. /\ \A k \in 1..Len(wire) : wire'[k] = wire[k]
        /\ \/ Len(wire') = Len(wire)
           \/ /\ Len(wire') = Len(wire) + 1 /\ wire'[Len(wire) + 1].slot = 0
              /\ wire'[Len(wire) + 1].step \in {"spec", "register", "login"}
    <2>1. CASE wire' = wire
      BY <2>1
    <2>2. CASE wire' # wire
      <3>0. PICK st \in {"spec", "register", "login"} : \E i, path, host, method, as, resp :
              wire' = Append(wire, [slot |-> 0, item |-> i, step |-> st, path |-> path,
                                    host |-> host, method |-> method, as |-> as, resp |-> resp])
        BY <1>3, <2>2
      <3>1. PICK i, path, host, method, as, resp :
              wire' = Append(wire, [slot |-> 0, item |-> i, step |-> st, path |-> path,
                                    host |-> host, method |-> method, as |-> as, resp |-> resp])
        BY <3>0
      <3> DEFINE x == [slot |-> 0, item |-> i, step |-> st, path |-> path,
                       host |-> host, method |-> method, as |-> as, resp |-> resp]
      <3>2. x.slot = 0 /\ x.step = st
        OBVIOUS
      <3>3. wire' = Append(wire, x)
        BY <3>1
      <3> HIDE DEF x
      <3>4. /\ Len(wire') = Len(wire) + 1 /\ wire'[Len(wire) + 1] = x
            /\ \A k \in 1..Len(wire) : wire'[k] = wire[k]
        BY <1>0, <3>3
      <3>5. QED
        BY <3>2, <3>4
    <2>3. QED
      BY <2>1, <2>2
  <1>5. \A i \in 1..Len(endpoints') : endpoints'[i].path \notin job.exclude
    <2>1. \A i \in 1..Len(endpoints) : endpoints[i].path \notin job.exclude
      BY DEF ScanInv, WireBehind
    <2>2. CASE endpoints' = endpoints
      BY <2>1, <2>2
    <2>3. CASE endpoints' # endpoints
      <3>1. Crawl
        BY <2>3 DEF Validate, Resolve, SpecNotGiven, SpecFile, SpecFetch, Crawled, StaticIdentity,
                    LoginRefused, Register, Login, Authenticated, setup
      <3>2. PICK ep : ep = job.openapi.paths[slot] /\ ep.path \notin job.exclude
                      /\ endpoints' = Append(endpoints, ep)
        BY <2>3, <3>1 DEF Crawl
      <3>3. /\ Len(endpoints') = Len(endpoints) + 1 /\ endpoints'[Len(endpoints) + 1] = ep
            /\ \A i \in 1..Len(endpoints) : endpoints'[i] = endpoints[i]
            /\ Len(endpoints) \in Nat
        BY <1>0, <3>2
      <3>4. QED
        BY <2>1, <3>2, <3>3
    <2>4. QED
      BY <2>2, <2>3
  <1>6. QED
    BY <1>1, <1>2, <1>4, <1>5

\* What is crawled are operations of the document, each once (parse_endpoints).
LEMMA SetupOnce ==
  ASSUME ScanInv,
         \/ Validate \/ Resolve \/ SpecNotGiven \/ SpecFile \/ SpecFetch \/ Crawl \/ Crawled
         \/ StaticIdentity \/ LoginRefused \/ Register \/ Login \/ Authenticated
  PROVE  OperationsOnce'
  <1>1. /\ pc \in Preparing /\ job' = job /\ pc' # "run"
        /\ pc' \in {"validate", "resolve", "spec"} => pc \in {"validate", "resolve", "spec"}
    <2>1. pc \in Preparing /\ job' = job /\ pc' # "run"
      BY SetupStep DEF Preparing
    <2>2. CASE Validate \/ Resolve \/ Crawl \/ Crawled
      BY <2>1, <2>2 DEF Validate, Resolve, Crawl, Crawled
    <2>3. CASE SpecNotGiven \/ SpecFile \/ SpecFetch
      BY <2>1, <2>3 DEF SpecNotGiven, SpecFile, SpecFetch
    <2>4. CASE LoginRefused
      BY <2>1, <2>4 DEF LoginRefused, Gate, Destructive
    <2>5. CASE StaticIdentity \/ Register \/ Login \/ Authenticated
      BY <2>1, <2>5 DEF StaticIdentity, Register, Login, Authenticated, Authenticating
    <2>6. QED
      BY <2>1, <2>2, <2>3, <2>4, <2>5
  <1>2. /\ endpoints \in Seq(Endpoint) /\ Len(endpoints) \in Nat /\ slot \in Nat \ {0} /\ job \in Jobs
        /\ OperationsOnce
    BY Shape DEF ScanInv
  <1>3. CASE Crawl
    <2>1. /\ pc = "crawl" /\ pc' = "crawl" /\ slot' = slot + 1 /\ slot \in 1..Len(job.openapi.paths)
          /\ \/ endpoints' = endpoints
             \/ endpoints' = Append(endpoints, job.openapi.paths[slot])
      BY <1>2, <1>3 DEF Crawl
    <2>2. CASE endpoints' = endpoints
      BY <1>1, <1>2, <2>1, <2>2 DEF OperationsOnce
    <2>3. CASE endpoints' = Append(endpoints, job.openapi.paths[slot])
      <3>1. PICK ep : ep = job.openapi.paths[slot]
        OBVIOUS
      <3>2. /\ Len(endpoints') = Len(endpoints) + 1 /\ endpoints'[Len(endpoints) + 1] = ep
            /\ \A i \in 1..Len(endpoints) : endpoints'[i] = endpoints[i]
            /\ \A i \in 1..Len(endpoints') : i \in 1..Len(endpoints) \/ i = Len(endpoints) + 1
        BY <1>2, <2>3, <3>1
      <3>3. \A i \in 1..Len(endpoints') : \E m \in 1..slot : endpoints'[i] = job.openapi.paths[m]
        <4>1. \A i \in 1..Len(endpoints) : \E m \in 1..(slot - 1) : endpoints[i] = job.openapi.paths[m]
          BY <1>2, <2>1 DEF OperationsOnce
        <4>2. slot \in 1..slot /\ \A m \in 1..(slot - 1) : m \in 1..slot
          BY <1>2
        <4>3. QED
          BY <3>1, <3>2, <4>1, <4>2
      <3>4. \A i \in 1..Len(endpoints) : ~(endpoints[i].path = ep.path /\ endpoints[i].method = ep.method)
        <4>1. \A i \in 1..Len(endpoints) : \E m \in 1..(slot - 1) : endpoints[i] = job.openapi.paths[m]
          BY <1>2, <2>1 DEF OperationsOnce
        <4>2. \A m \in 1..(slot - 1) : m \in 1..Len(job.openapi.paths) /\ m # slot
          BY <1>2, <2>1
        <4>3. \A m \in 1..(slot - 1) :
                ~(/\ job.openapi.paths[m].path = job.openapi.paths[slot].path
                  /\ job.openapi.paths[m].method = job.openapi.paths[slot].method)
          BY <1>2, <2>1, <4>2, DocumentAssumption
        <4>4. QED
          BY <3>1, <4>1, <4>3
      <3>5. \A i, j \in 1..Len(endpoints') :
              endpoints'[i].path = endpoints'[j].path /\ endpoints'[i].method = endpoints'[j].method => i = j
        BY <1>2, <3>2, <3>4 DEF OperationsOnce
      <3>6. slot' - 1 = slot
        BY <1>2, <2>1
      <3>7. QED
        BY <1>1, <2>1, <3>3, <3>5, <3>6 DEF OperationsOnce
    <2>4. QED
      BY <2>1, <2>2, <2>3
  <1>4. CASE ~Crawl
    <2>1. endpoints' = endpoints
      BY <1>4 DEF Validate, Resolve, SpecNotGiven, SpecFile, SpecFetch, Crawled, StaticIdentity,
                  LoginRefused, Register, Login, Authenticated, setup
    <2>2. pc' = "crawl" => endpoints = <<>>
      <3>1. pc' = "crawl" => pc = "spec"
        <4>1. CASE Validate \/ Resolve \/ Crawled
          BY <4>1 DEF Validate, Resolve, Crawled
        <4>2. CASE SpecNotGiven \/ SpecFile \/ SpecFetch
          BY <4>2 DEF SpecNotGiven, SpecFile, SpecFetch
        <4>3. CASE LoginRefused
          BY <4>3 DEF LoginRefused, Gate, Destructive
        <4>4. CASE StaticIdentity \/ Register \/ Login \/ Authenticated
          BY <4>4 DEF StaticIdentity, Register, Login, Authenticated, Authenticating
        <4>5. QED
          BY <1>4, <4>1, <4>2, <4>3, <4>4
      <3>2. QED
        BY <1>2, <3>1 DEF OperationsOnce
    <2>3. QED
      BY <1>1, <1>2, <2>1, <2>2 DEF OperationsOnce
  <1>5. QED
    BY <1>3, <1>4

\* A step before the checks (scan, lines 105-126, and build_identities).
LEMMA SetupScanInv ==
  ASSUME ScanInv, EInv', OwnTargetInScope',
         \/ Validate \/ Resolve \/ SpecNotGiven \/ SpecFile \/ SpecFetch \/ Crawl \/ Crawled
         \/ StaticIdentity \/ LoginRefused \/ Register \/ Login \/ Authenticated
  PROVE  ScanInv'
  <1>1. /\ pc \in Preparing /\ UNCHANGED <<job, status, tries, local, findings, report, hits>>
        /\ pc' \in Preparing \cup {"checks", "ScopeError", "KeyError", "ScanError", "HTTPError"}
        /\ pc' = "checks" => slot' = 1
        /\ \A k \in 1..Len(wire) : wire'[k] = wire[k]
        /\ \/ Len(wire') = Len(wire)
           \/ /\ Len(wire') = Len(wire) + 1 /\ wire'[Len(wire) + 1].slot = 0
              /\ wire'[Len(wire) + 1].step \in {"spec", "register", "login"}
        /\ \A i \in 1..Len(endpoints') : endpoints'[i].path \notin job.exclude
    BY SetupStep
  <1>2. /\ local = <<>> /\ findings = <<>> /\ report = <<>> /\ Len(wire) \in Nat
        /\ Slots' = Slots /\ Len(job.check_ids) \in Nat
    BY <1>1, Shape DEF ScanInv, EInv, NothingYet, Preparing, Slots
  <1>3. SetupFirst' /\ InjectionStops' /\ ExcludedNeverCrawled'
    BY <1>1, <1>2, HistoryStays DEF ScanInv
  <1>4. EveryCheckSettled' /\ PayloadsBehind' /\ CreateBehind'
    BY <1>1 DEF EveryCheckSettled, ScanInv, PayloadsBehind, CreateBehind, Preparing
  <1>5. ChecksInOrder'
    <2>1. \A s \in Slots : status[s] = "pending"
      BY <1>1 DEF ScanInv, ChecksInOrder
    <2>2. QED
      BY <1>1, <1>2, <2>1 DEF ChecksInOrder, Preparing, Slots
  <1>6. WireBehind'
    <2>1. \A k \in 1..Len(wire') :
            /\ wire'[k].slot = 0
            /\ wire'[k].slot \in Slots \/ wire'[k].step \in {"spec", "register", "login"}
      <3>1. \A k \in 1..Len(wire) :
              /\ wire[k].slot = 0
              /\ wire[k].slot \in Slots \/ wire[k].step \in {"spec", "register", "login"}
        BY <1>1 DEF ScanInv, WireBehind
      <3>2. \A k \in 1..Len(wire') : k \in 1..Len(wire) \/ k = Len(wire) + 1
        BY <1>1, <1>2
      <3>3. QED
        BY <1>1, <1>2, <3>1, <3>2
    <2>2. 0 \notin Slots
      BY DEF Slots
    <2>3. QED
      BY <1>1, <1>2, <2>1, <2>2 DEF WireBehind, Preparing
  <1>7. HitsPlaced' /\ Concluded'
    <2>1. \A h \in 1..Len(hits) :
            /\ hits[h].slot \in Slots /\ status[hits[h].slot] \in {"blocked", "errored"}
      BY <1>2 DEF ScanInv, HitsPlaced
    <2>2. HitsPlaced'
      BY <1>1, <1>2, <2>1 DEF HitsPlaced
    <2>3. \A k \in 1..Len(wire') : wire'[k].step \notin Deciding
      <3>1. \A k \in 1..Len(wire) : wire[k].step \in {"spec", "register", "login"}
        BY <1>1 DEF ScanInv, WireBehind, Slots
      <3>2. \A k \in 1..Len(wire') : k \in 1..Len(wire) \/ k = Len(wire) + 1
        BY <1>1, <1>2
      <3>3. QED
        BY <1>1, <1>2, <3>1, <3>2 DEF Deciding
    <2>4. QED
      BY <2>2, <2>3 DEF Concluded
  <1>8. Deduped'
    BY <1>1, <1>2 DEF Deduped, ReportExact, Preparing
  <1>9. OperationsOnce'
    BY SetupOnce
  <1>10. QED
    BY <1>3, <1>4, <1>5, <1>6, <1>7, <1>8, <1>9 DEF ScanInv

\* The host of the target is in the scope that is made of it (Scope.from_targets).
LEMMA OwnHost == job.target.schemed => check(Allow, UrlOf(FALSE))
  BY DEF check, hostname, UrlOf, Allow, from_targets

\* What a path or hint is refused for (OutOfScope and login), and nothing else
\* ends a scan with ScopeError.
LEMMA OwnScope ==
  ASSUME ScanInv, [Next]_vars
  PROVE  OwnTargetInScope'
  <1> SUFFICES ASSUME pc' = "ScopeError"
               PROVE  (\/ ~validate(Allow, job.allow_public)
                       \/ ~job.target.schemed
                       \/ \E i \in 1..Len(endpoints) : endpoints[i].offsite
                       \/ \E h \in HintKeys : \E i \in 1..Len(job.hints[h]) :
                            job.hints[h][i].offsite \/ job.hints[h][i].create_offsite)'
    BY DEF OwnTargetInScope
  <1>1. CASE UNCHANGED vars
    BY <1>1 DEF vars, ScanInv, OwnTargetInScope, Allow
  <1>2. CASE Validate
    BY <1>2 DEF Validate, setup, Allow
  <1>3. CASE LoginRefused
    <2>1. ~check(Allow, UrlOf(FALSE)) /\ job' = job
      BY <1>3 DEF LoginRefused, Gate, Destructive, setup
    <2>2. QED
      BY <2>1, OwnHost
  <1>4. CASE OutOfScope
    <2>1. pc = "run" /\ step # "next" /\ ~check(Allow, UrlOf(Asked.offsite)) /\ UNCHANGED <<job, endpoints>>
      BY <1>4 DEF OutOfScope, Asking, Verdict, Gate, setup
    <2>2. EInv /\ item \in 1..Len(Items)
      BY <2>1 DEF ScanInv, EInv, IInv, StepInPlace
    <2>3. Asked.offsite = FALSE => ~job.target.schemed
      BY <2>1, OwnHost DEF UrlOf
    <2>4. CASE Check \in SpecDriven
      <3>1. Item \in Endpoint /\ Item = endpoints[item] /\ item \in 1..Len(endpoints)
        BY <2>1, <2>2, <2>4, ItemsTyped DEF EInv, Item, Items
      <3>2. Item.offsite \in BOOLEAN
        BY <3>1 DEF Endpoint
      <3>3. Asked.offsite = Item.offsite
        BY <2>4 DEF Asked, Decision
      <3>4. QED
        BY <2>1, <2>3, <3>1, <3>2, <3>3
    <2>5. CASE Check \notin SpecDriven
      <3>1. /\ Check \in HintKeys /\ Item \in Hint
            /\ Item = job.hints[Check][item] /\ item \in 1..Len(job.hints[Check])
        BY <2>1, <2>2, <2>5, ItemsTyped, ItemTyped DEF EInv, Item, Items
      <3>2. Item.offsite \in BOOLEAN /\ Item.create_offsite \in BOOLEAN
        BY <3>1 DEF Hint
      <3>3. Asked.offsite = Item.offsite \/ Asked.offsite = Item.create_offsite
        BY <2>5 DEF Asked, Creation, Decision
      <3>4. Item.offsite \/ Item.create_offsite \/ ~job.target.schemed
        BY <2>3, <3>2, <3>3
      <3>5. QED
        BY <2>1, <3>1, <3>4
    <2>6. QED
      BY <2>4, <2>5
  <1>5. CASE Next /\ ~(Terminated \/ Validate \/ LoginRefused \/ OutOfScope)
    <2>1. pc' # "ScopeError"
      <3>1. CASE \/ Resolve \/ SpecNotGiven \/ SpecFile \/ SpecFetch \/ Crawl \/ Crawled
                 \/ StaticIdentity \/ Register \/ Login \/ Authenticated
        BY <3>1 DEF Resolve, SpecNotGiven, SpecFile, SpecFetch, SpecUnusable, Crawl, Crawled,
                    StaticIdentity, Register, Login, Authenticated, Authenticating
      <3>2. CASE \/ SkipCheck \/ StartCheck \/ ReturnFindings \/ ChecksDone \/ BlockedMethod
                 \/ CheckErrors \/ Dedup \/ Return
        BY <3>2 DEF SkipCheck, StartCheck, ReturnFindings, ChecksDone, BlockedMethod,
                    CheckErrors, Dedup, Return, NextCheck
      <3>3. CASE PassBy \/ Begin \/ JwtNoForgery \/ JwtWeakSecret
        BY <3>3 DEF PassBy, Begin, JwtNoForgery, JwtWeakSecret
      <3>4. CASE \/ ExposureProbe \/ SqliInject \/ BolaCreate \/ BolaRead
                 \/ MassCreate \/ MassConfirm \/ SsrfProbe \/ JwtAlgNone
        BY <3>4 DEF ExposureProbe, SqliInject, BolaCreate, BolaRead, MassCreate, MassConfirm,
                    SsrfProbe, JwtAlgNone, Ask, Asking
      <3>5. QED
        BY <1>5, <3>1, <3>2, <3>3, <3>4 DEF Next
    <2>2. QED
      BY <2>1
  <1>6. QED
    BY <1>1, <1>2, <1>3, <1>4, <1>5 DEF Terminated

------------------------------------------------------------------------------
\* One more finding is looked at: it is listed if none like it is (setdefault).
LEMMA OneMore ==
  ASSUME report \in Seq(Finding), findings \in Seq(Finding), findings' = findings,
         NEW n \in Nat, n + 1 \in 1..Len(findings), FirstOfEach(n),
         report' = IF \E i \in 1..Len(report) : fingerprint(report[i]) = fingerprint(findings[n + 1])
                   THEN report ELSE Append(report, findings[n + 1])
  PROVE  FirstOfEach(n + 1)'
  <1> DEFINE f == findings[n + 1]
  <1>1. /\ Fingerprints(report) = {fingerprint(findings[k]) : k \in 1..n}
        /\ \A i, j \in 1..Len(report) : fingerprint(report[i]) = fingerprint(report[j]) => i = j
        /\ \A i \in 1..Len(report) : \E k \in 1..n :
             /\ findings[k] = report[i]
             /\ \A m \in 1..(k - 1) : fingerprint(findings[m]) # fingerprint(report[i])
    BY DEF FirstOfEach
  <1>2. \A k : k \in 1..(n + 1) <=> k \in 1..n \/ k = n + 1
    OBVIOUS
  <1>3. {fingerprint(findings[k]) : k \in 1..(n + 1)} = Fingerprints(report) \cup {fingerprint(f)}
    BY <1>1, <1>2
  <1>4. CASE \E i \in 1..Len(report) : fingerprint(report[i]) = fingerprint(f)
    <2>1. report' = report /\ fingerprint(f) \in Fingerprints(report)
      BY <1>4 DEF Fingerprints
    <2>2. Fingerprints(report') = {fingerprint(findings[k]) : k \in 1..(n + 1)}
      BY <1>3, <2>1
    <2>3. QED
      BY SMTT(30), <1>1, <1>2, <2>1, <2>2 DEF FirstOfEach
  <1>5. CASE ~\E i \in 1..Len(report) : fingerprint(report[i]) = fingerprint(f)
    <2> HIDE DEF f
    <2>1. report' = Append(report, f)
      BY <1>5 DEF f
    <2>2. /\ Len(report) \in Nat /\ Len(report') = Len(report) + 1
          /\ report'[Len(report) + 1] = f
          /\ \A i \in 1..Len(report) : report'[i] = report[i]
          /\ \A i : i \in 1..Len(report') <=> i \in 1..Len(report) \/ i = Len(report) + 1
      BY <2>1
    <2>3. Fingerprints(report') = Fingerprints(report) \cup {fingerprint(f)}
      BY <2>2 DEF Fingerprints
    <2>4. \A i, j \in 1..Len(report') : fingerprint(report'[i]) = fingerprint(report'[j]) => i = j
      BY <1>1, <1>5, <2>2
    <2>5. ASSUME NEW i \in 1..Len(report')
          PROVE  \E k \in 1..(n + 1) :
                   /\ findings[k] = report'[i]
                   /\ \A m \in 1..(k - 1) : fingerprint(findings[m]) # fingerprint(report'[i])
      <3>1. CASE i \in 1..Len(report)
        BY <1>1, <1>2, <2>2, <3>1
      <3>2. CASE i = Len(report) + 1
        <4>1. \A m \in 1..n : fingerprint(findings[m]) \in Fingerprints(report)
          BY <1>1
        <4>2. fingerprint(f) \notin Fingerprints(report)
          BY <1>5 DEF Fingerprints
        <4>3. report'[i] = f /\ findings[n + 1] = f /\ (n + 1) - 1 = n
          BY <2>2, <3>2 DEF f
        <4>4. QED
          BY <4>1, <4>2, <4>3
      <3>3. QED
        BY <2>2, <3>1, <3>2
    <2>6. Fingerprints(report') = {fingerprint(findings[k]) : k \in 1..(n + 1)}
      BY <1>3, <2>3
    <2>7. QED
      BY SMTT(30), <2>4, <2>5, <2>6 DEF FirstOfEach
  <1>6. QED
    BY <1>4, <1>5

\* A check is over, whatever its outcome: what it held has gone to the findings
\* or, if it was blocked or errored, is accounted for by its status.
LEMMA NextCheckScanInv ==
  ASSUME ScanInv, EInv', OwnTargetInScope', pc \in {"checks", "run"}, slot \in Slots,
         NEW outcome \in {"ran", "skipped", "blocked", "errored"}, NextCheck(outcome),
         UNCHANGED <<hits, wire>>, outcome = "skipped" <=> Hintless(Check),
         outcome = "skipped" => pc = "checks",
         findings' = IF outcome = "ran" THEN findings \o local ELSE findings
  PROVE  ScanInv'
  <1>1. /\ UNCHANGED <<job, endpoints, identities, report, hits, wire>>
        /\ pc' = "checks" /\ slot' = slot + 1 /\ step' = "next" /\ tries' = 0 /\ local' = <<>>
        /\ status' = [status EXCEPT ![slot] = outcome]
    BY DEF NextCheck, setup
  <1>2. /\ status \in [Slots -> Outcomes] /\ Slots' = Slots /\ slot \in Nat /\ Len(job.check_ids) \in Nat
        /\ local \in Seq(Finding) /\ findings \in Seq(Finding) /\ Len(wire) \in Nat
    BY <1>1, Shape DEF ScanInv, Slots
  <1>3. /\ \A s \in Slots : status'[s] = IF s = slot THEN outcome ELSE status[s]
        /\ \A s \in Slots : status[s] = "pending" <=> s >= slot
        /\ status[slot] = "pending"
    BY <1>1, <1>2 DEF ScanInv, ChecksInOrder
  <1>4. SetupFirst' /\ InjectionStops' /\ ExcludedNeverCrawled'
    BY <1>1, <1>2, HistoryStays DEF ScanInv
  <1>5. EveryCheckSettled' /\ PayloadsBehind' /\ CreateBehind'
    BY <1>1 DEF EveryCheckSettled, PayloadsBehind, CreateBehind, Preparing
  <1>6. ChecksInOrder'
    <2>1. \A s \in Slots : status'[s] = "pending" <=> s >= slot + 1
      BY <1>2, <1>3 DEF Slots
    <2>2. \A s \in Slots : status'[s] # "pending" =>
            (status'[s] = "skipped" <=> Hintless(job.check_ids[s]))
      BY <1>3 DEF ScanInv, ChecksInOrder, Check
    <2>3. (\A s \in Slots : status[s] # "pending" =>
             (status[s] = "skipped" <=> Hintless(job.check_ids[s])))'
      BY <1>1, <1>2, <2>2 DEF Hintless
    <2>4. (pc \in {"checks", "run"} => \A s \in Slots : status[s] = "pending" <=> s >= slot)'
      BY <1>1, <1>2, <2>1
    <2>5. QED
      BY <1>1, <2>3, <2>4 DEF ChecksInOrder, Preparing
  <1>7. \A k \in 1..Len(wire) :
          /\ wire[k].slot \in Slots \/ (wire[k].slot = 0 /\ wire[k].step \in {"spec", "register", "login"})
          /\ pc = "checks" => wire[k].slot < slot
          /\ pc = "run" => wire[k].slot < slot \/ wire[k].slot = slot
          /\ wire[k].slot \in Slots => status[wire[k].slot] # "skipped"
    BY DEF ScanInv, WireBehind
  <1>8. WireBehind'
    <2>1. \A k \in 1..Len(wire) :
            /\ wire[k].slot < slot + 1
            /\ wire[k].slot \in Slots => status'[wire[k].slot] # "skipped"
      <3> SUFFICES ASSUME NEW k \in 1..Len(wire)
                   PROVE  /\ wire[k].slot < slot + 1
                          /\ wire[k].slot \in Slots => status'[wire[k].slot] # "skipped"
        OBVIOUS
      <3>1. /\ wire[k].slot \in Slots \/ wire[k].slot = 0
            /\ pc = "checks" => wire[k].slot < slot
            /\ wire[k].slot < slot \/ wire[k].slot = slot
            /\ wire[k].slot \in Slots => status[wire[k].slot] # "skipped"
        BY <1>7
      <3>2. wire[k].slot \in Nat
        BY <1>2, <3>1 DEF Slots
      <3>3. wire[k].slot < slot + 1
        BY <1>2, <3>1, <3>2
      <3>4. CASE wire[k].slot # slot
        BY <1>3, <3>1, <3>3, <3>4
      <3>5. CASE wire[k].slot = slot
        <4>1. outcome # "skipped"
          BY <1>2, <3>1, <3>5
        <4>2. QED
          BY <1>3, <3>3, <3>5, <4>1
      <3>6. QED
        BY <3>4, <3>5
    <2>2. \A i \in 1..Len(endpoints) : endpoints[i].path \notin job.exclude
      BY DEF ScanInv, WireBehind
    <2>3. QED
      BY <1>1, <1>2, <1>7, <2>1, <2>2 DEF WireBehind, Preparing
  <1>9. /\ \A f : (\E i \in 1..Len(findings) : findings[i] = f)
               => \E i \in 1..Len(findings') : findings'[i] = f
        /\ \A f : (\E i \in 1..Len(local) : local[i] = f)
               => \/ \E i \in 1..Len(findings') : findings'[i] = f
                  \/ status'[slot] \in {"blocked", "errored"}
    <2>1. CASE outcome = "ran"
      <3>1. findings' = findings \o local
        BY <2>1
      <3>2. /\ Len(findings') = Len(findings) + Len(local)
            /\ Len(findings) \in Nat /\ Len(local) \in Nat
            /\ \A i \in 1..Len(findings) : findings'[i] = findings[i]
            /\ \A i \in 1..Len(local) : findings'[Len(findings) + i] = local[i]
        BY <1>2, <3>1
      <3>3. /\ \A i \in 1..Len(findings) : i \in 1..Len(findings')
            /\ \A i \in 1..Len(local) : Len(findings) + i \in 1..Len(findings')
        BY <3>2
      <3>4. QED
        BY <3>2, <3>3
    <2>2. CASE outcome \in {"blocked", "errored"}
      BY <1>3, <2>2
    <2>3. CASE outcome = "skipped"
      <3>1. local = <<>> /\ findings' = findings
        BY <2>3 DEF ScanInv, ChecksInOrder, Phases
      <3>2. QED
        BY <3>1
    <2>4. QED
      BY <2>1, <2>2, <2>3
  <1>10. HitsPlaced'
    <2> SUFFICES ASSUME NEW h \in 1..Len(hits)
                 PROVE  /\ hits[h].slot \in Slots
                        /\ \/ \E i \in 1..Len(findings') : findings'[i] = hits[h].finding
                           \/ status'[hits[h].slot] \in {"blocked", "errored"}
      BY <1>1, <1>2 DEF HitsPlaced
    <2>1. /\ hits[h].slot \in Slots
          /\ \/ \E i \in 1..Len(findings) : findings[i] = hits[h].finding
             \/ hits[h].slot = slot /\ \E i \in 1..Len(local) : local[i] = hits[h].finding
             \/ status[hits[h].slot] \in {"blocked", "errored"}
      BY DEF ScanInv, HitsPlaced
    <2>2. QED
      BY <1>3, <1>9, <2>1
  <1>11. Concluded'
    <2> SUFFICES ASSUME NEW k \in 1..Len(wire), wire[k].step \in Deciding,
                        Fires(job.check_ids[wire[k].slot], wire[k].resp)
                 PROVE  \/ \E i \in 1..Len(findings') :
                             /\ findings'[i].check = job.check_ids[wire[k].slot]
                             /\ findings'[i].path = PathOf(wire[k])
                        \/ status'[wire[k].slot] \in {"blocked", "errored"}
      BY ZenonT(90), <1>1 DEF Concluded, CheckOf, PathOf
    <2>1. wire[k].slot \in Slots
      BY <1>7 DEF Deciding
    <2>2. \/ \E i \in 1..Len(findings) : findings[i].check = CheckOf(wire[k]) /\ findings[i].path = PathOf(wire[k])
          \/ /\ wire[k].slot = slot
             /\ \E i \in 1..Len(local) : local[i].check = CheckOf(wire[k]) /\ local[i].path = PathOf(wire[k])
          \/ status[wire[k].slot] \in {"blocked", "errored"}
      BY DEF ScanInv, Concluded, CheckOf
    <2>3. CASE \E i \in 1..Len(findings) : findings[i].check = CheckOf(wire[k]) /\ findings[i].path = PathOf(wire[k])
      <3>1. PICK i \in 1..Len(findings) : findings[i].check = CheckOf(wire[k]) /\ findings[i].path = PathOf(wire[k])
        BY <2>3
      <3>2. \E m \in 1..Len(findings') : findings'[m] = findings[i]
        BY <1>9
      <3>3. QED
        BY <3>1, <3>2 DEF CheckOf
    <2>4. CASE wire[k].slot = slot /\ \E i \in 1..Len(local) : local[i].check = CheckOf(wire[k]) /\ local[i].path = PathOf(wire[k])
      <3>1. PICK i \in 1..Len(local) : local[i].check = CheckOf(wire[k]) /\ local[i].path = PathOf(wire[k])
        BY <2>4
      <3>2. \/ \E m \in 1..Len(findings') : findings'[m] = local[i]
            \/ status'[slot] \in {"blocked", "errored"}
        BY <1>9
      <3>3. QED
        BY <2>4, <3>1, <3>2 DEF CheckOf
    <2>5. CASE status[wire[k].slot] \in {"blocked", "errored"}
      BY <1>3, <2>1, <2>5
    <2>6. QED
      BY <2>2, <2>3, <2>4, <2>5
  <1>12. Deduped'
    BY <1>1 DEF ScanInv, Deduped, ReportExact
  <1>13. OperationsOnce'
    BY <1>1 DEF ScanInv, OperationsOnce
  <1>14. QED
    BY <1>4, <1>5, <1>6, <1>8, <1>10, <1>11, <1>12, <1>13 DEF ScanInv

\* The other steps of the loop over the checks, and of the de-duplication.
LEMMA LoopScanInv ==
  ASSUME ScanInv, EInv', OwnTargetInScope',
         \/ SkipCheck \/ StartCheck \/ ReturnFindings \/ ChecksDone
         \/ OutOfScope \/ BlockedMethod \/ CheckErrors \/ Dedup \/ Return
  PROVE  ScanInv'
  <1>0. /\ Len(job.check_ids) \in Nat /\ slot \in Nat \ {0}
        /\ status \in [Slots -> Outcomes] /\ Len(wire) \in Nat /\ Len(findings) \in Nat
        /\ report \in Seq(Finding) /\ findings \in Seq(Finding)
        /\ pc = "run" => slot \in Slots
        /\ pc = "checks" => step = "next"
    BY Shape DEF ScanInv, EInv, IInv, StepInPlace, Phases
  <1>1. CASE SkipCheck
    <2>1. slot \in Slots /\ pc = "checks" /\ Hintless(Check) /\ NextCheck("skipped")
          /\ UNCHANGED <<findings, hits, wire>>
      BY <1>0, <1>1 DEF SkipCheck, Slots
    <2>2. QED
      BY <2>1, NextCheckScanInv
  <1>2. CASE ReturnFindings \/ BlockedMethod \/ CheckErrors
    <2>1. pc = "run" /\ ~Hintless(Check) /\ slot \in Slots /\ UNCHANGED <<hits, wire>>
      BY <1>0, <1>2 DEF ReturnFindings, BlockedMethod, CheckErrors, Asking, ScanInv, ChecksInOrder
    <2>2. CASE ReturnFindings
      BY <2>1, <2>2, NextCheckScanInv DEF ReturnFindings
    <2>3. CASE BlockedMethod
      BY <2>1, <2>3, NextCheckScanInv DEF BlockedMethod
    <2>4. CASE CheckErrors
      BY <2>1, <2>4, NextCheckScanInv DEF CheckErrors
    <2>5. QED
      BY <1>2, <2>2, <2>3, <2>4
  <1>3. CASE StartCheck \/ ChecksDone \/ OutOfScope \/ Dedup \/ Return
    <2>1. /\ UNCHANGED <<job, endpoints, identities, item, step, tries, local, findings, status, hits, wire>>
          /\ Slots' = Slots /\ \A id : Hintless(id)' <=> Hintless(id)
      BY <1>3 DEF StartCheck, ChecksDone, OutOfScope, Dedup, Return, setup, probe, output, Slots, Hintless
    <2>2. SetupFirst' /\ InjectionStops' /\ ExcludedNeverCrawled'
      BY <1>0, <2>1, HistoryStays DEF ScanInv
    <2>3. /\ PayloadsBehind /\ HitsPlaced /\ Concluded /\ Deduped /\ ChecksInOrder /\ WireBehind
          /\ CreateBehind
      BY DEF ScanInv
    <2>8. OperationsOnce'
      <3>1. pc' = "run" => local' = <<>> /\ step = "next"
        BY <1>0, <1>3, <2>3 DEF StartCheck, ChecksDone, OutOfScope, Dedup, Return, Asking, probe,
                                ChecksInOrder, Phases
      <3>2. pc' \notin {"validate", "resolve", "spec", "crawl"}
        BY <1>3 DEF StartCheck, ChecksDone, OutOfScope, Dedup, Return, Asking
      <3>3. QED
        BY <2>1, <3>1, <3>2 DEF ScanInv, OperationsOnce
    <2>4. CASE StartCheck
      <3>1. /\ pc = "checks" /\ pc' = "run" /\ step = "next" /\ UNCHANGED <<slot, report>>
            /\ ~Hintless(Check) /\ slot \in Slots
        BY <1>0, <2>4 DEF StartCheck, output, Slots
      <3>2. ChecksInOrder'
        BY <2>1, <2>3, <3>1 DEF ChecksInOrder, Preparing, Phases, Check, Hintless
      <3>3. WireBehind'
        BY <2>1, <2>3, <3>1 DEF WireBehind, Preparing
      <3>4. PayloadsBehind' /\ CreateBehind' /\ EveryCheckSettled'
        BY <2>1, <2>3, <3>1 DEF PayloadsBehind, CreateBehind, EveryCheckSettled, Preparing
      <3>5. HitsPlaced'
        BY <2>1, <2>3, <3>1 DEF HitsPlaced
      <3>6. Concluded'
        BY <2>1, <2>3, <3>1 DEF Concluded, CheckOf, PathOf
      <3>7. Deduped'
        BY <2>1, <2>3, <3>1 DEF Deduped, ReportExact
      <3>8. QED
        BY <2>2, <2>8, <3>2, <3>3, <3>4, <3>5, <3>6, <3>7 DEF ScanInv
    <2>5. CASE OutOfScope
      <3>1. pc = "run" /\ pc' = "ScopeError" /\ UNCHANGED <<slot, report>>
        BY <2>5 DEF OutOfScope, output, Asking
      <3>2. ChecksInOrder' /\ WireBehind'
        BY <2>1, <2>3, <3>1 DEF ChecksInOrder, WireBehind, Preparing, Phases, Hintless
      <3>3. PayloadsBehind' /\ CreateBehind' /\ EveryCheckSettled'
        BY <2>1, <2>3, <3>1 DEF PayloadsBehind, CreateBehind, EveryCheckSettled, Preparing
      <3>4. HitsPlaced'
        BY <2>1, <2>3, <3>1 DEF HitsPlaced
      <3>5. Concluded'
        BY <2>1, <2>3, <3>1 DEF Concluded, CheckOf, PathOf
      <3>6. Deduped'
        BY <2>1, <2>3, <3>1 DEF Deduped, ReportExact
      <3>7. QED
        BY <2>2, <2>8, <3>2, <3>3, <3>4, <3>5, <3>6 DEF ScanInv
    <2>6. CASE ChecksDone \/ Dedup \/ Return
      <3>1. /\ pc \in {"checks", "dedup"} /\ pc' \in {"dedup", "done"} /\ local = <<>>
            /\ \A s \in Slots : status[s] # "pending"
        <4>1. CASE ChecksDone
          BY <1>0, <2>3, <4>1 DEF ChecksDone, ChecksInOrder, Slots, Phases
        <4>2. CASE Dedup \/ Return
          BY <2>3, <4>2 DEF Dedup, Return, ChecksInOrder, Phases
        <4>3. QED
          BY <2>6, <4>1, <4>2
      <3>2. ChecksInOrder'
        BY <2>1, <2>3, <3>1 DEF ChecksInOrder, Preparing, Hintless
      <3>3. WireBehind'
        BY <2>1, <2>3, <3>1 DEF WireBehind, Preparing
      <3>4. EveryCheckSettled'
        BY <3>2, <3>3 DEF EveryCheckSettled, ChecksInOrder, WireBehind
      <3>5. PayloadsBehind' /\ CreateBehind'
        BY <2>1, <2>3, <3>1 DEF PayloadsBehind, CreateBehind, Preparing
      <3>6. HitsPlaced'
        BY <2>1, <2>3, <3>1 DEF HitsPlaced
      <3>7. Concluded'
        BY <2>1, <2>3, <3>1 DEF Concluded, CheckOf, PathOf
      <3>8. Deduped'
        <4>1. CASE ChecksDone
          <5>1. report' = <<>> /\ slot' = 1 /\ pc' = "dedup"
            BY <2>3, <4>1 DEF ChecksDone, Deduped, output
          <5>2. FirstOfEach(slot - 1)'
            BY <5>1 DEF FirstOfEach, Fingerprints
          <5>3. QED
            BY <1>0, <2>1, <5>1, <5>2 DEF Deduped, ReportExact
        <4>2. CASE Dedup
          <5>1. /\ pc = "dedup" /\ pc' = "dedup" /\ slot' = slot + 1 /\ slot \in 1..Len(findings)
                /\ report' = IF \E i \in 1..Len(report) : fingerprint(report[i]) = fingerprint(findings[slot])
                             THEN report ELSE Append(report, findings[slot])
            BY <1>0, <4>2 DEF Dedup
          <5>2. slot - 1 \in Nat /\ (slot - 1) + 1 = slot /\ (slot + 1) - 1 = slot
            BY <1>0
          <5>3. FirstOfEach(slot - 1)
            BY <2>3, <5>1 DEF Deduped
          <5>4. PICK n \in Nat : n = slot - 1
            BY <5>2
          <5>5. FirstOfEach(n) /\ n + 1 = slot /\ slot' - 1 = n + 1
            BY <5>1, <5>2, <5>3, <5>4
          <5>6. FirstOfEach(n + 1)'
            BY <1>0, <2>1, <5>1, <5>5, OneMore
          <5>8. FirstOfEach(slot - 1)'
            BY <5>5, <5>6
          <5>7. QED
            BY <1>0, <2>1, <5>1, <5>8 DEF Deduped, ReportExact
        <4>3. CASE Return
          <5>1. pc = "dedup" /\ pc' = "done" /\ slot > Len(findings) /\ UNCHANGED <<slot, report>>
            BY <4>3 DEF Return, output
          <5>2. FirstOfEach(Len(findings))
            <6>1. slot - 1 = Len(findings) /\ FirstOfEach(slot - 1)
              BY <1>0, <2>3, <5>1 DEF Deduped
            <6>2. QED
              BY <6>1
          <5>3. QED
            BY <2>1, <5>1, <5>2 DEF Deduped, ReportExact, FirstOfEach
        <4>4. QED
          BY <2>6, <4>1, <4>2, <4>3
      <3>9. QED
        BY <2>2, <2>8, <3>2, <3>3, <3>4, <3>5, <3>6, <3>7, <3>8 DEF ScanInv
    <2>7. QED
      BY <1>3, <2>4, <2>5, <2>6
  <1>4. QED
    BY <1>1, <1>2, <1>3

------------------------------------------------------------------------------
\* A step inside a check: it may send the request of the item it is at, may add
\* one finding of its own, and stays at the item or goes to the next.
LEMMA RunScanInv ==
  ASSUME ScanInv, EInv', OwnTargetInScope', pc = "run",
         UNCHANGED <<job, endpoints, pc, slot, findings, status, report>>,
         \/ UNCHANGED <<local, hits>>
         \/ \E f \in Finding : /\ f.check = Check /\ local' = Append(local, f)
                              /\ hits' = Append(hits, [slot |-> slot, finding |-> f]),
         \A k \in 1..Len(wire) : wire'[k] = wire[k],
         \/ Len(wire') = Len(wire)
         \/ LET x == wire'[Len(wire) + 1] IN
              /\ Len(wire') = Len(wire) + 1 /\ x.slot = slot /\ x.item = item
              /\ x.step \in Deciding /\ Fires(Check, x.resp) =>
                   \E i \in 1..Len(local') : local'[i].check = Check /\ local'[i].path = PathOf(x),
         (item' = item /\ step' # "next") \/ item' = item + 1,
         SetupFirst', InjectionStops', ExcludedNeverCrawled', OperationsOnce', PayloadsBehind', CreateBehind'
  PROVE  ScanInv'
  <1>1. /\ slot \in Slots /\ Slots' = Slots /\ Check' = Check /\ slot \in Nat \ {0} /\ item \in Nat
        /\ Len(wire) \in Nat /\ Len(job.check_ids) \in Nat
        /\ local \in Seq(Finding) /\ hits \in Seq([slot : Nat, finding : Finding])
    BY Shape DEF ScanInv, EInv, IInv, StepInPlace, Slots, Check
  <1>2. /\ ChecksInOrder /\ WireBehind /\ HitsPlaced /\ Concluded /\ Deduped
        /\ status[slot] = "pending"
    BY <1>1 DEF ScanInv, ChecksInOrder
  <1>3. /\ \A k \in 1..Len(wire') : k \in 1..Len(wire) \/ (k = Len(wire) + 1 /\ Len(wire') = Len(wire) + 1)
        /\ \A i \in 1..Len(local) : i \in 1..Len(local') /\ local'[i] = local[i]
        /\ \A i \in 1..Len(local') : i \in 1..Len(local) \/ local'[i].check = Check
        /\ \A h \in 1..Len(hits') : \/ h \in 1..Len(hits) /\ hits'[h] = hits[h]
                                  \/ /\ hits'[h].slot = slot
                                     /\ \E i \in 1..Len(local') : local'[i] = hits'[h].finding
    <2>1. \A k \in 1..Len(wire') : k \in 1..Len(wire) \/ (k = Len(wire) + 1 /\ Len(wire') = Len(wire) + 1)
      BY <1>1
    <2>2. CASE UNCHANGED <<local, hits>>
      BY <2>1, <2>2
    <2>3. CASE ~UNCHANGED <<local, hits>>
      <3>1. PICK f \in Finding : /\ f.check = Check /\ local' = Append(local, f)
                                 /\ hits' = Append(hits, [slot |-> slot, finding |-> f])
        BY <2>3
      <3>2. /\ Len(local') = Len(local) + 1 /\ local'[Len(local) + 1] = f /\ Len(local) \in Nat
            /\ \A i \in 1..Len(local) : local'[i] = local[i]
        BY <1>1, <3>1
      <3>3. PICK g : g = [slot |-> slot, finding |-> f]
        OBVIOUS
      <3>4. g.slot = slot /\ g.finding = f /\ hits' = Append(hits, g)
        BY <3>1, <3>3
      <3>5. /\ Len(hits') = Len(hits) + 1 /\ hits'[Len(hits) + 1] = g /\ Len(hits) \in Nat
            /\ \A h \in 1..Len(hits) : hits'[h] = hits[h]
        BY <1>1, <3>4
      <3>6. Len(local) + 1 \in 1..Len(local')
        BY <3>2
      <3>7. \A i \in 1..Len(local') : i \in 1..Len(local) \/ local'[i] = f
        BY <3>2
      <3>8. \A h \in 1..Len(hits') : h \in 1..Len(hits) \/ h = Len(hits) + 1
        BY <3>5
      <3>9. \A h \in 1..Len(hits') :
              \/ h \in 1..Len(hits) /\ hits'[h] = hits[h]
              \/ /\ hits'[h].slot = slot
                 /\ \E i \in 1..Len(local') : local'[i] = hits'[h].finding
        BY <3>2, <3>4, <3>5, <3>6, <3>8
      <3>10. \A i \in 1..Len(local) : i \in 1..Len(local') /\ local'[i] = local[i]
        BY <3>2
      <3>11. QED
        BY <2>1, <3>1, <3>7, <3>9, <3>10
    <2>4. QED
      BY <2>2, <2>3
  <1>4. ChecksInOrder'
    <2>1. \A i \in 1..Len(local') : local'[i].check = Check
      BY <1>2, <1>3 DEF ChecksInOrder
    <2>2. QED
      BY <1>1, <1>2, <2>1 DEF ChecksInOrder, Preparing, Hintless
  <1>5. WireBehind'
    <2>1. ASSUME NEW k \in 1..Len(wire')
          PROVE  LET x == wire'[k] IN
                   /\ x.slot \in Slots \/ (x.slot = 0 /\ x.step \in {"spec", "register", "login"})
                   /\ \/ x.slot < slot
                      \/ x.slot = slot /\ x.item < item'
                      \/ x.slot = slot /\ x.item = item' /\ step' # "next"
                   /\ x.slot \in Slots => status[x.slot] # "skipped"
      <3>1. CASE k \in 1..Len(wire)
        <4>1. wire[k] \in Exchange
          BY <3>1, Shape DEF ScanInv
        <4>2. wire[k].slot \in Nat /\ wire[k].item \in Nat
          BY <4>1 DEF Exchange
        <4>3. LET x == wire[k] IN
                /\ x.slot \in Slots \/ (x.slot = 0 /\ x.step \in {"spec", "register", "login"})
                /\ \/ x.slot < slot
                   \/ x.slot = slot /\ x.item < item
                   \/ x.slot = slot /\ x.item = item
                /\ x.slot \in Slots => status[x.slot] # "skipped"
          BY <1>2, <3>1 DEF WireBehind
        <4>4. QED
          BY SMTT(30), <1>1, <3>1, <4>2, <4>3
      <3>2. CASE k = Len(wire) + 1 /\ Len(wire') = Len(wire) + 1
        <4>1. wire'[k].slot = slot /\ wire'[k].item = item
          BY <1>1, <3>2
        <4>2. QED
          BY <1>1, <1>2, <4>1
      <3>3. QED
        BY <1>3, <3>1, <3>2
    <2>2. \A i \in 1..Len(endpoints) : endpoints[i].path \notin job.exclude
      BY <1>2 DEF WireBehind
    <2>3. QED
      BY <1>1, <2>1, <2>2 DEF WireBehind, Preparing
  <1>6. HitsPlaced'
    <2> SUFFICES ASSUME NEW h \in 1..Len(hits')
                 PROVE  /\ hits'[h].slot \in Slots
                        /\ \/ \E i \in 1..Len(findings) : findings[i] = hits'[h].finding
                           \/ hits'[h].slot = slot /\ \E i \in 1..Len(local') : local'[i] = hits'[h].finding
                           \/ status[hits'[h].slot] \in {"blocked", "errored"}
      BY <1>1 DEF HitsPlaced
    <2>1. CASE h \in 1..Len(hits) /\ hits'[h] = hits[h]
      BY SMTT(30), <1>2, <1>3, <2>1 DEF HitsPlaced
    <2>2. CASE /\ hits'[h].slot = slot
               /\ \E i \in 1..Len(local') : local'[i] = hits'[h].finding
      BY <1>1, <2>2
    <2>3. QED
      BY <1>3, <2>1, <2>2
  <1>7. Concluded'
    <2> SUFFICES ASSUME NEW k \in 1..Len(wire'), wire'[k].step \in Deciding,
                        Fires(job.check_ids[wire'[k].slot], wire'[k].resp)
                 PROVE  \/ \E i \in 1..Len(findings) :
                             /\ findings[i].check = job.check_ids[wire'[k].slot]
                             /\ findings[i].path = PathOf(wire'[k])
                        \/ /\ wire'[k].slot = slot
                           /\ \E i \in 1..Len(local') :
                                /\ local'[i].check = job.check_ids[wire'[k].slot]
                                /\ local'[i].path = PathOf(wire'[k])
                        \/ status[wire'[k].slot] \in {"blocked", "errored"}
      BY DEF Concluded, CheckOf, PathOf
    <2>1. CASE k \in 1..Len(wire)
      <3>1. wire'[k] = wire[k]
        BY <2>1
      <3>2. \/ \E i \in 1..Len(findings) : findings[i].check = CheckOf(wire[k]) /\ findings[i].path = PathOf(wire[k])
            \/ /\ wire[k].slot = slot
               /\ \E i \in 1..Len(local) : local[i].check = CheckOf(wire[k]) /\ local[i].path = PathOf(wire[k])
            \/ status[wire[k].slot] \in {"blocked", "errored"}
        BY <1>2, <2>1, <3>1 DEF Concluded, CheckOf
      <3>3. QED
        BY <1>3, <3>1, <3>2 DEF CheckOf
    <2>2. CASE k = Len(wire) + 1 /\ Len(wire') = Len(wire) + 1
      <3>1. /\ wire'[k].slot = slot
            /\ wire'[k].step \in Deciding /\ Fires(Check, wire'[k].resp) =>
                 \E i \in 1..Len(local') : local'[i].check = Check /\ local'[i].path = PathOf(wire'[k])
        BY <1>1, <2>2
      <3>2. QED
        BY <3>1 DEF Check
    <2>3. QED
      BY <1>3, <2>1, <2>2
  <1>8. Deduped' /\ EveryCheckSettled'
    BY <1>2 DEF Deduped, ReportExact, EveryCheckSettled
  <1>9. QED
    BY <1>4, <1>5, <1>6, <1>7, <1>8 DEF ScanInv

\* A step of a check that asks nothing (PassBy, and the offline half of jwt).
LEMMA QuietScanInv ==
  ASSUME ScanInv, EInv', OwnTargetInScope', PassBy \/ Begin \/ JwtNoForgery \/ JwtWeakSecret
  PROVE  ScanInv'
  <1>1. /\ pc = "run" /\ UNCHANGED <<job, endpoints, identities, pc, slot, findings, status, report, wire>>
        /\ Check' = Check /\ Slots' = Slots
    BY DEF PassBy, Begin, JwtNoForgery, JwtWeakSecret, setup, output, Check, Slots
  <1>2. /\ Len(wire) \in Nat /\ item \in Nat \ {0} /\ slot \in Slots /\ tries \in Nat
        /\ Payloads \in Nat \ {0} /\ local \in Seq(Finding)
        /\ OperationsOnce /\ PayloadsBehind /\ WireBehind
    BY <1>1, Shape DEF ScanInv, EInv, IInv, StepInPlace
  <1>3. (item' = item /\ step' # "next") \/ item' = item + 1
    <2>1. CASE Begin
      BY <2>1 DEF Begin, PassedBy, FirstStep
    <2>2. CASE PassBy \/ JwtNoForgery \/ JwtWeakSecret
      BY <2>2 DEF PassBy, JwtNoForgery, JwtWeakSecret, NextItem
    <2>3. QED
      BY <2>1, <2>2
  <1>4. \/ UNCHANGED <<local, hits>>
        \/ /\ JwtWeakSecret
           /\ \E f \in Finding : /\ f.check = Check /\ local' = Append(local, f)
                               /\ hits' = Append(hits, [slot |-> slot, finding |-> f])
    <2>1. CASE PassBy \/ Begin \/ JwtNoForgery
      BY <2>1 DEF PassBy, Begin, JwtNoForgery, output
    <2>2. CASE JwtWeakSecret
      <3> DEFINE f == [check |-> Check, method |-> "POST", path |-> LoginPath, evidence |-> <<0>>]
      <3>1. Check \in CheckIds /\ LoginPath \in Paths
        BY <1>1, ItemsTyped, ChecksAssumption DEF ScanInv, EInv
      <3>2. f \in Finding
        <4>1. <<0>> \in Seq(Nat)
          OBVIOUS
        <4>2. QED
          BY <3>1, <4>1 DEF Finding, Methods
      <3>3. f.check = Check
        OBVIOUS
      <3>4. CASE WeakSecret(JwtToken)
        <4>1. local' = Append(local, f) /\ hits' = Append(hits, [slot |-> slot, finding |-> f])
          BY <2>2, <3>4 DEF JwtWeakSecret, Found
        <4> HIDE DEF f
        <4>2. QED
          BY <2>2, <3>2, <3>3, <4>1
      <3>5. CASE ~WeakSecret(JwtToken)
        BY <2>2, <3>5 DEF JwtWeakSecret
      <3>6. QED
        BY <3>4, <3>5
    <2>3. QED
      BY <2>1, <2>2
  <1>5. SetupFirst' /\ InjectionStops' /\ ExcludedNeverCrawled'
    BY <1>1, <1>2, HistoryStays DEF ScanInv
  <1>6. CASE Begin
    <2>1. /\ step = "next" /\ step' = FirstStep(Check, Item) /\ step' # "none"
          /\ UNCHANGED <<item, tries, local, hits>>
      BY <1>6 DEF Begin, PassedBy, output
    <2>2. Item' = Item
      BY <1>1, <2>1 DEF Item, Items, Check
    <2>3. OperationsOnce'
      <3>1. step' = "inject" => Item.method = "GET"
        BY <2>1 DEF FirstStep
      <3>2. QED
        BY <1>1, <1>2, <2>1, <2>2, <3>1 DEF OperationsOnce
    <2>4. PayloadsBehind'
      <3>1. tries = 0
        BY <1>2, <2>1 DEF PayloadsBehind
      <3>2. \A k \in 1..Len(wire) : ~(wire[k].slot = slot /\ wire[k].item = item)
        BY <1>1, <1>2, <2>1, Shape DEF WireBehind, Slots
      <3>3. QED
        BY <1>1, <1>2, <2>1, <3>1, <3>2 DEF PayloadsBehind
    <2>5. CreateBehind'
      <3>1. step' = "read" => Check = "bola" /\ ~Item.create
        BY <2>1 DEF FirstStep
      <3>2. QED
        BY <1>1, <2>2, <3>1 DEF CreateBehind
    <2>6. QED
      BY <1>1, <1>3, <1>5, <2>1, <2>3, <2>4, <2>5, RunScanInv
  <1>7. CASE PassBy \/ JwtNoForgery \/ JwtWeakSecret
    <2>1. step' \notin {"inject", "read"} /\ tries' = 0 /\ (item' = item \/ item' = item + 1)
      BY <1>2, <1>7 DEF PassBy, JwtNoForgery, JwtWeakSecret, NextItem, PayloadsBehind
    <2>2. PayloadsBehind' /\ CreateBehind'
      BY <2>1 DEF PayloadsBehind, CreateBehind
    <2>3. Check = "sqli" => local' = local
      <3>1. JwtWeakSecret => Check = "jwt"
        BY DEF JwtWeakSecret, ScanInv, EInv, TokenInHand
      <3>2. QED
        BY <1>4, <3>1
    <2>4. OperationsOnce'
      <3>1. Check = "sqli" =>
              \A i \in 1..Len(local) : \E m \in 1..(item - 1) :
                m <= Len(endpoints) /\ endpoints[m].path = local[i].path /\ endpoints[m].method = "GET"
        BY <1>1, <1>2 DEF OperationsOnce
      <3>2. \A m \in 1..(item - 1) : m \in 1..(item' - 1)
        BY <1>2, <2>1
      <3>3. QED
        BY <1>1, <1>2, <2>1, <2>3, <3>1, <3>2 DEF OperationsOnce
    <2>5. QED
      BY <1>1, <1>3, <1>4, <1>5, <2>2, <2>4, RunScanInv
  <1>8. QED
    BY <1>6, <1>7

------------------------------------------------------------------------------
\* The exchange a check adds is one that the exchanges before it allow: its set-up
\* is the one just before, no payload before it fired, its path is not excluded.
LEMMA AskedHistory ==
  ASSUME ScanInv, NEW resp \in Responses, Ask(resp)
  PROVE  SetupFirst' /\ InjectionStops' /\ ExcludedNeverCrawled'
  <1> DEFINE x == wire'[Len(wire) + 1]
  <1>1. /\ job' = job /\ pc = "run" /\ Len(wire) \in Nat /\ Len(wire') = Len(wire) + 1
        /\ \A k \in 1..Len(wire) : wire'[k] = wire[k]
        /\ x.slot = slot /\ x.item = item /\ x.step = step /\ x.path = Asked.path
    BY AskedLast DEF ScanInv, Here
  <1> HIDE DEF x
  <1>2. /\ EInv /\ IInv /\ SetupFirst /\ InjectionStops /\ ExcludedNeverCrawled
        /\ PayloadsBehind /\ CreateBehind /\ WireBehind /\ tries \in Nat /\ Payloads \in Nat
    BY Shape DEF ScanInv, EInv
  <1>3. item \in 1..Len(Items)
    BY <1>2, ProbeSent
  <1>4. x.step = "confirm" \/ (x.step = "read" /\ job.hints["bola"][x.item].create) =>
          /\ Len(wire) > 0 /\ wire[Len(wire)].step = "create" /\ SameProbe(wire[Len(wire)], x)
          /\ x.step = "confirm" => wire[Len(wire)].resp # "lost"
    <2>1. CASE x.step = "confirm"
      BY <1>1, <1>2, <2>1 DEF EInv, CreateAnswered, SameProbe
    <2>2. CASE x.step = "read" /\ job.hints["bola"][x.item].create
      <3>1. Check = "bola"
        BY <1>1, <1>2, <2>2 DEF CreateBehind
      <3>2. Item = job.hints["bola"][item]
        BY <3>1 DEF Item, Items, SpecDriven
      <3>3. QED
        BY <1>1, <1>2, <2>2, <3>2 DEF CreateBehind, SameProbe
    <2>3. QED
      BY <2>1, <2>2
  <1>5. x.step = "inject" =>
          \A j \in 1..Len(wire) :
            wire[j].step = "inject" /\ SameProbe(wire[j], x) =>
              ~Fires("sqli", wire[j].resp) /\ Len(wire) + 1 - j < Payloads
    <2> SUFFICES ASSUME x.step = "inject", NEW j \in 1..Len(wire),
                        wire[j].step = "inject", SameProbe(wire[j], x)
                 PROVE  ~Fires("sqli", wire[j].resp) /\ Len(wire) + 1 - j < Payloads
      OBVIOUS
    <2>1. wire[j].slot = slot /\ wire[j].item = item
      BY <1>1 DEF SameProbe
    <2>2. tries < Payloads /\ j > Len(wire) - tries /\ ~Fires("sqli", wire[j].resp)
      BY <1>1, <1>2, <2>1 DEF PayloadsBehind
    <2>3. QED
      BY <1>1, <1>2, <2>2
  <1>6. x.step \in {"probe", "inject"} /\ job.check_ids[x.slot] \in SpecDriven =>
          x.path \notin job.exclude
    <2> SUFFICES ASSUME job.check_ids[x.slot] \in SpecDriven PROVE x.path \notin job.exclude
      OBVIOUS
    <2>1. /\ Item = endpoints[item] /\ item \in 1..Len(endpoints)
          /\ x.path = Item.path
      BY <1>1, <1>2, <1>3, AskedTyped DEF Item, Items, Check
    <2>2. QED
      BY <1>1, <1>2, <2>1 DEF WireBehind
  <1>7. QED
    BY <1>1, <1>2, <1>4, <1>5, <1>6, HistoryStays DEF x

\* What a response that is judged leaves in the findings of the running check.
LEMMA JudgedLocal ==
  ASSUME EInv, NEW resp \in Responses, Ask(resp), NEW method \in Methods,
         NEW path \in Paths, NEW evidence \in Seq(Nat), Found(method, path, evidence)
  PROVE  /\ \E f \in Finding : /\ f.check = Check /\ local' = Append(local, f)
                              /\ hits' = Append(hits, [slot |-> slot, finding |-> f])
         /\ \E i \in 1..Len(local') : local'[i].check = Check /\ local'[i].path = path
         /\ Len(local') = Len(local) + 1 /\ local'[Len(local) + 1].path = path
         /\ \A i \in 1..Len(local) : local'[i] = local[i]
  <1> DEFINE f == [check |-> Check, method |-> method, path |-> path, evidence |-> evidence]
  <1>1. IInv /\ local \in Seq(Finding) /\ pc = "run"
    BY Collected, AskedLast DEF EInv
  <1>2. Check \in CheckIds
    BY <1>1, ProbeSent, ItemsTyped
  <1>3. f \in Finding
    BY <1>2 DEF Finding
  <1>4. f.check = Check /\ f.path = path
    OBVIOUS
  <1>5. local' = Append(local, f) /\ hits' = Append(hits, [slot |-> slot, finding |-> f])
    BY DEF Found
  <1> HIDE DEF f
  <1>6. /\ Len(local') = Len(local) + 1 /\ local'[Len(local) + 1] = f /\ Len(local) \in Nat
        /\ \A i \in 1..Len(local) : local'[i] = local[i]
    BY <1>1, <1>3, <1>5
  <1>7. Len(local) + 1 \in 1..Len(local')
    BY <1>6
  <1>8. QED
    BY <1>3, <1>4, <1>5, <1>6, <1>7

\* A probe that is answered and over, or waits for the second of its two steps.
LEMMA ProbeScanInv ==
  ASSUME ScanInv, EInv', OwnTargetInScope',
         ExposureProbe \/ BolaCreate \/ BolaRead \/ MassCreate \/ MassConfirm \/ SsrfProbe \/ JwtAlgNone
  PROVE  ScanInv'
  <1>1. EInv /\ IInv /\ PayloadsBehind /\ OperationsOnce
    BY DEF ScanInv, EInv
  <1>2. PICK resp \in Responses :
          /\ Ask(resp)
          /\ \/ UNCHANGED <<local, hits>> /\ (step \in Deciding => ~Fires(Check, resp))
             \/ /\ step \in Deciding
                /\ \E method \in Methods, evidence \in Seq(Nat) :
                     Found(method, PathOf(wire'[Here]), evidence)
    <2>1. Here \in Nat /\ Len(wire) \in Nat
      BY <1>1, Collected DEF Here
    <2>2. <<Here>> \in Seq(Nat) /\ <<Here, Len(wire)>> \in Seq(Nat)
      BY <2>1
    <2>3. CASE ExposureProbe \/ BolaRead \/ SsrfProbe \/ JwtAlgNone
      <3>1. PICK r \in Responses : Ask(r) /\ Judge(r, Item.method, Item.path, <<Here>>)
        BY <2>3 DEF ExposureProbe, BolaRead, SsrfProbe, JwtAlgNone
      <3>2. Item.method \in Methods
        BY <1>1, <3>1, ProbeSent, ItemTyped
      <3>3. step \in Deciding /\ step # "confirm"
        BY <2>3 DEF ExposureProbe, BolaRead, SsrfProbe, JwtAlgNone, Deciding
      <3>4. PathOf(wire'[Here]) = Item.path
        BY <1>1, <3>1, <3>3, DecidingPath
      <3>5. QED
        BY <2>2, <3>1, <3>2, <3>3, <3>4 DEF Judge
    <2>4. CASE MassConfirm
      <3>1. PICK r \in Responses :
              Ask(r) /\ Judge(r, Item.create_method, Item.create_path, <<Here, Len(wire)>>)
        BY <2>4 DEF MassConfirm
      <3>2. Item.create_method \in Methods
        BY <1>1, <2>4, <3>1, ProbeSent, ItemTyped DEF MassConfirm, SpecDriven
      <3>3. step = "confirm" /\ step \in Deciding
        BY <2>4 DEF MassConfirm, Deciding
      <3>4. PathOf(wire'[Here]) = Item.create_path
        BY <1>1, <3>1, <3>3, DecidingPath
      <3>5. QED
        BY <2>2, <3>1, <3>2, <3>3, <3>4 DEF Judge
    <2>5. CASE BolaCreate \/ MassCreate
      <3>1. step \notin Deciding /\ UNCHANGED <<local, hits>>
        BY <2>5 DEF BolaCreate, MassCreate, Deciding
      <3>2. PICK r \in {"lost", "clean"} : Ask(r)
        BY <2>5 DEF BolaCreate, MassCreate
      <3>3. r \in Responses
        BY DEF Responses
      <3>4. QED
        BY <3>1, <3>2, <3>3
    <2>6. QED
      BY <2>3, <2>4, <2>5
  <1>3. /\ UNCHANGED <<job, identities, pc, slot, findings, report>> /\ pc = "run"
        /\ Len(wire) \in Nat /\ Len(wire') = Len(wire) + 1
        /\ \A k \in 1..Len(wire) : wire'[k] = wire[k]
        /\ wire'[Len(wire) + 1].slot = slot /\ wire'[Len(wire) + 1].item = item
        /\ wire'[Len(wire) + 1].step = step /\ wire'[Len(wire) + 1].resp = resp
        /\ Here = Len(wire) + 1
    BY <1>1, <1>2, AskedLast DEF Here
  <1>4. UNCHANGED <<endpoints, status>>
    BY <1>2 DEF Ask, setup
  <1>5. /\ \/ UNCHANGED <<local, hits>>
           \/ \E f \in Finding : /\ f.check = Check /\ local' = Append(local, f)
                                /\ hits' = Append(hits, [slot |-> slot, finding |-> f])
        /\ step \in Deciding /\ Fires(Check, resp) =>
             \E i \in 1..Len(local') : local'[i].check = Check /\ local'[i].path = PathOf(wire'[Here])
    <2>1. CASE UNCHANGED <<local, hits>> /\ (step \in Deciding => ~Fires(Check, resp))
      BY <2>1
    <2>2. CASE /\ step \in Deciding
               /\ \E method \in Methods, evidence \in Seq(Nat) :
                    Found(method, PathOf(wire'[Here]), evidence)
      <3>1. PathOf(wire'[Here]) \in Paths
        <4>1. item \in 1..Len(Items)
          BY <1>1, <1>2, ProbeSent
        <4>2. Item.path \in Paths /\ (Check \notin SpecDriven => Item.create_path \in Paths)
          BY <1>1, <1>3, <4>1, ItemTyped
        <4>3. step = "confirm" => Check \notin SpecDriven
          BY <1>1, <1>3, EscalationItem DEF SpecDriven
        <4>4. QED
          BY <1>1, <1>2, <2>2, <4>2, <4>3, DecidingPath
      <3>2. QED
        BY <1>1, <1>2, <2>2, <3>1, JudgedLocal
    <2>3. QED
      BY <1>2, <2>1, <2>2
  <1>6. /\ (item' = item /\ step' # "next") \/ item' = item + 1
        /\ tries' = 0 /\ step' # "inject" /\ Check # "sqli"
        /\ step' = "read" => BolaCreate
    <2>1. step # "inject" /\ Check # "sqli"
      BY DEF ExposureProbe, BolaCreate, BolaRead, MassCreate, MassConfirm, SsrfProbe, JwtAlgNone
    <2>2. tries = 0
      BY <1>1, <2>1 DEF PayloadsBehind
    <2>3. CASE ExposureProbe \/ BolaRead \/ MassConfirm \/ SsrfProbe \/ JwtAlgNone
      BY <2>1, <2>3 DEF ExposureProbe, BolaRead, MassConfirm, SsrfProbe, JwtAlgNone, NextItem
    <2>4. CASE BolaCreate
      BY <2>1, <2>2, <2>4 DEF BolaCreate
    <2>5. CASE MassCreate
      BY <2>1, <2>2, <2>5 DEF MassCreate, NextItem
    <2>6. QED
      BY <2>3, <2>4, <2>5
  <1>7. SetupFirst' /\ InjectionStops' /\ ExcludedNeverCrawled'
    BY <1>2, AskedHistory
  <1>8. PayloadsBehind'
    BY <1>6 DEF PayloadsBehind
  <1>9. CreateBehind'
    <2>1. CASE step' # "read"
      BY <2>1 DEF CreateBehind
    <2>2. CASE BolaCreate
      <3>1. step = "create" /\ Check = "bola" /\ item' = item /\ Check' = Check
        BY <1>3, <2>2 DEF BolaCreate, Check
      <3>2. QED
        BY <1>3, <3>1 DEF CreateBehind
    <2>3. QED
      BY <1>6, <2>1, <2>2
  <1>10. OperationsOnce'
    <2>1. Check' = Check
      BY <1>3 DEF Check
    <2>2. QED
      BY <1>1, <1>3, <1>4, <1>6, <2>1 DEF OperationsOnce
  <1>11. QED
    BY <1>3, <1>4, <1>5, <1>6, <1>7, <1>8, <1>9, <1>10, RunScanInv

\* A payload: an endpoint is crawled once, so nothing reported is met again, and a
\* response that fires is a finding and the last one of its endpoint (SqliCheck.run).
LEMMA InjectScanInv ==
  ASSUME ScanInv, EInv', OwnTargetInScope', SqliInject
  PROVE  ScanInv'
  <1>1. /\ EInv /\ IInv /\ PayloadsBehind /\ OperationsOnce /\ WireBehind
        /\ step = "inject" /\ Check = "sqli"
    BY DEF ScanInv, EInv, SqliInject
  <1>2. PICK resp \in Responses :
          /\ Ask(resp)
          /\ IF Fires(Check, resp) /\ ~Seen
             THEN Found(Item.method, Item.path, <<Here>>) /\ NextItem
             ELSE /\ IF tries + 1 < Payloads
                     THEN tries' = tries + 1 /\ UNCHANGED <<item, step>> ELSE NextItem
                  /\ UNCHANGED <<local, hits>>
    BY DEF SqliInject
  <1>3. /\ UNCHANGED <<job, identities, pc, slot, findings, report>> /\ pc = "run"
        /\ Len(wire) \in Nat /\ Len(wire') = Len(wire) + 1
        /\ \A k \in 1..Len(wire) : wire'[k] = wire[k]
        /\ wire'[Len(wire) + 1].slot = slot /\ wire'[Len(wire) + 1].item = item
        /\ wire'[Len(wire) + 1].step = step /\ wire'[Len(wire) + 1].resp = resp
        /\ PathOf(wire'[Len(wire) + 1]) = Item.path
    <2>1. step \in Deciding /\ step # "confirm"
      BY <1>1 DEF Deciding
    <2>2. QED
      BY <1>1, <1>2, <2>1, AskedLast, DecidingPath DEF Here
  <1>4. /\ UNCHANGED <<endpoints, status>> /\ Check' = Check
        /\ item \in 1..Len(endpoints) /\ Item = endpoints[item] /\ Item.method = "GET"
        /\ tries \in Nat /\ Payloads \in Nat /\ item \in Nat /\ Len(local) \in Nat
        /\ Item.method \in Methods /\ Item.path \in Paths
    <2>1. UNCHANGED <<endpoints, status>> /\ Check' = Check
      BY <1>2, <1>3 DEF Ask, setup, Check
    <2>2. item \in 1..Len(endpoints) /\ Item = endpoints[item]
      BY <1>1, <1>2, ProbeSent DEF Items, Item, SpecDriven
    <2>3. Item.method = "GET"
      BY <1>1, <1>3 DEF OperationsOnce
    <2>4. Item.path \in Paths
      BY <1>1, <1>2, <1>3, ProbeSent, ItemTyped
    <2>5. QED
      BY <1>1, <2>1, <2>2, <2>3, <2>4, Shape DEF Methods
  <1>5. \A i \in 1..Len(local) : \E m \in 1..(item - 1) :
          m <= Len(endpoints) /\ endpoints[m].path = local[i].path /\ endpoints[m].method = "GET"
    BY <1>1, <1>3 DEF OperationsOnce
  <1>6. ~Seen
    <2> SUFFICES ASSUME NEW i \in 1..Len(local), local[i].path = Item.path PROVE FALSE
      BY DEF Seen
    <2>1. PICK m \in 1..(item - 1) :
            m <= Len(endpoints) /\ endpoints[m].path = local[i].path /\ endpoints[m].method = "GET"
      BY <1>5
    <2>2. m \in 1..Len(endpoints) /\ m # item
      BY <1>4, <2>1
    <2>3. endpoints[m].path = endpoints[item].path /\ endpoints[m].method = endpoints[item].method
      BY <1>4, <2>1
    <2>4. QED
      BY <1>1, <1>4, <2>2, <2>3 DEF OperationsOnce
  <1>7. SetupFirst' /\ InjectionStops' /\ ExcludedNeverCrawled'
    BY <1>2, AskedHistory
  <1>8. CASE Fires(Check, resp)
    <2>1. Found(Item.method, Item.path, <<Here>>) /\ NextItem
      BY <1>2, <1>6, <1>8
    <2>2. <<Here>> \in Seq(Nat)
      BY <1>3 DEF Here
    <2>3. /\ \E f \in Finding : /\ f.check = Check /\ local' = Append(local, f)
                               /\ hits' = Append(hits, [slot |-> slot, finding |-> f])
          /\ \E i \in 1..Len(local') : local'[i].check = Check /\ local'[i].path = Item.path
          /\ Len(local') = Len(local) + 1 /\ local'[Len(local) + 1].path = Item.path
          /\ \A i \in 1..Len(local) : local'[i] = local[i]
      BY <1>1, <1>2, <1>4, <2>1, <2>2, JudgedLocal
    <2>4. item' = item + 1 /\ step' = "next" /\ tries' = 0
      BY <2>1 DEF NextItem
    <2>5. PayloadsBehind' /\ CreateBehind'
      BY <2>4 DEF PayloadsBehind, CreateBehind
    <2>6. \A i \in 1..Len(local') : \E m \in 1..item :
            m <= Len(endpoints) /\ endpoints[m].path = local'[i].path /\ endpoints[m].method = "GET"
      <3> SUFFICES ASSUME NEW i \in 1..Len(local')
                   PROVE  \E m \in 1..item :
                            /\ m <= Len(endpoints) /\ endpoints[m].path = local'[i].path
                            /\ endpoints[m].method = "GET"
        OBVIOUS
      <3>1. CASE i \in 1..Len(local)
        <4>1. PICK m \in 1..(item - 1) :
                m <= Len(endpoints) /\ endpoints[m].path = local[i].path /\ endpoints[m].method = "GET"
          BY <1>5, <3>1
        <4>2. m \in 1..item /\ local'[i] = local[i]
          BY <1>4, <2>3, <3>1, <4>1
        <4>3. QED
          BY <4>1, <4>2
      <3>2. CASE i \notin 1..Len(local)
        <4>1. i = Len(local) + 1 /\ item \in 1..item
          BY <1>4, <2>3, <3>2
        <4>2. QED
          BY <1>4, <2>3, <4>1
      <3>3. QED
        BY <3>1, <3>2
    <2>7. OperationsOnce'
      <3>1. item' - 1 = item
        BY <1>4, <2>4
      <3>2. /\ endpoints' = endpoints /\ pc' = "run" /\ step' = "next"
            /\ \A i, j \in 1..Len(endpoints) :
                 /\ endpoints[i].path = endpoints[j].path
                 /\ endpoints[i].method = endpoints[j].method
                 => i = j
        BY <1>1, <1>3, <1>4, <2>4 DEF OperationsOnce
      <3>3. QED
        BY <2>6, <3>1, <3>2 DEF OperationsOnce
    <2>8. QED
      BY <1>3, <1>4, <1>7, <2>3, <2>4, <2>5, <2>7, RunScanInv
  <1>9. CASE ~Fires(Check, resp)
    <2>1. /\ UNCHANGED <<local, hits>>
          /\ \/ tries + 1 < Payloads /\ tries' = tries + 1 /\ item' = item /\ step' = "inject"
             \/ item' = item + 1 /\ step' = "next" /\ tries' = 0
      BY <1>1, <1>2, <1>9 DEF NextItem
    <2>2. (item' = item /\ step' # "next") \/ item' = item + 1
      BY <2>1
    <2>3. CreateBehind'
      BY <2>1 DEF CreateBehind
    <2>4. PayloadsBehind'
      <3>1. CASE step' = "next"
        BY <2>1, <3>1 DEF PayloadsBehind
      <3>2. CASE step' = "inject"
        <4>1. tries' = tries + 1 /\ tries + 1 < Payloads /\ item' = item
          BY <2>1, <3>2
        <4>2. \A k \in 1..Len(wire') :
                wire'[k].step = "inject" /\ wire'[k].slot = slot /\ wire'[k].item = item =>
                  k > Len(wire') - tries' /\ ~Fires("sqli", wire'[k].resp)
          <5> SUFFICES ASSUME NEW k \in 1..Len(wire'), wire'[k].step = "inject",
                              wire'[k].slot = slot, wire'[k].item = item
                       PROVE  k > Len(wire') - tries' /\ ~Fires("sqli", wire'[k].resp)
            OBVIOUS
          <5>1. CASE k \in 1..Len(wire)
            <6>1. k > Len(wire) - tries /\ ~Fires("sqli", wire[k].resp)
              BY <1>1, <1>3, <5>1 DEF PayloadsBehind
            <6>2. QED
              BY <1>3, <1>4, <4>1, <5>1, <6>1
          <5>2. CASE k \notin 1..Len(wire)
            <6>1. k = Len(wire) + 1
              BY <1>3, <5>2
            <6>2. QED
              BY <1>1, <1>3, <1>4, <1>9, <4>1, <6>1
          <5>3. QED
            BY <5>1, <5>2
        <4>3. QED
          BY <1>3, <3>2, <4>1, <4>2 DEF PayloadsBehind, Preparing
      <3>3. QED
        BY <2>1, <3>1, <3>2
    <2>5. OperationsOnce'
      <3>1. \A m \in 1..(item - 1) : m \in 1..(item' - 1)
        BY <1>4, <2>1
      <3>2. (step = "inject" => Item.method = "GET")'
        <4>1. step' = "inject" => item' = item
          BY <2>1
        <4>2. Items' = Items
          BY <1>1, <1>4 DEF Items, SpecDriven
        <4>3. QED
          BY <1>4, <4>1, <4>2 DEF Item
      <3>3. /\ endpoints' = endpoints /\ pc' = "run" /\ local' = local
            /\ \A i, j \in 1..Len(endpoints) :
                 /\ endpoints[i].path = endpoints[j].path
                 /\ endpoints[i].method = endpoints[j].method
                 => i = j
        BY <1>1, <1>3, <1>4, <2>1 DEF OperationsOnce
      <3>4. \A i \in 1..Len(local) : \E m \in 1..(item' - 1) :
              m <= Len(endpoints) /\ endpoints[m].path = local[i].path /\ endpoints[m].method = "GET"
        BY <1>5, <3>1
      <3>5. QED
        BY <3>2, <3>3, <3>4 DEF OperationsOnce
    <2>6. QED
      BY <1>3, <1>4, <1>7, <1>9, <2>1, <2>2, <2>3, <2>4, <2>5, RunScanInv
  <1>10. QED
    BY <1>8, <1>9

------------------------------------------------------------------------------
\* Every step of a scan keeps what its checks owe each other.
LEMMA NextScanInv == ScanInv /\ [Next]_vars => ScanInv'
  <1> SUFFICES ASSUME ScanInv, [Next]_vars PROVE ScanInv'
    OBVIOUS
  <1>1. EInv' /\ OwnTargetInScope'
    BY NextEInv, OwnScope DEF ScanInv
  <1>2. CASE Terminated \/ UNCHANGED vars
    <2>1. UNCHANGED <<job, pc, endpoints, identities, slot, item, step, tries, local,
                      findings, status, report, hits, wire>>
      BY <1>2 DEF Terminated, vars
    <2>2. Slots' = Slots /\ Check' = Check /\ Items' = Items /\ Item' = Item
          /\ \A id : Hintless(id)' <=> Hintless(id)
      BY <2>1 DEF Slots, Check, Items, Item, Hintless
    <2>3. SetupFirst' /\ InjectionStops' /\ ExcludedNeverCrawled' /\ EveryCheckSettled'
      BY <2>1, <2>2 DEF ScanInv, SetupFirst, InjectionStops, ExcludedNeverCrawled,
                        EveryCheckSettled, CheckOf
    <2>4. ChecksInOrder' /\ WireBehind'
      BY <2>1, <2>2 DEF ScanInv, ChecksInOrder, WireBehind
    <2>5. OperationsOnce' /\ PayloadsBehind' /\ CreateBehind'
      BY <2>1, <2>2 DEF ScanInv, OperationsOnce, PayloadsBehind, CreateBehind
    <2>6. HitsPlaced' /\ Concluded'
      BY <2>1, <2>2 DEF ScanInv, HitsPlaced, Concluded, CheckOf, PathOf
    <2>7. Deduped'
      BY <2>1 DEF ScanInv, Deduped, ReportExact, FirstOfEach
    <2>8. QED
      BY <1>1, <2>3, <2>4, <2>5, <2>6, <2>7 DEF ScanInv
  <1>3. QED
    BY <1>1, <1>2, SetupScanInv, LoopScanInv, QuietScanInv, ProbeScanInv, InjectScanInv DEF Next

\* In every scan the two steps of a probe stay together, a confirmed injection
\* stops, excluded paths are never crawled, one check's failure settles no other
\* check, and only a path or a target that leads elsewhere aborts a validated
\* scan (engine.scan and the run of the six checks).
THEOREM ScanInvariance == Spec => []ScanInv
  <1>1. QED
    BY InitScanInv, NextScanInv, PTL DEF Spec

\* No hit the transcript shows is lost but by the failure of its own check (the
\* except clauses of scan's loop and findings.extend).
THEOREM HitsAreAccounted == Spec => []HitsAccounted
  <1>1. ScanInv => HitsAccounted
    BY DEF ScanInv, HitsPlaced, HitsAccounted
  <1>2. QED
    BY <1>1, ScanInvariance, PTL

\* What scan returns are its findings, each fingerprint once and as the first of
\* them has it (unique.setdefault).
THEOREM ReportIsExact == Spec => []ReportExact
  <1>1. ScanInv => ReportExact
    BY DEF ScanInv, Deduped
  <1>2. QED
    BY <1>1, ScanInvariance, PTL

\* No positive is lost: every response that satisfied the oracle of a check that
\* ran to its end is in what scan returns, whatever came after it.
THEOREM ScanIsConclusive == Spec => []Conclusive
  <1>1. ASSUME ScanInv PROVE Conclusive
    <2> SUFFICES ASSUME pc = "done", NEW k \in 1..Len(wire), wire[k].step \in Deciding,
                        status[wire[k].slot] = "ran", Fires(CheckOf(wire[k]), wire[k].resp)
                 PROVE  \E i \in 1..Len(report) : /\ report[i].check = CheckOf(wire[k])
                                                  /\ report[i].path = PathOf(wire[k])
      BY DEF Conclusive
    <2>1. local = <<>> /\ Concluded /\ FirstOfEach(Len(findings))
      BY <1>1 DEF ScanInv, ChecksInOrder, Deduped, ReportExact
    <2>2. PICK i \in 1..Len(findings) :
            findings[i].check = CheckOf(wire[k]) /\ findings[i].path = PathOf(wire[k])
      BY <2>1 DEF Concluded
    <2>3. fingerprint(findings[i]) \in Fingerprints(report)
      BY <2>1 DEF FirstOfEach
    <2>4. PICK j \in 1..Len(report) : fingerprint(report[j]) = fingerprint(findings[i])
      BY <2>3 DEF Fingerprints
    <2>5. QED
      BY <2>2, <2>4 DEF fingerprint
  <1>2. QED
    BY <1>1, ScanInvariance, PTL

------------------------------------------------------------------------------
\* Refinement.  Opens is when the contract is open, and Fails how it is broken off.
Opens == Phases \ {"validate"}
Fails == Ended \ {"done"}

\* What a step of a scan is to its caller: nothing, the verdict on the arguments,
\* progress, an exception, or the return of all that was found.
LEMMA StepKinds ==
  ASSUME ScanInv, [Next]_vars
  PROVE  \/ UNCHANGED <<pc, wire, findings, report>>
         \/ pc = "validate" /\ pc' \in Opens \cup Fails /\ UNCHANGED <<wire, findings, report>>
         \/ /\ pc \in Opens /\ Len(wire') \in {Len(wire), Len(wire) + 1}
            /\ \/ pc' \in Opens /\ Fingerprints(findings) \subseteq Fingerprints(findings')
               \/ pc' \in Fails /\ findings' = findings
         \/ /\ pc \in Opens /\ pc' = "done" /\ UNCHANGED <<wire, findings>>
            /\ Fingerprints(report') = Fingerprints(findings)
  <1>0. /\ local \in Seq(Finding) /\ findings \in Seq(Finding) /\ wire \in Seq(Exchange)
        /\ Len(wire) \in Nat /\ EInv /\ ScanInv' /\ slot \in Nat
    BY Shape, NextScanInv DEF ScanInv
  <1> USE DEF Opens, Fails, Phases, Ended
  <1>1. CASE Terminated \/ UNCHANGED vars
    BY <1>1 DEF Terminated, vars
  <1>2. CASE Validate
    BY <1>2 DEF Validate, output
  <1>3. CASE \/ Resolve \/ SpecNotGiven \/ SpecFile \/ SpecFetch \/ Crawl \/ Crawled
             \/ StaticIdentity \/ LoginRefused \/ Register \/ Login \/ Authenticated
    <2>1. /\ UNCHANGED findings
          /\ Len(wire') \in {Len(wire), Len(wire) + 1}
          /\ pc' \in Preparing \cup {"checks", "ScopeError", "KeyError", "ScanError", "HTTPError"}
      BY <1>3, SetupStep
    <2>2. pc \in Opens
      BY <1>3 DEF Resolve, SpecNotGiven, SpecFile, SpecFetch, Crawl, Crawled, StaticIdentity,
                  LoginRefused, Register, Login, Authenticated, Authenticating
    <2>3. pc' # "validate"
      <3>1. CASE Resolve \/ Crawl \/ Crawled
        BY <3>1 DEF Resolve, Crawl, Crawled
      <3>2. CASE SpecNotGiven \/ SpecFile \/ SpecFetch
        BY <3>2 DEF SpecNotGiven, SpecFile, SpecFetch, SpecUnusable
      <3>3. CASE LoginRefused
        BY <3>3 DEF LoginRefused, Gate, Destructive
      <3>4. CASE StaticIdentity \/ Register \/ Login \/ Authenticated
        BY <3>4 DEF StaticIdentity, Register, Login, Authenticated, Authenticating
      <3>5. QED
        BY <1>3, <3>1, <3>2, <3>3, <3>4
    <2>4. pc' \in Opens \cup Fails
      BY <2>1, <2>3 DEF Preparing
    <2>5. QED
      BY <2>1, <2>2, <2>4
  <1>4. CASE SkipCheck \/ StartCheck \/ ChecksDone \/ OutOfScope \/ BlockedMethod \/ CheckErrors \/ Dedup
    BY <1>0, <1>4 DEF SkipCheck, StartCheck, ChecksDone, OutOfScope, BlockedMethod, CheckErrors,
                      Dedup, NextCheck, Asking, output
  <1>5. CASE ReturnFindings
    <2>1. /\ pc = "run" /\ pc' = "checks" /\ wire' = wire /\ findings' = findings \o local
      BY <1>5 DEF ReturnFindings, NextCheck
    <2>2. \A i \in 1..Len(findings) : i \in 1..Len(findings') /\ findings'[i] = findings[i]
      BY <1>0, <2>1
    <2>3. Fingerprints(findings) \subseteq Fingerprints(findings')
      BY <2>2 DEF Fingerprints
    <2>4. QED
      BY <1>0, <2>1, <2>3
  <1>6. CASE Return
    <2>1. pc = "dedup" /\ pc' = "done" /\ UNCHANGED <<wire, findings, report>>
      BY <1>6 DEF Return, output
    <2>2. FirstOfEach(Len(findings))'
      BY <1>0, <2>1 DEF ScanInv, Deduped, ReportExact
    <2>3. Fingerprints(report') = Fingerprints(findings')
      BY <2>2 DEF FirstOfEach, Fingerprints
    <2>4. QED
      BY <2>1, <2>3
  <1>7. CASE PassBy \/ Begin \/ JwtNoForgery \/ JwtWeakSecret
    BY <1>7 DEF PassBy, Begin, JwtNoForgery, JwtWeakSecret, output
  <1>8. CASE \/ ExposureProbe \/ SqliInject \/ BolaCreate \/ BolaRead
             \/ MassCreate \/ MassConfirm \/ SsrfProbe \/ JwtAlgNone
    <2>1. PICK resp \in Responses : Ask(resp)
      BY <1>8 DEF ExposureProbe, SqliInject, BolaCreate, BolaRead, MassCreate, MassConfirm,
                  SsrfProbe, JwtAlgNone, Responses
    <2>2. pc = "run" /\ UNCHANGED <<pc, findings>> /\ Len(wire') = Len(wire) + 1
      BY <1>0, <2>1, AskedLast DEF Here
    <2>3. QED
      BY <2>2
  <1>9. QED
    BY <1>1, <1>2, <1>3, <1>4, <1>5, <1>6, <1>7, <1>8 DEF Next

\* A scan begins as the contract does, and each of its steps is one of the contract.
LEMMA InitContract == Init => Contract!Init
  <1> SUFFICES ASSUME Init PROVE Contract!Init
    OBVIOUS
  <1>1. pc = "validate" /\ findings = <<>> /\ wire = <<>>
    BY DEF Init
  <1>2. Fingerprints(findings) = {} /\ Len(wire) = 0
    BY <1>1 DEF Fingerprints
  <1>3. QED
    BY <1>1, <1>2 DEF Contract!Init, Ended

\* Every step of a scan is one of the contract, or none.
LEMMA StepContract ==
  ASSUME ScanInv, [Next]_vars
  PROVE  [Contract!Next]_(Contract!vars)
  <1> USE DEF Opens, Fails, Phases, Ended
  <1>1. CASE UNCHANGED <<pc, wire, findings, report>>
    BY <1>1 DEF Contract!vars
  <1>2. CASE pc = "validate" /\ pc' \in Opens \cup Fails /\ UNCHANGED <<wire, findings, report>>
    BY <1>2 DEF Contract!Next, Contract!Decide
  <1>3. CASE /\ pc \in Opens /\ Len(wire') \in {Len(wire), Len(wire) + 1}
             /\ pc' \in Opens /\ Fingerprints(findings) \subseteq Fingerprints(findings')
    BY <1>3 DEF Contract!Next, Contract!Progress
  <1>4. CASE /\ pc \in Opens /\ Len(wire') \in {Len(wire), Len(wire) + 1}
             /\ pc' \in Fails /\ findings' = findings
    <2>1. Fingerprints(findings') = Fingerprints(findings)
      BY <1>4
    <2>2. QED
      BY <1>4, <2>1 DEF Contract!Next, Contract!Raise
  <1>5. CASE /\ pc \in Opens /\ pc' = "done" /\ UNCHANGED <<wire, findings>>
             /\ Fingerprints(report') = Fingerprints(findings)
    BY <1>5 DEF Contract!Next, Contract!Close
  <1>6. QED
    BY <1>1, <1>2, <1>3, <1>4, <1>5, StepKinds

\* engine.scan keeps the contract its callers rely on: bad arguments are refused
\* before a request leaves, nothing found is taken back, an exception hands over
\* nothing, and what is returned is everything that was found.
THEOREM ScanKeepsContract == Spec => KeepsContract
  <1>1. QED
    BY InitContract, StepContract, ScanInvariance, PTL DEF Spec, KeepsContract, Contract!Spec
==============================================================================
