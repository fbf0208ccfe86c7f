----------------------------- MODULE Callers_proofs -----------------------------
(***************************************************************************)
(* What stands on engine.scan: heimdall replay and heimdall eval.  Both    *)
(* rest on the invariants of the scan, the first as they are once it has   *)
(* returned, the second at each of its steps.                              *)
(* Replay: whatever a scan reported and however its replay is called, the  *)
(* replay stays within what the scan was allowed and what its own flags    *)
(* allow, and its verdicts are about the answers it got.  A finding cites  *)
(* exchanges of the client, which were guarded and its oracle accepted.    *)
(* Benchmark: whatever is lost and whoever registers meanwhile, the second *)
(* scan of an evaluation is silent, and its status 0 is evidence.  The     *)
(* target keeps its table of users, and its hardened build answers no      *)
(* request of a check with what the oracle of that check accepts; the      *)
(* vulnerable one shows each check the bugs planted for it, so the first   *)
(* scan misses one only for an answer that was lost or a login refused.    *)
(***************************************************************************)
EXTENDS Replay, Benchmark, ScanEngine_proofs, FiniteSetTheorems, WellFoundedInduction

------------------------------------------------------------------------------
\* Replay.

\* A scan that returned makes no further step (Next).
LEMMA ScanIsOver ==
  ASSUME pc = "done", [Next]_vars
  PROVE  UNCHANGED vars
  BY DEF Next, Validate, Resolve, SpecNotGiven, SpecFile, SpecFetch, Crawl, Crawled,
         StaticIdentity, LoginRefused, Register, Login, Authenticated, Authenticating,
         SkipCheck, StartCheck, ReturnFindings, ChecksDone, PassBy, Begin, OutOfScope,
         BlockedMethod, CheckErrors, ExposureProbe, SqliInject, BolaCreate, BolaRead,
         MassCreate, MassConfirm, SsrfProbe, JwtWeakSecret, JwtNoForgery, JwtAlgNone,
         Dedup, Return, Terminated, Asking, Ask

\* The exchange a finding of the report cites went to a host of the scan's
\* scope; so did the create of an escalation (evidence_from and Finding.url).
LEMMA CitedInScope ==
  ASSUME EInv, NEW f \in Finding, Backed(f)
  PROVE  /\ FindingUrl(f).host \in Allow /\ FindingUrl(f).host \in Hosts
         /\ RequestUrl(f) \in Url /\ RequestMethod(f) \in RMethods
         /\ ~Offline(f) => Recorded(f).resp \in Responses
  <1>1. /\ job.target \in Url /\ job.target.host \in Allow /\ job.target.host \in Hosts
    BY JobTypes DEF EInv, IInv, TypeOK, Allow, from_targets, Url
  <1>2. /\ \A k \in 1..Len(wire) : wire[k] \in Exchange
        /\ \A k \in 1..Len(wire) : wire[k].step # "spec" => wire[k].host \in Allow
    BY DEF EInv, IInv, TypeOK, WireGuarded, Guarded
  <1>3. CASE Offline(f)
    <2>1. f.check # "mass_assignment"
      BY <1>3 DEF Backed, Offline
    <2>2. QED
      BY <1>1, <1>3, <2>1 DEF FindingUrl, RequestUrl, RequestMethod, RMethods
  <1>4. CASE ~Offline(f)
    <2>1. Cited(f)
      BY <1>4 DEF Backed, Offline
    <2>2. f.evidence[1] \in 1..Len(wire) /\ wire[f.evidence[1]].step # "spec"
      BY <2>1 DEF Cited, Deciding
    <2>3. /\ wire[f.evidence[1]].host \in Allow /\ wire[f.evidence[1]].host \in Hosts
          /\ wire[f.evidence[1]].method \in Methods /\ wire[f.evidence[1]].resp \in Responses
      BY <1>2, <2>2 DEF Exchange
    <2>4. f.check = "mass_assignment" =>
            wire[f.evidence[2]].host \in Allow /\ wire[f.evidence[2]].host \in Hosts
      <3>1. f.check = "mass_assignment" =>
              f.evidence[2] \in 1..Len(wire) /\ wire[f.evidence[2]].step # "spec"
        BY <2>1, <2>2 DEF Cited
      <3>2. QED
        BY <1>2, <3>1 DEF Exchange
    <2>5. QED
      BY <1>4, <2>3, <2>4 DEF FindingUrl, RequestUrl, RequestMethod, RMethods, Recorded, Url
  <1>5. QED
    BY <1>3, <1>4

\* So the scope of a replay is that of its scan, and what --scope names.
LEMMA ReplayScope ==
  ASSUME EInv
  PROVE  ReplayAllow \subseteq Allow \cup flags.scope_hosts
  <1>1. \A i \in 1..Len(report) : report[i] \in Finding /\ Backed(report[i])
    BY Collected DEF EInv, EvidenceBacked
  <1>2. \A i \in 1..Len(report) : FindingUrl(report[i]).host \in Allow
    BY <1>1, CitedInScope
  <1>3. \A h \in ReplayAllow :
          h \in flags.scope_hosts \/ \E i \in 1..Len(report) : h = FindingUrl(report[i]).host
    BY ZenonT(30) DEF ReplayAllow, from_targets
  <1>4. QED
    BY <1>2, <1>3

\* What a job puts in scope are hosts (Scope.from_targets).
LEMMA AllowedHosts ==
  ASSUME EInv
  PROVE  Allow \subseteq Hosts
  <1>1. job.target \in Url /\ job.scope_hosts \subseteq Url
    BY EngineAssumption DEF EInv, IInv, TypeOK, Job
  <1>2. \A t \in {job.target} \cup job.scope_hosts : t.host \in Hosts
    BY <1>1 DEF Url
  <1>3. \A h \in Allow : \E t \in {job.target} \cup job.scope_hosts : h = t.host
    BY ZenonT(30) DEF Allow, from_targets
  <1>4. QED
    BY <1>2, <1>3

\* What has a verdict is a finding of the report, and its evidence is the wire's.
LEMMA ListedIsBacked ==
  ASSUME RInv, NEW i \in 1..Len(verdicts)
  PROVE  report[i] \in Finding /\ Backed(report[i])
  <1>1. i \in 1..Len(report)
    BY Collected DEF RInv, InOrder, RTypeOK, EInv
  <1>2. QED
    BY <1>1, Collected DEF RInv, EInv, EvidenceBacked

\* A verdict that was right stays right while the report and the transcript do.
LEMMA JudgedStays ==
  ASSUME Judged, report' = report, wire' = wire,
         \A k \in 1..Len(again') :
           again'[k].finding <= Len(verdicts') =>
             /\ k \in 1..Len(again) /\ again'[k] = again[k] /\ again[k].finding <= Len(verdicts)
             /\ verdicts'[again[k].finding] = verdicts[again[k].finding]
  PROVE  Judged'
  <1> SUFFICES ASSUME NEW k \in 1..Len(again'), again'[k].finding <= Len(verdicts')
               PROVE  LET x == again'[k]  f == report[x.finding] IN
                      /\ verdicts'[x.finding] \in Judgements(f, x.resp)
                      /\ x.method = RequestMethod(f)
                      /\ x.changed \/ Offline(f) \/ Stripped(f) \/ x.resp = Recorded(f).resp
    BY DEF Judged, RequestMethod, Stripped, Recorded, Offline
  <1>1. /\ k \in 1..Len(again) /\ again'[k] = again[k] /\ again[k].finding <= Len(verdicts)
        /\ verdicts'[again[k].finding] = verdicts[again[k].finding]
    OBVIOUS
  <1>2. QED
    BY <1>1 DEF Judged

\* What a verdict is about stays what it was while the report and the wire do.
LEMMA OrderStays ==
  ASSUME InOrder, Judged, UNCHANGED <<report, wire, verdicts, again>>, Len(verdicts) \in Nat,
         phase' \in {"waiting", "validate"} => phase \in {"waiting", "validate"},
         phase' = "done" => Len(verdicts) = Len(report), phase # "HTTPError"
  PROVE  InOrder' /\ Judged'
  <1>1. InOrder'
    <2>1. \A k \in 1..Len(again) :
            again[k].finding \in 1..(Len(verdicts) + (IF phase' = "HTTPError" THEN 1 ELSE 0))
      BY DEF InOrder
    <2>2. QED
      BY <2>1 DEF InOrder
  <1>2. Judged'
    BY DEF Judged, RequestMethod, Offline, Stripped, Recorded
  <1>3. QED
    BY <1>1, <1>2

\* A replay begins with the invariant.
LEMMA InitRInv == RInit => RInv
  <1> SUFFICES ASSUME RInit PROVE RInv
    OBVIOUS
  <1>1. EInv
    BY InitEInv DEF RInit
  <1>2. RTypeOK
    <2>1. flags \in ReplayFlags /\ phase \in RPhases /\ changed \in BOOLEAN
      BY DEF RInit, RPhases
    <2>2. verdicts \in Seq(Verdicts) /\ again \in Seq(Resent)
      BY DEF RInit
    <2>3. QED
      BY <2>1, <2>2 DEF RTypeOK
  <1>3. ReplayOpened /\ ReplayGuarded /\ Judged
    BY DEF RInit, ReplayOpened, ReplayGuarded, Judged
  <1>5. InOrder
    <2>1. Len(report) \in Nat
      BY <1>1, Collected DEF EInv
    <2>2. QED
      BY <2>1 DEF RInit, InOrder
  <1>4. QED
    BY <1>1, <1>2, <1>3, <1>5 DEF RInv

\* A step of the scan leaves the replay alone, which has not begun.
LEMMA ScanStepRInv ==
  ASSUME RInv, [Next]_vars, UNCHANGED rvars
  PROVE  RInv'
  <1>1. EInv'
    BY NextEInv DEF RInv
  <1>2. UNCHANGED <<flags, phase, changed, verdicts, again>>
    BY DEF rvars
  <1>3. job' = job
    BY DEF Next, vars, Validate, Resolve, SpecNotGiven, SpecFile, SpecFetch, Crawl, Crawled,
         StaticIdentity, LoginRefused, Register, Login, Authenticated,
         SkipCheck, StartCheck, ReturnFindings, ChecksDone, PassBy, Begin, OutOfScope,
         BlockedMethod, CheckErrors, ExposureProbe, SqliInject, BolaCreate, BolaRead,
         MassCreate, MassConfirm, SsrfProbe, JwtWeakSecret, JwtNoForgery, JwtAlgNone,
         Dedup, Return, Terminated, Ask, NextCheck, setup
  <1>4. RTypeOK' /\ ReplayGuarded'
    BY <1>2, <1>3 DEF RInv, RTypeOK, ReplayGuarded, Allow
  <1>5. ReplayOpened'
    <2>1. CASE phase = "waiting"
      BY <1>2, <2>1 DEF ReplayOpened
    <2>2. CASE phase # "waiting"
      <3>1. UNCHANGED vars
        BY <2>2, ScanIsOver DEF RInv, ReplayOpened
      <3>2. ReplayAllow' = ReplayAllow
        BY <1>2, <3>1 DEF vars, ReplayAllow, FindingUrl, RequestUrl, Recorded, Offline
      <3>3. QED
        BY <1>2, <3>1, <3>2 DEF RInv, ReplayOpened, vars
    <2>3. QED
      BY <2>1, <2>2
  <1>6. InOrder' /\ Judged'
    <2>1. CASE phase = "waiting"
      <3>1. verdicts' = <<>> /\ again' = <<>> /\ phase' = "waiting"
        BY <1>2, <2>1 DEF RInv, InOrder
      <3>2. Len(report') \in Nat
        BY <1>1, Collected, NextIInv DEF EInv, IInv, TypeOK
      <3>3. QED
        BY <3>1, <3>2 DEF InOrder, Judged
    <2>2. CASE phase # "waiting"
      <3>1. UNCHANGED <<report, wire>>
        BY <2>2, ScanIsOver DEF RInv, ReplayOpened, vars
      <3>2. UNCHANGED <<phase, verdicts, again>>
        BY <1>2
      <3>3. InOrder'
        BY <3>1, <3>2 DEF RInv, InOrder
      <3>4. Judged'
        BY <3>1, <3>2 DEF RInv, Judged, RequestMethod, Offline, Stripped, Recorded
      <3>5. QED
        BY <3>3, <3>4
    <2>3. QED
      BY <2>1, <2>2
  <1>7. QED
    BY <1>1, <1>4, <1>5, <1>6 DEF RInv

\* A step of the replay that sends nothing.
LEMMA SilentStepRInv ==
  ASSUME RInv, \/ TargetChanges \/ LoadReport \/ ReplayValidate
               \/ ReplayOutOfScope \/ ReplayBlocked \/ Replayed
  PROVE  RInv'
  <1>1. UNCHANGED vars /\ UNCHANGED <<flags, again>>
    BY DEF TargetChanges, LoadReport, ReplayValidate, ReplayOutOfScope, ReplayBlocked, Replayed
  <1>2. EInv'
    BY <1>1, NextEInv DEF RInv
  <1>3. UNCHANGED <<job, pc, report, wire>>
    BY <1>1 DEF vars
  <1>4. ReplayGuarded'
    BY <1>1, <1>3 DEF RInv, ReplayGuarded, Allow
  <1>5. RTypeOK'
    <2>1. phase' \in RPhases
      BY DEF RInv, RTypeOK, RPhases, TargetChanges, LoadReport, ReplayValidate,
             ReplayOutOfScope, ReplayBlocked, Replayed
    <2>2. changed' \in BOOLEAN
      BY DEF RInv, RTypeOK, TargetChanges, LoadReport, ReplayValidate,
             ReplayOutOfScope, ReplayBlocked, Replayed
    <2>3. verdicts' = verdicts \/ verdicts' = Append(verdicts, "BLOCKED")
      BY DEF TargetChanges, LoadReport, ReplayValidate, ReplayOutOfScope, ReplayBlocked, Replayed
    <2>4. verdicts' \in Seq(Verdicts)
      <3>1. "BLOCKED" \in Verdicts
        BY DEF Verdicts
      <3>2. QED
        BY <2>3, <3>1, AppendSeq DEF RInv, RTypeOK
    <2>5. QED
      BY <1>1, <2>1, <2>2, <2>4 DEF RInv, RTypeOK
  <1>6. ReplayAllow' = ReplayAllow
    BY <1>1, <1>3 DEF ReplayAllow, FindingUrl, RequestUrl, Recorded, Offline
  <1>7. ReplayOpened'
    <2>1. phase' # "waiting" => pc = "done"
      BY DEF RInv, ReplayOpened, TargetChanges, LoadReport, ReplayValidate,
             ReplayOutOfScope, ReplayBlocked, Replayed, Replaying
    <2>2. phase' = "replaying" => phase = "replaying" \/ validate(ReplayAllow, flags.allow_public)
      BY DEF TargetChanges, LoadReport, ReplayValidate, ReplayOutOfScope, ReplayBlocked, Replayed
    <2>3. QED
      BY <1>1, <1>3, <1>6, <2>1, <2>2 DEF RInv, ReplayOpened
  <1>8. InOrder' /\ Judged'
    <2>1. verdicts \in Seq(Verdicts) /\ again \in Seq(Resent) /\ Len(report) \in Nat
      BY Collected DEF RInv, RTypeOK, EInv
    <2>2. CASE ReplayBlocked
      <3>1. /\ verdicts' = Append(verdicts, "BLOCKED") /\ again' = again /\ phase' = phase
            /\ phase = "replaying" /\ Len(verdicts) + 1 <= Len(report)
        BY <2>2 DEF ReplayBlocked, Replaying, Current
      <3>2. /\ Len(verdicts') = Len(verdicts) + 1 /\ Len(verdicts) \in Nat
            /\ \A i \in 1..Len(verdicts) : verdicts'[i] = verdicts[i]
            /\ verdicts'[Len(verdicts) + 1] = "BLOCKED"
        BY <2>1, <3>1
      <3>3. \A k \in 1..Len(again) : again[k].finding \in 1..Len(verdicts)
        BY <2>1, <3>1, <3>2 DEF RInv, InOrder
      <3>4. InOrder'
        BY <1>3, <3>1, <3>2, <3>3 DEF RInv, InOrder
      <3>5. \A k \in 1..Len(again) : verdicts'[again[k].finding] = verdicts[again[k].finding]
        BY <3>2, <3>3
      <3>6. Judged'
        BY <1>3, <3>1, <3>2, <3>3, <3>5, JudgedStays DEF RInv
      <3>7. QED
        BY <3>4, <3>6
    <2>3. CASE TargetChanges \/ LoadReport \/ ReplayValidate \/ ReplayOutOfScope
      <3>1. /\ UNCHANGED <<report, wire, verdicts, again>> /\ phase # "HTTPError"
            /\ phase' \in {"waiting", "validate"} => phase \in {"waiting", "validate"}
            /\ phase' # "done"
        BY <1>1, <1>3, <2>3 DEF TargetChanges, LoadReport, ReplayValidate, ReplayOutOfScope, Replaying
      <3>2. QED
        BY <2>1, <3>1, OrderStays DEF RInv
    <2>4. CASE Replayed
      <3>1. /\ UNCHANGED <<report, wire, verdicts, again>> /\ phase = "replaying" /\ phase' = "done"
            /\ ~(Len(verdicts) + 1 <= Len(report))
        BY <1>3, <2>1, <2>4 DEF Replayed, Current
      <3>2. Len(verdicts) = Len(report)
        BY <2>1, <3>1 DEF RInv, InOrder
      <3>3. QED
        BY <2>1, <3>1, <3>2, OrderStays DEF RInv
    <2>5. QED
      BY <2>2, <2>3, <2>4
  <1>9. QED
    BY <1>2, <1>4, <1>5, <1>7, <1>8 DEF RInv

\* The step that sends a finding's evidence request again (Check.replay).
LEMMA ReplayFindingRInv ==
  ASSUME RInv, ReplayFinding
  PROVE  RInv'
  <1> DEFINE f == report[Current]
  <1>1. UNCHANGED vars /\ UNCHANGED <<flags, changed>> /\ phase = "replaying"
        /\ Current <= Len(report) /\ Current \in Nat
        /\ check(ReplayAllow, RequestUrl(f)) /\ (RequestMethod(f) \in Destructive => flags.unsafe)
    BY DEF ReplayFinding, Replaying, InReplayScope, Destroys, RInv, RTypeOK, Current
  <1>2. EInv' /\ EInv
    BY <1>1, NextEInv DEF RInv
  <1>3. UNCHANGED <<job, pc, report, wire>>
    BY <1>1 DEF vars
  <1>4. f \in Finding /\ Backed(f)
    <2>1. Current \in 1..Len(report)
      BY <1>1, <1>2, Collected DEF EInv, Current, RInv, RTypeOK
    <2>2. QED
      BY <1>2, <2>1, Collected DEF EInv, EvidenceBacked
  <1>5. /\ RequestUrl(f) \in Url /\ RequestMethod(f) \in RMethods
        /\ ~Offline(f) => Recorded(f).resp \in Responses
    BY <1>2, <1>4, CitedInScope
  <1>6. /\ RequestUrl(f).host \in Hosts /\ RequestUrl(f).host \in Allow \cup flags.scope_hosts
        /\ RequestUrl(f).host \in Private \/ flags.allow_public
    <2>1. RequestUrl(f).host \in ReplayAllow /\ RequestUrl(f).host \in Hosts
      <3>1. flags.scope_hosts \subseteq Hosts
        BY ReplayAssumption DEF RInv, RTypeOK, RFlags
      <3>2. ReplayAllow \subseteq Hosts
        BY <1>2, <3>1, ReplayScope, AllowedHosts
      <3>3. QED
        BY <1>1, <1>5, <3>2, ScopeAssumption DEF check, hostname, Url
    <2>2. validate(ReplayAllow, flags.allow_public)
      BY <1>1 DEF RInv, ReplayOpened
    <2>3. QED
      BY <1>2, <2>1, <2>2, ReplayScope DEF validate
  <1>7. PICK resp \in Answers(f) :
          /\ again' = Append(again, [finding |-> Current, host |-> RequestUrl(f).host,
                       method |-> RequestMethod(f), resp |-> resp, changed |-> changed])
          /\ \/ phase' = "HTTPError" /\ UNCHANGED verdicts
             \/ /\ phase' = phase /\ resp # "lost"
                /\ \E v \in Judgements(f, resp) : verdicts' = Append(verdicts, v)
    BY DEF ReplayFinding
  <1>8. resp \in Responses
    BY <1>5, <1>7 DEF Answers, Responses
  <1>9. Judgements(f, resp) \subseteq Verdicts \ {"BLOCKED"}
    BY DEF Judgements, Verdicts
  <1> DEFINE x == [finding |-> Current, host |-> RequestUrl(f).host,
                   method |-> RequestMethod(f), resp |-> resp, changed |-> changed]
  <1>10. x \in Resent
    BY <1>1, <1>5, <1>6, <1>8 DEF Resent, RInv, RTypeOK
  <1>11. /\ x.host \in Allow \cup flags.scope_hosts
         /\ x.host \in Private \/ flags.allow_public
         /\ x.method \in Destructive => flags.unsafe
    BY <1>1, <1>6
  <1>17. /\ x.finding = Current /\ x.method = RequestMethod(f) /\ x.resp = resp
         /\ resp # "lost" => x.changed \/ Offline(f) \/ Stripped(f) \/ x.resp = Recorded(f).resp
    BY <1>7 DEF Answers
  <1>12. again' = Append(again, x)
    BY <1>7
  <1> HIDE DEF x
  <1>13. RTypeOK'
    <2>1. again' \in Seq(Resent)
      BY <1>10, <1>12 DEF RInv, RTypeOK
    <2>2. verdicts' = verdicts \/ \E v \in Verdicts : verdicts' = Append(verdicts, v)
      BY <1>7, <1>9
    <2>3. verdicts' \in Seq(Verdicts)
      BY <2>2, AppendSeq DEF RInv, RTypeOK
    <2>4. phase' \in RPhases
      BY <1>7 DEF RInv, RTypeOK, RPhases
    <2>5. QED
      BY <1>1, <2>1, <2>3, <2>4 DEF RInv, RTypeOK
  <1>14. ReplayGuarded'
    <2>1. Allow' = Allow
      BY <1>3 DEF Allow
    <2>2. \A k \in 1..Len(again') : again'[k] = x \/ (k \in 1..Len(again) /\ again'[k] = again[k])
      BY <1>10, <1>12 DEF RInv, RTypeOK
    <2>3. QED
      BY <1>1, <1>11, <2>1, <2>2 DEF RInv, ReplayGuarded
  <1>15. ReplayOpened'
    <2>1. ReplayAllow' = ReplayAllow
      BY <1>1, <1>3 DEF ReplayAllow, FindingUrl, RequestUrl, Recorded, Offline
    <2>2. QED
      BY <1>1, <1>3, <2>1 DEF RInv, ReplayOpened
  <1>18. /\ verdicts \in Seq(Verdicts) /\ again \in Seq(Resent) /\ Len(verdicts) \in Nat
         /\ Len(again') = Len(again) + 1 /\ again'[Len(again) + 1] = x
         /\ \A k \in 1..Len(again) : again'[k] = again[k] /\ again[k].finding \in 1..Len(verdicts)
    BY <1>1, <1>10, <1>12 DEF RInv, RTypeOK, InOrder
  <1>21. Len(again) \in Nat /\ \A k \in 1..Len(again') : k \in 1..Len(again) \/ k = Len(again) + 1
    BY <1>18
  <1>22. ASSUME NEW j \in 1..Len(again'), NEW k \in 1..Len(again'), j < k
         PROVE  again'[j].finding < again'[k].finding
    <2>1. \A m, n \in 1..Len(again) : m < n => again[m].finding < again[n].finding
      BY DEF RInv, InOrder
    <2>2. j \in 1..Len(again)
      BY <1>21, <1>22
    <2>3. CASE k \in 1..Len(again)
      BY <1>18, <1>22, <2>1, <2>2, <2>3
    <2>4. CASE k = Len(again) + 1
      <3>1. again'[k].finding = Len(verdicts) + 1 /\ again'[j].finding \in 1..Len(verdicts)
        BY <1>17, <1>18, <2>2, <2>4 DEF Current
      <3>2. QED
        BY <1>18, <3>1
    <2>5. QED
      BY <1>21, <1>22, <2>3, <2>4
  <1>19. CASE phase' = "HTTPError" /\ UNCHANGED verdicts
    <2>1. \A i \in 1..Len(verdicts) :
            (\E k \in 1..Len(again') : again'[k].finding = i)
              <=> \E k \in 1..Len(again) : again[k].finding = i
      BY <1>17, <1>18, <1>21 DEF Current
    <2>2. InOrder'
      <3>1. \A k \in 1..Len(again') : again'[k].finding \in 1..(Len(verdicts) + 1)
        BY SMTT(30), <1>17, <1>18, <1>21 DEF Current
      <3>2. /\ Len(verdicts) <= Len(report)
            /\ \A i \in 1..Len(verdicts) :
                 verdicts[i] # "BLOCKED" <=> \E k \in 1..Len(again') : again'[k].finding = i
        BY <2>1 DEF RInv, InOrder
      <3>3. QED
        BY <1>3, <1>19, <1>22, <3>1, <3>2 DEF InOrder
    <2>3. Judged'
      <3>1. \A k \in 1..Len(again') : again'[k].finding <= Len(verdicts) => k \in 1..Len(again)
        BY <1>17, <1>18, <1>21 DEF Current
      <3>2. QED
        BY <1>3, <1>18, <1>19, <3>1, JudgedStays DEF RInv
    <2>4. QED
      BY <1>2, <1>13, <1>14, <1>15, <2>2, <2>3 DEF RInv
  <1>20. CASE phase' = phase /\ resp # "lost" /\ \E v \in Judgements(f, resp) : verdicts' = Append(verdicts, v)
    <2>1. PICK v \in Judgements(f, resp) : verdicts' = Append(verdicts, v)
      BY <1>20
    <2>2. /\ v \in Verdicts /\ v # "BLOCKED"
          /\ Len(verdicts') = Current /\ verdicts'[Current] = v
          /\ \A i \in 1..Len(verdicts) : verdicts'[i] = verdicts[i]
      BY <1>9, <1>18, <2>1 DEF Current
    <2>3. \A i \in 1..Len(verdicts') :
            verdicts'[i] # "BLOCKED" <=> \E k \in 1..Len(again') : again'[k].finding = i
      <3>1. \A i \in 1..Len(verdicts) :
              (\E k \in 1..Len(again') : again'[k].finding = i)
                <=> \E k \in 1..Len(again) : again[k].finding = i
        BY <1>17, <1>18, <1>21 DEF Current
      <3>2. \E k \in 1..Len(again') : again'[k].finding = Current
        BY <1>17, <1>18, <1>21
      <3>3. \A i \in 1..Len(verdicts) :
              verdicts[i] # "BLOCKED" <=> \E k \in 1..Len(again) : again[k].finding = i
        BY DEF RInv, InOrder
      <3>4. \A i \in 1..Len(verdicts') : i \in 1..Len(verdicts) \/ i = Current
        BY <1>18, <2>2 DEF Current
      <3>5. QED
        BY <2>2, <3>1, <3>2, <3>3, <3>4
    <2>4. InOrder'
      <3>1. \A k \in 1..Len(again') : again'[k].finding \in 1..Len(verdicts')
        BY <1>17, <1>18, <1>21, <2>2 DEF Current
      <3>2. phase' = "replaying" /\ Len(verdicts') <= Len(report')
        BY <1>1, <1>3, <1>20, <2>2
      <3>3. QED
        BY <1>22, <2>3, <3>1, <3>2 DEF InOrder
    <2>5. Judged'
      <3>1. \A k \in 1..Len(again) : verdicts'[again[k].finding] = verdicts[again[k].finding]
        BY <1>18, <2>2
      <3>2. SUFFICES ASSUME NEW k \in 1..Len(again')
                     PROVE  LET y == again'[k]  g == report[y.finding] IN
                              /\ verdicts'[y.finding] \in Judgements(g, y.resp)
                              /\ y.method = RequestMethod(g)
                              /\ y.changed \/ Offline(g) \/ Stripped(g) \/ y.resp = Recorded(g).resp
        BY <1>3 DEF Judged, RequestMethod, Offline, Stripped, Recorded
      <3>3. CASE k \in 1..Len(again)
        BY <1>18, <3>1, <3>3 DEF RInv, Judged
      <3>4. CASE k = Len(again) + 1
        BY <1>17, <1>18, <1>20, <2>1, <2>2, <3>4
      <3>5. QED
        BY <1>21, <3>3, <3>4
    <2>6. QED
      BY <1>2, <1>13, <1>14, <1>15, <2>4, <2>5 DEF RInv
  <1>16. QED
    BY <1>7, <1>19, <1>20

\* Every step of a replay keeps its invariant.
LEMMA NextRInv == RInv /\ [RNext]_<<vars, rvars>> => RInv'
  <1> SUFFICES ASSUME RInv, [RNext]_<<vars, rvars>> PROVE RInv'
    OBVIOUS
  <1>1. CASE [Next]_vars /\ UNCHANGED rvars
    BY <1>1, ScanStepRInv
  <1>2. QED
    BY <1>1, SilentStepRInv, ReplayFindingRInv DEF RNext

\* So a replay keeps its invariant, however the target answers.
THEOREM ReplayInvariance == RSpec => []RInv
  <1>1. QED
    BY InitRInv, NextRInv, PTL DEF RSpec

\* The state of a replay is well typed for every report and command line: every
\* verdict and every exchange (RTypeOK).
THEOREM ReplayTypeCorrect == RSpec => []RTypeOK
  <1>1. RInv => RTypeOK
    BY DEF RInv
  <1>2. QED
    BY <1>1, ReplayInvariance, PTL

\* Whatever the scan found, no replay of its report reaches a host the scan was
\* not allowed to reach and --scope does not name, a public host without its own
\* --i-understand, or a destructive method without its own --unsafe (replay).
THEOREM ReplayIsGuarded == RSpec => []ReplayGuarded
  <1>1. RInv => ReplayGuarded
    BY DEF RInv
  <1>2. QED
    BY <1>1, ReplayInvariance, PTL

\* CONFIRMED is only said of an answer the oracle accepts, and NOT REPRODUCED of
\* one it accepts only for ssrf (Check.replay and the oracles).
LEMMA WhatIsSaid ==
  ASSUME NEW f, NEW resp
  PROVE  /\ "CONFIRMED" \in Judgements(f, resp) => f.check # "jwt" /\ Fires(f.check, resp)
         /\ "NOT REPRODUCED" \in Judgements(f, resp) =>
              f.check # "jwt" /\ (f.check = "ssrf" \/ ~Fires(f.check, resp))
  BY DEF Judgements

\* An exchange of the replay is about a finding that has a verdict, or the next.
LEMMA ReplayedInRange ==
  ASSUME RInv, NEW k \in 1..Len(again)
  PROVE  /\ Len(verdicts) \in Nat /\ again[k].finding \in Nat /\ again[k].finding # 0
         /\ again[k].finding <= Len(verdicts) => again[k].finding \in 1..Len(verdicts)
  <1>1. Len(verdicts) \in Nat
    BY DEF RInv, RTypeOK
  <1>2. again[k].finding \in 1..(Len(verdicts) + (IF phase = "HTTPError" THEN 1 ELSE 0))
    BY DEF RInv, InOrder
  <1>3. QED
    BY <1>1, <1>2

\* Whatever the target answers, CONFIRMED is only said of a finding whose oracle
\* accepted an answer that came during the replay, to the method that was
\* recorded (Check.replay).
THEOREM ConfirmedIsFresh == RSpec => []ConfirmedAnew
  <1>1. RInv => ConfirmedAnew
    <2> SUFFICES ASSUME RInv, NEW i \in 1..Len(verdicts), verdicts[i] = "CONFIRMED"
                 PROVE  \E k \in 1..Len(again) :
                          /\ again[k].finding = i /\ Fires(report[i].check, again[k].resp)
                          /\ again[k].method = Recorded(report[i]).method
      BY DEF ConfirmedAnew
    <2>1. PICK k \in 1..Len(again) : again[k].finding = i
      BY DEF RInv, InOrder
    <2>2. "CONFIRMED" \in Judgements(report[i], again[k].resp)
          /\ again[k].method = RequestMethod(report[i])
      <3>1. i <= Len(verdicts)
        BY DEF RInv, RTypeOK
      <3>2. QED
        BY <2>1, <3>1 DEF RInv, Judged
    <2>3. report[i].check # "jwt" /\ Fires(report[i].check, again[k].resp)
      BY <2>2, WhatIsSaid
    <2>4. ~Offline(report[i])
      BY <2>3, ListedIsBacked DEF Backed, Offline
    <2>5. QED
      BY <2>1, <2>2, <2>3, <2>4 DEF RequestMethod
  <1>2. QED
    BY <1>1, ReplayInvariance, PTL

\* A target that did not change is never said not to reproduce a finding, unless
\* its credentials are gone from the report or ssrf found it by a hint (replay).
THEOREM QuietIsChange == RSpec => []QuietMeansChanged
  <1>1. RInv => QuietMeansChanged
    <2> SUFFICES ASSUME RInv, NEW k \in 1..Len(again), ~again[k].changed,
                        again[k].finding <= Len(verdicts),
                        verdicts[again[k].finding] = "NOT REPRODUCED"
                 PROVE  \/ Stripped(report[again[k].finding])
                        \/ report[again[k].finding].check = "ssrf"
      BY DEF QuietMeansChanged
    <2> DEFINE f == report[again[k].finding]
    <2>1. /\ "NOT REPRODUCED" \in Judgements(f, again[k].resp)
          /\ Offline(f) \/ Stripped(f) \/ again[k].resp = Recorded(f).resp
      BY DEF RInv, Judged
    <2>2. again[k].finding \in 1..Len(verdicts)
      BY ReplayedInRange
    <2>3. Backed(f)
      BY <2>2, ListedIsBacked
    <2>4. f.check # "jwt" /\ (f.check = "ssrf" \/ ~Fires(f.check, again[k].resp))
      BY <2>1, WhatIsSaid
    <2>5. ~Offline(f) /\ Fires(f.check, Recorded(f).resp)
      BY <2>3, <2>4 DEF Backed, Offline, Cited, Recorded
    <2>6. QED
      BY <2>1, <2>4, <2>5
  <1>2. QED
    BY <1>1, ReplayInvariance, PTL

\* A replay that ends normally has said one thing of every finding, and has sent
\* the request of each of those it did not block, once and in order (replay).
THEOREM NoneIsSkipped == RSpec => []EveryFindingOnce
  <1>1. RInv => EveryFindingOnce
    BY DEF RInv, InOrder, EveryFindingOnce
  <1>2. QED
    BY <1>1, ReplayInvariance, PTL

------------------------------------------------------------------------------
\* The target.

\* A step of the target, by the scanner or by a visitor.
AppStep ==
  \/ \E b \in Builds, c \in Clients, n \in Accounts : RegisterTest(b, c, n)
  \/ \E b \in Builds, c \in Clients : RegisterInsert(b, c, FALSE)
  \/ \E b \in Builds : \E as \in Accounts \cup {Nobody, Forged} : as # Forged /\ CreateNote(b, as)
  \/ \E b \in Builds : RegisterFresh(b, Scanner, Fresh, TRUE)
  \/ UNCHANGED app
AppInv == AppTypeOK /\ NamesHeld /\ VisitorsLogged

\* What a step of the target adds to its table and to its log.
LEMMA TestIs ==
  ASSUME AppTypeOK, NEW b \in Builds, NEW c \in Clients, NEW n \in Accounts, RegisterTest(b, c, n)
  PROVE  /\ AppTypeOK' /\ users' = users /\ note' = note
         /\ calls[b][c] = NoCall /\ calls'[b][c] = n /\ n # NoCall /\ n \notin DOMAIN users[b]
         /\ \A d \in Clients \ {c} : calls'[b][d] = calls[b][d]
         /\ \A a \in Builds \ {b} : calls'[a] = calls[a] /\ log'[a] = log[a]
         /\ log'[b] = Append(log[b], [do |-> "test", client |-> c, name |-> n])
         /\ [do |-> "test", client |-> c, name |-> n] \in Registration
<1>1. [do |-> "test", client |-> c, name |-> n] \in Registration
  BY DEF Registration
<1>2. /\ calls \in [Builds -> [Clients -> Accounts \cup {NoCall}]]
      /\ log \in [Builds -> Seq(Registration)]
  BY DEF AppTypeOK
<1>3. /\ calls' = [calls EXCEPT ![b][c] = n]
      /\ log' = [log EXCEPT ![b] = Append(@, [do |-> "test", client |-> c, name |-> n])]
      /\ users' = users /\ note' = note /\ calls[b][c] = NoCall /\ n \notin DOMAIN users[b]
  BY DEF RegisterTest, Logged
<1>4. Append(log[b], [do |-> "test", client |-> c, name |-> n]) \in Seq(Registration)
  BY <1>1, <1>2, AppendSeq
<1>5. log' \in [Builds -> Seq(Registration)]
  BY <1>2, <1>3, <1>4
<1>6. calls' \in [Builds -> [Clients -> Accounts \cup {NoCall}]]
  BY <1>2, <1>3
<1>7. AppTypeOK'
  BY <1>3, <1>5, <1>6 DEF AppTypeOK
<1> QED BY <1>1, <1>2, <1>3, <1>7, AppAssumption

\* What one row in the table of an app changes.
LEMMA InsertIs ==
  ASSUME AppTypeOK, NEW b \in Builds, NEW c \in Clients, RegisterInsert(b, c, FALSE)
  PROVE  LET n == calls[b][c] IN
         /\ AppTypeOK' /\ note' = note /\ n \in Accounts
         /\ calls[b][c] # NoCall /\ calls'[b][c] = NoCall
         /\ \A d \in Clients \ {c} : calls'[b][d] = calls[b][d]
         /\ \A a \in Builds \ {b} : calls'[a] = calls[a] /\ log'[a] = log[a] /\ users'[a] = users[a]
         /\ log'[b] = Append(log[b], [do |-> "insert", client |-> c, name |-> n])
         /\ [do |-> "insert", client |-> c, name |-> n] \in Registration
         /\ DOMAIN users'[b] = DOMAIN users[b] \cup {n} /\ users'[b][n].by = c
         /\ \A m \in DOMAIN users[b] \ {n} : users'[b][m] = users[b][m]
<1> DEFINE n == calls[b][c]
           x == [do |-> "insert", client |-> c, name |-> n]
           u == [by |-> c, admin |-> Bound(b, FALSE)]
<1>1. /\ calls \in [Builds -> [Clients -> Accounts \cup {NoCall}]]
      /\ log \in [Builds -> Seq(Registration)]
  BY DEF AppTypeOK
<1>2. /\ n # NoCall /\ calls' = [calls EXCEPT ![b][c] = NoCall]
      /\ log' = [log EXCEPT ![b] = Append(@, x)]
      /\ users' = [users EXCEPT ![b] = [m \in DOMAIN @ \cup {n} |-> IF m = n THEN u ELSE @[m]]]
      /\ note' = note
  BY DEF RegisterInsert, Logged
<1>3. n \in Accounts
  BY <1>1, <1>2
<1>4. x \in Registration /\ x.client = c /\ u \in User /\ u.by = c
  BY <1>3 DEF Registration, User, Bound
<1>5. Append(log[b], x) \in Seq(Registration)
  BY <1>1, <1>4, AppendSeq
<1> HIDE DEF n, x, u
<1>6. log' \in [Builds -> Seq(Registration)] /\ log'[b] = Append(log[b], x)
      /\ \A a \in Builds \ {b} : log'[a] = log[a]
  BY <1>1, <1>2, <1>5
<1>7. calls' \in [Builds -> [Clients -> Accounts \cup {NoCall}]]
  BY <1>1, <1>2
<1>8. /\ DOMAIN users' = Builds /\ DOMAIN users'[b] = DOMAIN users[b] \cup {n}
      /\ \A a \in Builds \ {b} : users'[a] = users[a]
      /\ users'[b][n] = u /\ \A m \in DOMAIN users[b] \ {n} : users'[b][m] = users[b][m]
  BY <1>2 DEF AppTypeOK
<1>9. AppTypeOK'
  BY <1>2, <1>3, <1>4, <1>6, <1>7, <1>8 DEF AppTypeOK
<1> QED BY <1>1, <1>2, <1>3, <1>4, <1>6, <1>8, <1>9 DEF n, x

\* What a registration of a fresh account changes.
LEMMA FreshIs ==
  ASSUME AppTypeOK, NEW b \in Builds, RegisterFresh(b, Scanner, Fresh, TRUE)
  PROVE  /\ AppTypeOK' /\ note' = note /\ calls' = calls /\ log' = log
         /\ \A a \in Builds \ {b} : users'[a] = users[a]
         /\ DOMAIN users'[b] = DOMAIN users[b] \cup {Fresh} /\ users'[b][Fresh].by = Scanner
         /\ users'[b][Fresh].admin = Bound(b, TRUE)
         /\ \A m \in DOMAIN users[b] \ {Fresh} : users'[b][m] = users[b][m]
<1> DEFINE u == [by |-> Scanner, admin |-> Bound(b, TRUE)]
<1>1. /\ users' = [users EXCEPT ![b] = [m \in DOMAIN @ \cup {Fresh} |-> IF m = Fresh THEN u ELSE @[m]]]
      /\ note' = note /\ calls' = calls /\ log' = log
  BY DEF RegisterFresh
<1>2. u \in User /\ u.by = Scanner /\ u.admin = Bound(b, TRUE) /\ Fresh \in Accounts
  BY BenchAssumption DEF User, Bound
<1> HIDE DEF u
<1>3. /\ DOMAIN users' = Builds /\ DOMAIN users'[b] = DOMAIN users[b] \cup {Fresh}
      /\ \A a \in Builds \ {b} : users'[a] = users[a]
      /\ users'[b][Fresh] = u /\ \A m \in DOMAIN users[b] \ {Fresh} : users'[b][m] = users[b][m]
  BY <1>1 DEF AppTypeOK
<1>4. AppTypeOK'
  BY <1>1, <1>2, <1>3 DEF AppTypeOK
<1> QED BY <1>1, <1>2, <1>3, <1>4

\* What a note changes.
LEMMA NoteIs ==
  ASSUME AppTypeOK, NEW b \in Builds, NEW as \in Accounts \cup {Nobody, Forged}, as # Forged,
         CreateNote(b, as)
  PROVE  /\ AppTypeOK' /\ users' = users /\ calls' = calls /\ log' = log
         /\ \A a \in Builds : note'[a] = note[a] \/ (a = b /\ note'[a] = as /\ as # Nobody)
<1>1. /\ users' = users /\ calls' = calls /\ log' = log /\ note \in [Builds -> Accounts \cup {NoNote}]
  BY DEF CreateNote, AppTypeOK
<1>2. CASE Principal(b, as)
  <2>1. note' = [note EXCEPT ![b] = as] /\ as # Nobody /\ as \in Accounts
    BY <1>2 DEF CreateNote, Principal
  <2>2. note' \in [Builds -> Accounts \cup {NoNote}]
    BY <1>1, <2>1
  <2> QED BY <1>1, <2>1, <2>2 DEF AppTypeOK
<1>3. CASE ~Principal(b, as)
  <2>1. note' = note
    BY <1>3 DEF CreateNote
  <2> QED BY <1>1, <2>1 DEF AppTypeOK
<1> QED BY <1>2, <1>3

\* What the steps of register say of one another stays true when one is added.
LEMMA StepsAdded ==
  ASSUME NEW steps \in Seq(Registration), NEW x \in Registration
  PROVE  LET more == Append(steps, x) IN
         /\ more \in Seq(Registration) /\ Len(more) = Len(steps) + 1 /\ Len(steps) \in Nat
         /\ \A k \in 1..Len(steps) : more[k] = steps[k]
         /\ more[Len(steps) + 1] = x
         /\ \A k \in 1..Len(more) : k = Len(steps) + 1 \/ k \in 1..Len(steps)
         /\ \A i, j \in 1..Len(steps) : i < j /\ LookedUpBefore(steps, i, j) => LookedUpBefore(more, i, j)
         /\ \A c, n : c # x.client /\ CallOpen(steps, c, n) => CallOpen(more, c, n)
<1> DEFINE more == Append(steps, x)
<1>1. /\ more \in Seq(Registration) /\ Len(more) = Len(steps) + 1 /\ Len(steps) \in Nat
      /\ \A k \in 1..Len(steps) : more[k] = steps[k]
      /\ more[Len(steps) + 1] = x
  BY AppendSeq
<1> HIDE DEF more
<1>2. \A k \in 1..Len(more) : k = Len(steps) + 1 \/ k \in 1..Len(steps)
  BY <1>1
<1>3. ASSUME NEW i \in 1..Len(steps), NEW j \in 1..Len(steps), i < j, LookedUpBefore(steps, i, j)
      PROVE  LookedUpBefore(more, i, j)
  <2>1. PICK k \in 1..(i - 1) :
          /\ steps[k].do = "test" /\ steps[k].client = steps[j].client
          /\ \A m \in (k + 1)..(j - 1) : steps[m].client # steps[j].client
    BY <1>3 DEF LookedUpBefore
  <2>2. k \in 1..Len(steps) /\ \A m \in (k + 1)..(j - 1) : m \in 1..Len(steps)
    BY <1>1
  <2>3. /\ more[k] = steps[k] /\ more[j] = steps[j]
        /\ \A m \in (k + 1)..(j - 1) : more[m] = steps[m]
    BY <1>1, <2>2
  <2> QED BY <2>1, <2>3 DEF LookedUpBefore
<1>4. ASSUME NEW c, NEW n, c # x.client, CallOpen(steps, c, n)
      PROVE  CallOpen(more, c, n)
  <2>1. PICK k \in 1..Len(steps) :
          /\ steps[k].do = "test" /\ steps[k].client = c
          /\ \A m \in (k + 1)..Len(steps) : steps[m].client # c
          /\ \A m \in 1..k : steps[m].do = "insert" => steps[m].name # n
    BY <1>4 DEF CallOpen
  <2>2. k \in 1..Len(more) /\ more[k] = steps[k]
    BY <1>1
  <2>3. ASSUME NEW m \in (k + 1)..Len(more) PROVE more[m].client # c
    <3>1. CASE m = Len(steps) + 1
      BY <1>1, <1>4, <3>1
    <3>2. CASE m \in 1..Len(steps)
      BY <1>1, <2>1, <3>2
    <3> QED BY <1>1, <3>1, <3>2
  <2>4. \A m \in 1..k : more[m] = steps[m]
    BY <1>1
  <2> QED BY <2>1, <2>2, <2>3, <2>4 DEF CallOpen
<1> QED BY <1>1, <1>2, <1>3, <1>4 DEF more

\* The log and the table of users only grow (register, app.py:232-247).
LEMMA AppGrows ==
  ASSUME AppTypeOK, AppStep
  PROVE  /\ AppTypeOK'
         /\ \A b \in Builds :
              /\ DOMAIN users[b] \subseteq DOMAIN users'[b]
              /\ log[b] \in Seq(Registration) /\ log'[b] \in Seq(Registration)
              /\ Len(log[b]) \in Nat /\ Len(log'[b]) \in Nat /\ Len(log[b]) <= Len(log'[b])
              /\ \A k \in 1..Len(log[b]) : log'[b][k] = log[b][k]
<1>1. \A b \in Builds : log[b] \in Seq(Registration) /\ Len(log[b]) \in Nat
  BY DEF AppTypeOK
<1>2. CASE \E b \in Builds, c \in Clients, n \in Accounts : RegisterTest(b, c, n)
  <2>1. PICK b \in Builds, c \in Clients, n \in Accounts : RegisterTest(b, c, n)
    BY <1>2
  <2> DEFINE x == [do |-> "test", client |-> c, name |-> n]
  <2>2. /\ AppTypeOK' /\ users' = users /\ x \in Registration /\ log'[b] = Append(log[b], x)
        /\ \A a \in Builds \ {b} : log'[a] = log[a]
    BY <2>1, TestIs
  <2> HIDE DEF x
  <2>3. /\ log'[b] \in Seq(Registration) /\ Len(log'[b]) = Len(log[b]) + 1
        /\ \A k \in 1..Len(log[b]) : log'[b][k] = log[b][k]
    BY <1>1, <2>2, AppendSeq
  <2>4. \A a \in Builds \ {b} : /\ log'[a] \in Seq(Registration) /\ Len(log'[a]) \in Nat
                                /\ Len(log[a]) <= Len(log'[a])
    BY <1>1, <2>2
  <2>5. Len(log[b]) <= Len(log'[b]) /\ Len(log'[b]) \in Nat
    BY <1>1, <2>3
  <2> QED BY <1>1, <2>2, <2>3, <2>4, <2>5
<1>3. CASE \E b \in Builds, c \in Clients : RegisterInsert(b, c, FALSE)
  <2>1. PICK b \in Builds, c \in Clients : RegisterInsert(b, c, FALSE)
    BY <1>3
  <2> DEFINE x == [do |-> "insert", client |-> c, name |-> calls[b][c]]
  <2>2. /\ AppTypeOK' /\ x \in Registration /\ log'[b] = Append(log[b], x)
        /\ \A a \in Builds \ {b} : log'[a] = log[a] /\ users'[a] = users[a]
        /\ DOMAIN users[b] \subseteq DOMAIN users'[b]
    BY ZenonT(40), <2>1, InsertIs
  <2> HIDE DEF x
  <2>3. /\ log'[b] \in Seq(Registration) /\ Len(log'[b]) = Len(log[b]) + 1
        /\ \A k \in 1..Len(log[b]) : log'[b][k] = log[b][k]
    BY <1>1, <2>2, AppendSeq
  <2>4. \A a \in Builds \ {b} : /\ log'[a] \in Seq(Registration) /\ Len(log'[a]) \in Nat
                                /\ Len(log[a]) <= Len(log'[a])
    BY <1>1, <2>2
  <2>5. Len(log[b]) <= Len(log'[b]) /\ Len(log'[b]) \in Nat
    BY <1>1, <2>3
  <2> QED BY <1>1, <2>2, <2>3, <2>4, <2>5
<1>4. CASE \E b \in Builds : \E as \in Accounts \cup {Nobody, Forged} : as # Forged /\ CreateNote(b, as)
  <2>1. AppTypeOK' /\ users' = users /\ log' = log
    BY <1>4, NoteIs
  <2> QED BY <1>1, <2>1
<1>5. CASE \E b \in Builds : RegisterFresh(b, Scanner, Fresh, TRUE)
  <2>1. PICK b \in Builds : RegisterFresh(b, Scanner, Fresh, TRUE)
    BY <1>5
  <2>2. /\ AppTypeOK' /\ log' = log /\ DOMAIN users[b] \subseteq DOMAIN users'[b]
        /\ \A a \in Builds \ {b} : users'[a] = users[a]
    BY <2>1, FreshIs
  <2> QED BY <1>1, <2>2
<1>6. CASE UNCHANGED app
  BY <1>1, <1>6 DEF app, AppTypeOK
<1> QED BY <1>2, <1>3, <1>4, <1>5, <1>6 DEF AppStep

\* A name is looked up: it is free, and so the call is pending.
LEMMA TestKept ==
  ASSUME AppInv, NEW b \in Builds, NEW c \in Clients, NEW n \in Accounts, RegisterTest(b, c, n)
  PROVE  NamesHeld' /\ VisitorsLogged'
<1> DEFINE x == [do |-> "test", client |-> c, name |-> n]
<1>1. /\ AppTypeOK /\ NameTakenOnce /\ Pending /\ Inserted /\ VisitorsLogged
  BY DEF AppInv, NamesHeld
<1>2. /\ users' = users /\ n \notin DOMAIN users[b] /\ calls'[b][c] = n
      /\ \A d \in Clients \ {c} : calls'[b][d] = calls[b][d]
      /\ \A a \in Builds \ {b} : calls'[a] = calls[a] /\ log'[a] = log[a]
      /\ log'[b] = Append(log[b], x) /\ x \in Registration
  BY <1>1, TestIs
<1>3. x.do = "test" /\ x.client = c
  OBVIOUS
<1> HIDE DEF x
<1>4. log[b] \in Seq(Registration)
  BY <1>1 DEF AppTypeOK
<1>5. /\ Len(log[b]) \in Nat /\ Len(log'[b]) = Len(log[b]) + 1
      /\ \A k \in 1..Len(log[b]) : log'[b][k] = log[b][k]
      /\ log'[b][Len(log[b]) + 1] = x
      /\ \A k \in 1..Len(log'[b]) : k = Len(log[b]) + 1 \/ k \in 1..Len(log[b])
      /\ \A i, j \in 1..Len(log[b]) :
           i < j /\ LookedUpBefore(log[b], i, j) => LookedUpBefore(log'[b], i, j)
      /\ \A d, m : d # c /\ CallOpen(log[b], d, m) => CallOpen(log'[b], d, m)
  BY <1>2, <1>3, <1>4, StepsAdded
<1>6. NameTakenOnce'
  <2>1. ASSUME NEW i \in 1..Len(log'[b]), NEW j \in 1..Len(log'[b]), i < j,
               log'[b][i].do = "insert", log'[b][j].do = "insert", log'[b][i].name = log'[b][j].name
        PROVE  LookedUpBefore(log'[b], i, j)
    <3>1. i \in 1..Len(log[b]) /\ j \in 1..Len(log[b])
      BY <1>3, <1>5, <2>1
    <3> QED BY <1>1, <1>5, <2>1, <3>1 DEF NameTakenOnce
  <2> QED BY <1>1, <1>2, <2>1 DEF NameTakenOnce
<1>7. Pending'
  <2>1. CallOpen(log'[b], c, n)
    <3>1. \A m \in 1..(Len(log[b]) + 1) : log'[b][m].do = "insert" => log'[b][m].name # n
      BY <1>1, <1>2, <1>3, <1>5 DEF Inserted
    <3>2. Len(log[b]) + 1 \in 1..Len(log'[b]) /\ ((Len(log[b]) + 1) + 1)..Len(log'[b]) = {}
      BY <1>5
    <3> QED BY <1>3, <1>5, <3>1, <3>2 DEF CallOpen
  <2>2. \A d \in Clients : calls'[b][d] # NoCall => CallOpen(log'[b], d, calls'[b][d])
    BY <1>1, <1>2, <1>5, <2>1 DEF Pending
  <2> QED BY <1>1, <1>2, <2>2 DEF Pending
<1>8. Inserted'
  BY SMTT(30), <1>1, <1>2, <1>3, <1>5 DEF Inserted
<1>9. VisitorsLogged'
  BY SMTT(30), <1>1, <1>2, <1>5 DEF VisitorsLogged, VisitorLogged
<1> QED BY <1>6, <1>7, <1>8, <1>9 DEF NamesHeld

\* A name is inserted: by the call that found it free, whoever else found it free.
LEMMA InsertKept ==
  ASSUME AppInv, NEW b \in Builds, NEW c \in Clients, RegisterInsert(b, c, FALSE)
  PROVE  NamesHeld' /\ VisitorsLogged'
<1> DEFINE n == calls[b][c]
           x == [do |-> "insert", client |-> c, name |-> n]
<1>1. /\ AppTypeOK /\ NameTakenOnce /\ Pending /\ Inserted /\ VisitorsLogged
  BY DEF AppInv, NamesHeld
<1>2. /\ n # NoCall /\ calls'[b][c] = NoCall
      /\ \A d \in Clients \ {c} : calls'[b][d] = calls[b][d]
      /\ \A a \in Builds \ {b} : calls'[a] = calls[a] /\ log'[a] = log[a] /\ users'[a] = users[a]
      /\ log'[b] = Append(log[b], x) /\ x \in Registration
      /\ DOMAIN users'[b] = DOMAIN users[b] \cup {n} /\ users'[b][n].by = c
      /\ \A m \in DOMAIN users[b] \ {n} : users'[b][m] = users[b][m]
  BY ZenonT(40), <1>1, InsertIs
<1>3. x.do = "insert" /\ x.client = c /\ x.name = n
  OBVIOUS
<1> HIDE DEF x
<1>4. log[b] \in Seq(Registration)
  BY <1>1 DEF AppTypeOK
<1>5. /\ Len(log[b]) \in Nat /\ Len(log'[b]) = Len(log[b]) + 1
      /\ \A k \in 1..Len(log[b]) : log'[b][k] = log[b][k]
      /\ log'[b][Len(log[b]) + 1] = x
      /\ \A k \in 1..Len(log'[b]) : k = Len(log[b]) + 1 \/ k \in 1..Len(log[b])
      /\ \A i, j \in 1..Len(log[b]) :
           i < j /\ LookedUpBefore(log[b], i, j) => LookedUpBefore(log'[b], i, j)
      /\ \A d, m : d # c /\ CallOpen(log[b], d, m) => CallOpen(log'[b], d, m)
  BY <1>2, <1>3, <1>4, StepsAdded
<1>6. NameTakenOnce'
  <2>1. ASSUME NEW i \in 1..Len(log'[b]), NEW j \in 1..Len(log'[b]), i < j,
               log'[b][i].do = "insert", log'[b][j].do = "insert", log'[b][i].name = log'[b][j].name
        PROVE  LookedUpBefore(log'[b], i, j)
    <3>1. i \in 1..Len(log[b])
      BY <1>5, <2>1
    <3>2. CASE j \in 1..Len(log[b])
      BY <1>1, <1>5, <2>1, <3>1, <3>2 DEF NameTakenOnce
    <3>3. CASE j = Len(log[b]) + 1
      <4>1. log[b][i].do = "insert" /\ log[b][i].name = n /\ log'[b][j].client = c
        BY <1>3, <1>5, <2>1, <3>1, <3>3
      <4>2. PICK k \in 1..Len(log[b]) :
              /\ log[b][k].do = "test" /\ log[b][k].client = c
              /\ \A m \in (k + 1)..Len(log[b]) : log[b][m].client # c
              /\ \A m \in 1..k : log[b][m].do = "insert" => log[b][m].name # n
        BY <1>1, <1>2 DEF Pending, CallOpen
      <4>3. k \in 1..(i - 1)
        BY <1>5, <3>1, <4>1, <4>2
      <4>4. \A m \in (k + 1)..(j - 1) : log'[b][m].client # c
        BY <1>5, <3>3, <4>2
      <4>5. log'[b][k] = log[b][k]
        BY <1>5
      <4> QED BY <4>1, <4>2, <4>3, <4>4, <4>5 DEF LookedUpBefore
    <3> QED BY <1>5, <3>2, <3>3
  <2> QED BY <1>1, <1>2, <2>1 DEF NameTakenOnce
<1>7. Pending'
  <2>1. ASSUME NEW d \in Clients, calls'[b][d] # NoCall
        PROVE  CallOpen(log'[b], d, calls'[b][d])
    <3>1. d # c /\ calls'[b][d] = calls[b][d]
      BY <1>2, <2>1
    <3>2. CallOpen(log[b], d, calls[b][d])
      BY <1>1, <2>1, <3>1 DEF Pending
    <3>3. CallOpen(log'[b], d, calls[b][d])
      BY <1>5, <3>1, <3>2
    <3> QED BY <3>1, <3>3
  <2>2. ASSUME NEW a \in Builds, a # b, NEW d \in Clients, calls'[a][d] # NoCall
        PROVE  CallOpen(log'[a], d, calls'[a][d])
    <3>1. calls'[a] = calls[a] /\ log'[a] = log[a]
      BY <1>2, <2>2
    <3>2. CallOpen(log[a], d, calls[a][d])
      BY <1>1, <2>2, <3>1 DEF Pending
    <3> QED BY <3>1, <3>2
  <2> QED BY <2>1, <2>2 DEF Pending
<1>8. Inserted'
  BY SMTT(30), <1>1, <1>2, <1>3, <1>5 DEF Inserted
<1>9. VisitorsLogged'
  <2>1. ASSUME NEW m \in DOMAIN users'[b], users'[b][m].by # Scanner
        PROVE  VisitorLogged(b, m)'
    <3>1. CASE m = n
      BY <1>2, <1>3, <1>5, <2>1, <3>1 DEF VisitorLogged
    <3>2. CASE m # n
      <4>1. PICK k \in 1..Len(log[b]) :
              log[b][k].do = "insert" /\ log[b][k].client # Scanner /\ log[b][k].name = m
        BY <1>1, <1>2, <2>1, <3>2 DEF VisitorsLogged, VisitorLogged
      <4>2. k \in 1..Len(log'[b]) /\ log'[b][k] = log[b][k]
        BY <1>5
      <4> QED BY <4>1, <4>2 DEF VisitorLogged
    <3> QED BY <3>1, <3>2
  <2>2. ASSUME NEW a \in Builds, a # b, NEW m \in DOMAIN users'[a], users'[a][m].by # Scanner
        PROVE  VisitorLogged(a, m)'
    BY <1>1, <1>2, <2>2 DEF VisitorsLogged, VisitorLogged
  <2> QED BY <2>1, <2>2 DEF VisitorsLogged
<1> QED BY <1>6, <1>7, <1>8, <1>9 DEF NamesHeld

\* The target keeps its table of users, whoever uses it (app.py:232-247).
LEMMA AppKept ==
  ASSUME AppInv, AppStep
  PROVE  AppInv'
<1>1. AppTypeOK /\ NamesHeld /\ VisitorsLogged /\ AppTypeOK'
  BY AppGrows DEF AppInv
<1>2. CASE \E b \in Builds, c \in Clients, n \in Accounts : RegisterTest(b, c, n)
  BY <1>1, <1>2, TestKept DEF AppInv
<1>3. CASE \E b \in Builds, c \in Clients : RegisterInsert(b, c, FALSE)
  BY <1>1, <1>3, InsertKept DEF AppInv
<1>4. CASE \E b \in Builds : \E as \in Accounts \cup {Nobody, Forged} : as # Forged /\ CreateNote(b, as)
  <2>1. users' = users /\ calls' = calls /\ log' = log
    BY <1>1, <1>4, NoteIs
  <2> QED BY <1>1, <2>1 DEF AppInv, NamesHeld, NameTakenOnce, Pending, Inserted,
                            VisitorsLogged, VisitorLogged
<1>5. CASE \E b \in Builds : RegisterFresh(b, Scanner, Fresh, TRUE)
  <2>1. PICK b \in Builds : RegisterFresh(b, Scanner, Fresh, TRUE)
    BY <1>5
  <2>2. /\ calls' = calls /\ log' = log
        /\ \A a \in Builds \ {b} : users'[a] = users[a]
        /\ DOMAIN users'[b] = DOMAIN users[b] \cup {Fresh} /\ users'[b][Fresh].by = Scanner
        /\ \A m \in DOMAIN users[b] \ {Fresh} : users'[b][m] = users[b][m]
    BY <1>1, <2>1, FreshIs
  <2>3. NamesHeld'
    BY <1>1, <2>2 DEF NamesHeld, NameTakenOnce, Pending, Inserted
  <2>4. VisitorsLogged'
    BY <1>1, <2>2 DEF VisitorsLogged, VisitorLogged
  <2> QED BY <1>1, <2>3, <2>4 DEF AppInv
<1>6. CASE UNCHANGED app
  BY <1>1, <1>6 DEF app, AppInv, NamesHeld, NameTakenOnce, Pending, Inserted,
                    VisitorsLogged, VisitorLogged
<1> QED BY <1>2, <1>3, <1>4, <1>5, <1>6 DEF AppStep

------------------------------------------------------------------------------
\* The suite and its two scans.

\* What the invariant of an evaluation is made of, less what follows from the rest.
BenchCore ==
  /\ BenchTypeOK /\ LoginHolds /\ AppInv /\ ScanInv /\ Course /\ Unguessed /\ NoteOwned
  /\ Silent /\ AllCrawled /\ Enrolled /\ Explained

\* The two scans ask for the same accounts, document and hints; the second one's
\* tokens are signed with a secret that is not in the wordlist (SafeJob).
LEMMA TwoJobs ==
  ASSUME NEW s \in Suites, NEW j \in {s.job, SafeJob(s)}
  PROVE  /\ j \in Jobs /\ j.hints = s.job.hints /\ j.openapi = s.job.openapi /\ j.exclude = s.job.exclude
         /\ Len(s.job.auth) \in Nat /\ Len(j.auth) = Len(s.job.auth)
         /\ \A k \in 1..Len(j.auth) :
              /\ j.auth[k].name = s.job.auth[k].name
              /\ j.auth[k].name \in Names \ {Anon} /\ j.auth[k].name \in Accounts
              /\ j.auth[k].kind = "login" => j.auth[k].register
              /\ j = SafeJob(s) /\ j.auth[k].token # NoToken =>
                   j.auth[k].token.decodable /\ j.auth[k].token.key \notin Wordlist
<1>1. /\ s \in Suite /\ s.job \in Jobs /\ SafeJob(s) \in Jobs /\ s.job \in Job /\ SafeJob(s) \in Job
      /\ Names \ {Anon} \subseteq Accounts
  BY BenchAssumption, EngineAssumption
<1>2. /\ s.job.auth \in Seq(AuthSpec) /\ SafeJob(s).auth \in Seq(AuthSpec)
      /\ Len(s.job.auth) \in Nat /\ Len(SafeJob(s).auth) \in Nat
  BY <1>1 DEF Job
<1>3. \A k \in 1..Len(s.job.auth) :
        /\ s.job.auth[k].name # Anon
        /\ s.job.auth[k].kind = "login" => s.job.auth[k].register
        /\ s.job.auth[k].token # NoToken => s.job.auth[k].token.decodable
  BY SuiteAssumption
<1>4. \A k \in 1..Len(s.job.auth) : s.job.auth[k] \in AuthSpec
  BY <1>2
<1>5. CASE j = s.job /\ j # SafeJob(s)
  BY <1>1, <1>2, <1>3, <1>4, <1>5 DEF AuthSpec
<1>6. CASE j = SafeJob(s)
  <2> DEFINE old == s.job.auth
             new == [k \in DOMAIN old |-> Resigned(old[k])]
  <2>1. /\ SafeJob(s).auth = new /\ SafeJob(s).hints = s.job.hints
        /\ SafeJob(s).openapi = s.job.openapi /\ SafeJob(s).exclude = s.job.exclude
    BY <1>1 DEF SafeJob, Job
  <2>2. DOMAIN new = 1..Len(old) /\ DOMAIN new = 1..Len(SafeJob(s).auth)
    BY <1>2, <2>1
  <2>3. Len(SafeJob(s).auth) = Len(old)
    BY <1>2, <2>2
  <2>4. ASSUME NEW k \in 1..Len(old)
        PROVE  /\ new[k].name = old[k].name /\ new[k].kind = old[k].kind
               /\ new[k].register = old[k].register /\ new[k].token = Strong(old[k].token)
    BY <1>4, <2>2 DEF AuthSpec, Resigned
  <2>5. ASSUME NEW k \in 1..Len(old), new[k].token # NoToken
        PROVE  new[k].token.decodable /\ new[k].token.key \notin Wordlist
    <3> DEFINE t == old[k].token
               c == CHOOSE c \in Keys : c \notin Wordlist
    <3>1. new[k].token = Strong(t) /\ t \in Token \cup {NoToken}
      BY <1>4, <2>4 DEF AuthSpec
    <3>2. t # NoToken /\ t \in Token /\ t.decodable
      BY <1>3, <2>5, <3>1 DEF Strong
    <3>3. c \in Keys /\ c \notin Wordlist
      BY BenchAssumption
    <3>4. Strong(t) = [t EXCEPT !.key = c]
      BY <3>2 DEF Strong
    <3> HIDE DEF c
    <3>5. Strong(t).decodable = t.decodable /\ Strong(t).key = c
      BY <3>2, <3>4 DEF Token
    <3> QED BY <3>1, <3>2, <3>3, <3>5
  <2> HIDE DEF new
  <2>6. ASSUME NEW k \in 1..Len(old)
        PROVE  /\ new[k].name = old[k].name
               /\ new[k].name \in Names \ {Anon} /\ new[k].name \in Accounts
               /\ new[k].kind = "login" => new[k].register
               /\ new[k].token # NoToken => new[k].token.decodable /\ new[k].token.key \notin Wordlist
    BY <1>1, <1>3, <1>4, <2>4, <2>5 DEF AuthSpec
  <2> QED BY <1>1, <1>2, <1>6, <2>1, <2>3, <2>6
<1> QED BY <1>5, <1>6

\* The hints of bola: nobody is asked to read a note that is their own.
LEMMA BolaHints ==
  ASSUME NEW s \in Suites
  PROVE  LET notes == s.job.hints["bola"] IN
         /\ notes \in Seq(Hint) /\ Len(notes) \in Nat
         /\ \A i \in 1..Len(notes) : notes[i].owner \in Names \ {Anon} /\ notes[i].owner \in Accounts
         /\ \A i, k \in 1..Len(notes) : notes[i].as # notes[k].owner
<1> DEFINE notes == s.job.hints["bola"]
<1>1. s.job \in Job /\ Names \ {Anon} \subseteq Accounts
  BY BenchAssumption, EngineAssumption
<1>2. notes \in Seq(Hint) /\ Len(notes) \in Nat
  BY <1>1 DEF Job, HintKeys, CheckIds, SpecDriven
<1> HIDE DEF notes
<1>3. ASSUME NEW i \in 1..Len(notes) PROVE notes[i].owner \in Names
  <2>1. notes[i] \in Hint
    BY <1>2
  <2> QED BY <2>1 DEF Hint
<1>4. \A i, k \in 1..Len(notes) : notes[i].owner # Anon /\ notes[i].as # notes[k].owner
  BY SuiteAssumption DEF notes
<1> QED BY <1>1, <1>2, <1>3, <1>4 DEF notes

\* What the invariant says of the scan that runs.
LEMMA JobNow ==
  ASSUME BenchCore, exit # "1"
  PROVE  /\ suite \in Suites /\ job \in {suite.job, SafeJob(suite)}
         /\ Controlled => job = SafeJob(suite)
         /\ ~Controlled => job = suite.job
  BY DEF BenchCore, BenchTypeOK, Course

\* A set of numbers that is not empty has a least one.
LEMMA LeastNumber ==
  ASSUME NEW T, T \subseteq Nat, T # {}
  PROVE  \E m \in T : \A n \in T : m <= n
<1> DEFINE R == OpToRel(<, Nat)
<1>1. IsWellFoundedOn(R, Nat)
  BY NatLessThanWellFounded
<1>2. \A m, n \in Nat : m < n => <<m, n>> \in R
  BY DEF OpToRel
<1> HIDE DEF R
<1>3. PICK m \in T : \A n \in T : ~(<<n, m>> \in R)
  BY <1>1, WFMin
<1>4. ASSUME NEW n \in T PROVE m <= n
  <2>1. m \in Nat /\ n \in Nat /\ ~(<<n, m>> \in R)
    BY <1>3
  <2>2. ~(n < m)
    BY <1>2, <2>1
  <2> QED BY <2>1, <2>2
<1> QED BY <1>4

\* The token jwt looks at is one of an identity of this scan, or none: of several
\* with a token there is a first in the auth block (TokenFor, _pick_identity).
LEMMA TokenOfOne ==
  ASSUME Unguessed, Len(job.auth) \in Nat, NEW name
  PROVE  \/ TokenFor(name) = NoToken
         \/ \E n \in DOMAIN identities : TokenFor(name) = identities[n].token
<1> DEFINE T == {Position(n) : n \in WithToken}
           P(n) == \A m \in WithToken : Position(n) <= Position(m)
<1>1. CASE name \in DOMAIN identities
  BY <1>1 DEF TokenFor
<1>2. CASE name \notin DOMAIN identities /\ WithToken = {}
  BY <1>2 DEF TokenFor
<1>3. CASE name \notin DOMAIN identities /\ WithToken # {}
  <2>1. \A n \in WithToken : Position(n) \in Nat
    <3> SUFFICES ASSUME NEW n \in WithToken PROVE Position(n) \in Nat
      OBVIOUS
    <3>1. CASE n = Anon
      BY <3>1 DEF Position
    <3>2. CASE n # Anon
      <4>1. \E k \in 1..Len(job.auth) : job.auth[k].name = n
        BY <3>2 DEF Unguessed, WithToken
      <4>2. (CHOOSE k \in 1..Len(job.auth) : job.auth[k].name = n) \in 1..Len(job.auth)
        BY <4>1
      <4> QED BY <3>2, <4>2 DEF Position
    <3> QED BY <3>1, <3>2
  <2>2. T \subseteq Nat /\ T # {}
    BY <1>3, <2>1
  <2>3. PICK least \in T : \A t \in T : least <= t
    BY <2>2, LeastNumber
  <2>4. PICK n \in WithToken : Position(n) = least
    BY <2>3
  <2>5. P(n)
    BY <2>3, <2>4
  <2>6. (CHOOSE m \in WithToken : P(m)) \in WithToken
    BY <2>4, <2>5
  <2>7. TokenFor(name) = identities[CHOOSE m \in WithToken : P(m)].token
    BY <1>3 DEF TokenFor
  <2> QED BY <2>6, <2>7 DEF WithToken
<1> QED BY <1>1, <1>2, <1>3

------------------------------------------------------------------------------
\* What a step of the scan puts on the wire.

Last == wire[Len(wire)]
Asks == \/ ExposureProbe \/ SqliInject \/ BolaCreate \/ BolaRead
        \/ MassCreate \/ MassConfirm \/ SsrfProbe \/ JwtAlgNone
Quietly == \/ Validate \/ Resolve \/ SpecNotGiven \/ SpecFile \/ Crawl \/ Crawled
           \/ StaticIdentity \/ LoginRefused \/ Authenticated
           \/ SkipCheck \/ StartCheck \/ ReturnFindings \/ ChecksDone
           \/ PassBy \/ Begin \/ OutOfScope \/ BlockedMethod \/ CheckErrors
           \/ JwtWeakSecret \/ JwtNoForgery \/ Dedup \/ Return \/ Terminated

\* A longer wire has the old exchanges and one more.
LEMMA OneLonger ==
  ASSUME wire \in Seq(Exchange), NEW x, wire' = Append(wire, x)
  PROVE  /\ Len(wire) \in Nat /\ Len(wire') = Len(wire) + 1 /\ wire' # wire /\ Last' = x
         /\ \A k \in 1..Len(wire) : wire'[k] = wire[k]
<1>1. Len(wire) \in Nat /\ Len(wire') = Len(wire) + 1 /\ wire'[Len(wire) + 1] = x
      /\ \A k \in 1..Len(wire) : wire'[k] = wire[k]
  OBVIOUS
<1> QED BY <1>1 DEF Last

\* A request of a check (Ask).
LEMMA AskSends ==
  ASSUME ScanInv, NEW resp \in Responses, Ask(resp)
  PROVE  /\ Len(wire) \in Nat /\ Len(wire') = Len(wire) + 1 /\ wire' # wire
         /\ \A k \in 1..Len(wire) : wire'[k] = wire[k]
         /\ Last'.slot = slot /\ Last'.step = step /\ Last'.as = Asked.as /\ Last'.resp = resp
         /\ step # "create" => Last'.path = Item.path
         /\ pc = "run" /\ slot \in Slots /\ Check \in CheckIds /\ item \in 1..Len(Items)
         /\ step \in {"probe", "inject", "create", "read", "confirm", "alg_none"}
         /\ UNCHANGED <<job, endpoints, identities, pc, slot, findings, status, report>>
<1> DEFINE x == [slot |-> slot, item |-> item, step |-> step, path |-> Asked.path,
                 host |-> UrlOf(Asked.offsite).host, method |-> Asked.method,
                 as |-> Asked.as, resp |-> resp]
<1>1. wire \in Seq(Exchange) /\ IInv
  BY Shape DEF ScanInv, EInv
<1>2. /\ wire' = Append(wire, x) /\ pc = "run"
      /\ UNCHANGED <<job, endpoints, identities, pc, slot, findings, status, report>>
      /\ step \in {"probe", "inject", "create", "read", "confirm", "alg_none"}
  BY DEF Ask, Asking, Sent, setup
<1>3. /\ x.slot = slot /\ x.step = step /\ x.path = Asked.path /\ x.as = Asked.as /\ x.resp = resp
  OBVIOUS
<1> HIDE DEF x
<1>4. /\ Len(wire) \in Nat /\ Len(wire') = Len(wire) + 1 /\ wire' # wire /\ Last' = x
      /\ \A k \in 1..Len(wire) : wire'[k] = wire[k]
  BY <1>1, <1>2, OneLonger
<1>5. slot \in Slots /\ Check \in CheckIds /\ item \in 1..Len(Items)
  BY <1>1, <1>2, ItemsTyped DEF IInv, StepInPlace
<1>6. step # "create" => Asked.path = Item.path
  BY <1>1, <1>2, <1>5, AskedTyped
<1> QED BY <1>2, <1>3, <1>4, <1>5, <1>6

\* A request for the document, or one of a login (SpecFetch, Register, Login).
LEMMA SetupSends ==
  ASSUME ScanInv, SpecFetch \/ Register \/ Login
  PROVE  /\ Len(wire) \in Nat /\ Len(wire') = Len(wire) + 1 /\ wire' # wire
         /\ \A k \in 1..Len(wire) : wire'[k] = wire[k]
         /\ Last'.slot = 0 /\ Last'.resp \in {"lost", "denied", "clean"}
         /\ \/ /\ SpecFetch /\ Last'.step = "spec" /\ pc = "spec"
               /\ \/ Last'.resp \in {"lost", "denied"} /\ SpecUnusable
                  \/ Last'.resp = "denied" /\ pc' = "auth"
                  \/ Last'.resp = "clean" /\ pc' = "crawl"
            \/ /\ Register /\ Last'.step = "register" /\ pc = "auth"
               /\ IF Last'.resp = "lost" THEN pc' = "HTTPError" /\ UNCHANGED step
                                         ELSE step' = "login" /\ UNCHANGED pc
            \/ /\ Login /\ Last'.step = "login" /\ pc = "auth"
               /\ IF Last'.resp = "lost" THEN pc' = "HTTPError" /\ UNCHANGED <<identities, slot>>
                  ELSE /\ AddIdentity(IF Last'.resp = "clean" /\ Account.token # NoToken
                                      THEN [token |-> Account.token, headed |-> TRUE] ELSE Anonymous)
                       /\ slot' = slot + 1 /\ UNCHANGED pc
         /\ UNCHANGED <<job, endpoints, item, tries, local, findings, status, report, hits>>
<1>1. wire \in Seq(Exchange)
  BY Shape DEF ScanInv
<1>2. UNCHANGED <<job, endpoints, item, tries, local, findings, status, report, hits>>
  BY DEF SpecFetch, Register, Login, setup, probe, output
<1>3. CASE SpecFetch
  <2>1. PICK resp \in {"lost", "denied", "clean"} :
          /\ wire' = Append(wire, [slot |-> 0, item |-> 1, step |-> "spec",
               path |-> LoginPath, host |-> job.openapi.host, method |-> "GET",
               as |-> Nobody, resp |-> resp])
          /\ \/ resp \in {"lost", "denied"} /\ SpecUnusable
             \/ resp = "denied" /\ pc' = "auth"
             \/ resp = "clean" /\ pc' = "crawl"
    BY <1>3 DEF SpecFetch
  <2> DEFINE x == [slot |-> 0, item |-> 1, step |-> "spec", path |-> LoginPath,
                   host |-> job.openapi.host, method |-> "GET", as |-> Nobody, resp |-> resp]
  <2>2. x.slot = 0 /\ x.step = "spec" /\ x.resp = resp
    OBVIOUS
  <2>3. wire' = Append(wire, x)
    BY <2>1
  <2> HIDE DEF x
  <2>4. /\ Len(wire) \in Nat /\ Len(wire') = Len(wire) + 1 /\ wire' # wire /\ Last' = x
        /\ \A k \in 1..Len(wire) : wire'[k] = wire[k]
    BY <1>1, <2>3, OneLonger
  <2>5. pc = "spec"
    BY <1>3 DEF SpecFetch
  <2> QED BY <1>2, <1>3, <2>1, <2>2, <2>4, <2>5
<1>4. CASE Register
  <2>1. PICK resp \in {"lost", "clean"} :
          /\ wire' = Sent(0, slot, "register", LoginPath, FALSE, "POST", Nobody, resp)
          /\ IF resp = "lost" THEN pc' = "HTTPError" /\ UNCHANGED step
                              ELSE step' = "login" /\ UNCHANGED pc
    BY <1>4 DEF Register
  <2> DEFINE x == [slot |-> 0, item |-> slot, step |-> "register", path |-> LoginPath,
                   host |-> UrlOf(FALSE).host, method |-> "POST", as |-> Nobody, resp |-> resp]
  <2>2. x.slot = 0 /\ x.step = "register" /\ x.resp = resp
    OBVIOUS
  <2>3. wire' = Append(wire, x)
    BY <2>1 DEF Sent
  <2> HIDE DEF x
  <2>4. /\ Len(wire) \in Nat /\ Len(wire') = Len(wire) + 1 /\ wire' # wire /\ Last' = x
        /\ \A k \in 1..Len(wire) : wire'[k] = wire[k]
    BY <1>1, <2>3, OneLonger
  <2>5. pc = "auth"
    BY <1>4 DEF Register, Authenticating
  <2> QED BY <1>2, <1>4, <2>1, <2>2, <2>4, <2>5
<1>5. CASE Login
  <2>1. PICK resp \in {"lost", "denied", "clean"} :
          /\ wire' = Sent(0, slot, "login", LoginPath, FALSE, "POST", Nobody, resp)
          /\ IF resp = "lost" THEN pc' = "HTTPError" /\ UNCHANGED <<identities, slot>>
             ELSE /\ AddIdentity(IF resp = "clean" /\ Account.token # NoToken
                                 THEN [token |-> Account.token, headed |-> TRUE] ELSE Anonymous)
                  /\ slot' = slot + 1 /\ UNCHANGED pc
    BY <1>5 DEF Login
  <2> DEFINE x == [slot |-> 0, item |-> slot, step |-> "login", path |-> LoginPath,
                   host |-> UrlOf(FALSE).host, method |-> "POST", as |-> Nobody, resp |-> resp]
  <2>2. x.slot = 0 /\ x.step = "login" /\ x.resp = resp
    OBVIOUS
  <2>3. wire' = Append(wire, x)
    BY <2>1 DEF Sent
  <2> HIDE DEF x
  <2>4. /\ Len(wire) \in Nat /\ Len(wire') = Len(wire) + 1 /\ wire' # wire /\ Last' = x
        /\ \A k \in 1..Len(wire) : wire'[k] = wire[k]
    BY <1>1, <2>3, OneLonger
  <2>5. pc = "auth"
    BY <1>5 DEF Login, Authenticating
  <2> QED BY <1>2, <1>5, <2>1, <2>2, <2>4, <2>5
<1> QED BY <1>3, <1>4, <1>5

\* Every step sends a request of a check, one of the setup, or none.
LEMMA ScanSteps ==
  ASSUME ScanInv, Next
  PROVE  /\ job' = job
         /\ \/ \E resp \in Responses : Ask(resp) /\ Last'.resp = resp /\ Asks /\ wire' # wire
            \/ (SpecFetch \/ Register \/ Login) /\ wire' # wire
            \/ Quietly /\ wire' = wire
<1>1. CASE Asks
  <2>1. PICK resp \in Responses : Ask(resp)
    BY <1>1 DEF Asks, ExposureProbe, SqliInject, BolaCreate, BolaRead, MassCreate, MassConfirm,
                SsrfProbe, JwtAlgNone, Responses
  <2> QED BY <1>1, <2>1, AskSends
<1>2. CASE SpecFetch \/ Register \/ Login
  BY <1>2, SetupSends
<1>3. CASE Quietly
  <2>1. wire' = wire /\ job' = job
    BY <1>3 DEF Quietly, Validate, Resolve, SpecNotGiven, SpecFile, Crawl, Crawled, StaticIdentity,
                LoginRefused, Authenticated, SkipCheck, StartCheck, ReturnFindings, ChecksDone,
                PassBy, Begin, OutOfScope, BlockedMethod, CheckErrors, JwtWeakSecret, JwtNoForgery,
                Dedup, Return, Terminated, NextCheck, setup, vars
  <2> QED BY <1>3, <2>1
<1> QED BY <1>1, <1>2, <1>3 DEF Next, Asks, Quietly

------------------------------------------------------------------------------
\* What a request of the scan does to the target.

\* A build serves what a request asks for (the handlers of app.py).
LEMMA Effected ==
  ASSUME NEW b, NEW x, Effect(b, x)
  PROVE  \/ x.step = "register" /\ calls[b][Scanner] # NoCall /\ RegisterInsert(b, Scanner, FALSE)
         \/ x.step = "create" /\ Check = "bola" /\ CreateNote(b, x.as)
         \/ x.step = "create" /\ Check = "mass_assignment" /\ RegisterFresh(b, Scanner, Fresh, TRUE)
         \/ UNCHANGED app /\ ~(x.step = "register" /\ calls[b][Scanner] # NoCall)
BY DEF Effect

\* The scan runs on one build and its answers are that build's, or are lost.
LEMMA Running ==
  ASSUME BenchCore, Scan
  PROVE  /\ ScanInv /\ Next /\ FileFound /\ stage \in {"first", "safe"} /\ pc \notin Ended
         /\ exit = "none" /\ Build \in Builds /\ Build' = Build /\ UNCHANGED <<suite, stage, first, result, exit>>
         /\ job' = job /\ suite \in Suites /\ job \in {suite.job, SafeJob(suite)}
         /\ (Controlled <=> stage = "safe") /\ (Controlled' <=> Controlled)
         /\ wire' = wire => UNCHANGED <<app, disturbed>>
         /\ wire' # wire => Served(Build, Last')
         /\ disturbed' \in 0..MaxDisturbances
<1>1. /\ ScanInv /\ Next /\ FileFound /\ stage \in {"first", "safe"} /\ pc \notin Ended
      /\ UNCHANGED <<suite, stage, first, result, exit>>
      /\ wire' = wire => UNCHANGED <<app, disturbed>>
      /\ wire' # wire => Served(Build, Last')
  BY DEF BenchCore, Scan, eval, Last
<1>2. exit = "none"
  BY <1>1 DEF BenchCore, BenchTypeOK, Course
<1>3. suite \in Suites /\ job \in {suite.job, SafeJob(suite)}
  BY <1>2, JobNow
<1>4. (Controlled <=> stage = "safe") /\ (Controlled' <=> Controlled)
  BY <1>1, <1>2 DEF Controlled
<1>5. Build \in Builds /\ Build' = Build
  BY <1>1 DEF Build, Builds
<1>6. disturbed' \in 0..MaxDisturbances
  <2>1. disturbed \in 0..MaxDisturbances /\ MaxDisturbances \in Nat
    BY BenchAssumption DEF BenchCore, BenchTypeOK
  <2>2. disturbed' = disturbed \/ (disturbed < MaxDisturbances /\ disturbed' = disturbed + 1)
    BY <1>1 DEF Served
  <2> QED BY <2>1, <2>2
<1> QED BY <1>1, <1>2, <1>3, <1>4, <1>5, <1>6, ScanSteps

\* The note a probe of bola creates belongs to an owner the suite names, if to anybody.
LEMMA NoteAsked ==
  ASSUME BenchCore, Scan, NEW resp \in Responses, Ask(resp), step = "create", Check = "bola"
  PROVE  \/ Asked.as = Nobody
         \/ \E k \in 1..Len(suite.job.hints["bola"]) :
              Asked.as = suite.job.hints["bola"][k].owner /\ Asked.as \in Accounts \ {Forged}
<1>1. suite \in Suites /\ job \in {suite.job, SafeJob(suite)} /\ ScanInv
  BY Running
<1>2. job.hints = suite.job.hints
  BY <1>1, TwoJobs
<1>3. item \in 1..Len(Items)
  BY <1>1, AskSends
<1>4. Items = suite.job.hints["bola"]
  BY <1>2 DEF Items, SpecDriven
<1>5. Asked.as = Credentials(Item.owner)
  BY DEF Asked, Creation, SpecDriven
<1>6. Item = suite.job.hints["bola"][item] /\ item \in 1..Len(suite.job.hints["bola"])
  BY <1>3, <1>4 DEF Item
<1>7. Item.owner \in Accounts \ {Forged}
  BY <1>1, <1>6, BolaHints, AppAssumption
<1> QED BY <1>5, <1>6, <1>7 DEF Credentials

\* A step of the scan is one of the target, or none.
LEMMA ScanEffect ==
  ASSUME BenchCore, Scan
  PROVE  /\ \/ UNCHANGED app
            \/ /\ Register /\ wire' # wire /\ calls[Build][Scanner] # NoCall
               /\ RegisterInsert(Build, Scanner, FALSE)
            \/ RegisterFresh(Build, Scanner, Fresh, TRUE)
            \/ \E as \in Accounts \cup {Nobody, Forged} : as # Forged /\ CreateNote(Build, as)
         /\ AppStep
         /\ \A b \in Builds : \/ note'[b] = note[b]
                              \/ \E k \in 1..Len(suite.job.hints["bola"]) :
                                   note'[b] = suite.job.hints["bola"][k].owner
<1>1. /\ ScanInv /\ Next /\ Build \in Builds
      /\ wire' = wire => UNCHANGED app
      /\ wire' # wire => Served(Build, Last')
  BY Running
<1>2. AppTypeOK /\ Scanner \in Clients
  BY BenchAssumption DEF BenchCore, AppInv
<1>3. CASE UNCHANGED app
  BY <1>3 DEF AppStep, app
<1>4. CASE ~UNCHANGED app
  <2>1. wire' # wire /\ Effect(Build, Last')
    BY <1>1, <1>4 DEF Served
  <2>2. CASE SpecFetch \/ Register \/ Login
    <3>1. Last'.step \in {"spec", "login"} \/ (Register /\ Last'.step = "register")
      BY <1>1, <2>2, SetupSends
    <3>2. /\ Register /\ calls[Build][Scanner] # NoCall /\ RegisterInsert(Build, Scanner, FALSE)
      BY <1>4, <2>1, <3>1, Effected
    <3>3. note' = note
      BY <3>2 DEF RegisterInsert
    <3> QED BY <1>1, <1>2, <2>1, <3>2, <3>3 DEF AppStep
  <2>3. CASE \E resp \in Responses : Ask(resp)
    <3>1. PICK resp \in Responses : Ask(resp)
      BY <2>3
    <3>2. Last'.step = step /\ Last'.as = Asked.as /\ step # "register"
      BY <1>1, <3>1, AskSends
    <3>3. CASE step = "create" /\ Check = "bola" /\ CreateNote(Build, Asked.as)
      <4>1. \/ Asked.as = Nobody
            \/ \E k \in 1..Len(suite.job.hints["bola"]) :
                 Asked.as = suite.job.hints["bola"][k].owner /\ Asked.as \in Accounts \ {Forged}
        BY <3>1, <3>3, NoteAsked
      <4>2. Nobody # Forged
        BY EngineAssumption
      <4>3. Asked.as \in Accounts \cup {Nobody, Forged} /\ Asked.as # Forged
        BY <4>1, <4>2
      <4>4. \A a \in Builds : note'[a] = note[a] \/ (note'[a] = Asked.as /\ Asked.as # Nobody)
        BY <1>1, <1>2, <3>3, <4>3, NoteIs
      <4> QED BY <1>1, <3>3, <4>1, <4>3, <4>4 DEF AppStep
    <3>4. CASE RegisterFresh(Build, Scanner, Fresh, TRUE)
      <4>1. note' = note
        BY <3>4 DEF RegisterFresh
      <4> QED BY <1>1, <3>4, <4>1 DEF AppStep
    <3> QED BY <1>4, <2>1, <3>2, <3>3, <3>4, Effected
  <2> QED BY <1>1, <2>1, <2>2, <2>3, ScanSteps
<1> QED BY <1>3, <1>4

------------------------------------------------------------------------------
\* The hardened build is silent.

\* No oracle accepts an answer of the hardened build (app.py with SAFE).
LEMMA SafeAnswer ==
  ASSUME BenchCore, Scan, stage = "safe", NEW resp \in Responses, Ask(resp),
         \/ step = "probe" /\ Check \in {"exposure", "ssrf"}
         \/ step = "inject" /\ Check = "sqli"
         \/ step = "read" /\ Check = "bola"
         \/ step = "confirm" /\ Check = "mass_assignment"
         \/ step = "alg_none" /\ Check = "jwt"
  PROVE  ~Fires(Check, resp)
<1>1. /\ ScanInv /\ suite \in Suites /\ job \in {suite.job, SafeJob(suite)} /\ Build = "safe"
      /\ wire' # wire => Served(Build, Last')
  BY Running DEF Build
<1>2. /\ wire' # wire /\ Last'.step = step /\ Last'.as = Asked.as /\ Last'.resp = resp
      /\ item \in 1..Len(Items)
  BY <1>1, AskSends
<1>3. resp = "lost" \/ resp = Answer("safe", Last')
  BY <1>1, <1>2 DEF Served
<1>4. CASE resp = "lost"
  BY <1>4 DEF Fires
<1>5. CASE resp = Answer("safe", Last') /\ step = "probe" /\ Check \in {"exposure", "ssrf"}
  <2>1. resp = Probed("safe", Last')
    BY <1>2, <1>5 DEF Answer
  <2>2. resp \in {"denied", "clean"}
    BY <2>1 DEF Probed, debug_users, me, url_preview, Allowlisted, url_preview_safe
  <2> QED BY <1>5, <2>2 DEF Fires
<1>6. CASE resp = Answer("safe", Last') /\ step = "inject" /\ Check = "sqli"
  <2>1. resp = Injected("safe", Last')
    BY <1>2, <1>6 DEF Answer
  <2>2. resp \in {"denied", "clean"}
    BY <2>1 DEF Injected, search_products, Concatenated
  <2> QED BY <1>6, <2>2 DEF Fires
<1>7. CASE resp = Answer("safe", Last') /\ step = "read" /\ Check = "bola"
  <2>1. resp = read_note("safe", Asked.as)
    BY <1>2, <1>7 DEF Answer
  <2>2. Items = suite.job.hints["bola"]
    BY <1>1, <1>7, TwoJobs DEF Items, SpecDriven
  <2>3. Asked.as = Nobody \/ Asked.as = suite.job.hints["bola"][item].as
    BY <1>7, <2>2 DEF Asked, Decision, SpecDriven, Credentials, Item
  <2>4. note["safe"] # NoNote => \E k \in 1..Len(suite.job.hints["bola"]) :
          note["safe"] = suite.job.hints["bola"][k].owner
    BY DEF BenchCore, NoteOwned, Builds
  <2>5. Asked.as = Nobody \/ note["safe"] = NoNote \/ note["safe"] # Asked.as
    BY <1>1, <1>2, <2>2, <2>3, <2>4, BolaHints
  <2>6. resp = "denied"
    BY <2>1, <2>5 DEF read_note, Principal, Readable
  <2> QED BY <1>7, <2>6 DEF Fires
<1>8. CASE resp = Answer("safe", Last') /\ step = "confirm" /\ Check = "mass_assignment"
  <2>1. resp = debug_shows_admin("safe", Fresh)
    BY <1>2, <1>8 DEF Answer
  <2>2. resp = "denied"
    BY <2>1 DEF debug_shows_admin
  <2> QED BY <1>8, <2>2 DEF Fires
<1>9. CASE resp = Answer("safe", Last') /\ step = "alg_none" /\ Check = "jwt"
  <2>1. resp = me("safe", Asked.as) /\ Asked.as = Forged
    BY <1>2, <1>9 DEF Answer, Asked, Decision, SpecDriven
  <2>2. resp = "denied"
    BY <2>1 DEF me, Principal
  <2> QED BY <1>9, <2>2 DEF Fires
<1> QED BY <1>3, <1>4, <1>5, <1>6, <1>7, <1>8, <1>9

\* No wordlist has the secret of the hardened build.
LEMMA SafeSecret ==
  ASSUME BenchCore, Scan, stage = "safe", NEW name, TokenFor(name) # NoToken
  PROVE  ~WeakSecret(TokenFor(name))
<1>1. /\ suite \in Suites /\ job \in {suite.job, SafeJob(suite)} /\ Controlled /\ Unguessed
  BY Running DEF BenchCore
<1>2. Len(job.auth) \in Nat
  BY <1>1, TwoJobs
<1>3. PICK n \in DOMAIN identities : TokenFor(name) = identities[n].token
  BY <1>1, <1>2, TokenOfOne
<1>4. TokenFor(name).decodable /\ TokenFor(name).key \notin Wordlist
  BY <1>1, <1>3 DEF Unguessed
<1> QED BY <1>4 DEF WeakSecret, Verifies, decode

\* So the second scan finds nothing, step by step.
LEMMA ScanSilent ==
  ASSUME BenchCore, Scan
  PROVE  Silent'
<1>0. /\ ScanInv /\ Next /\ (Controlled <=> stage = "safe") /\ (Controlled' <=> Controlled) /\ Silent
      /\ job' = job
  BY Running DEF BenchCore
<1> SUFFICES ASSUME stage = "safe"
             PROVE  /\ local' = <<>> /\ findings' = <<>> /\ report' = <<>> /\ hits' = <<>>
                    /\ SeenIn' = {}
  BY <1>0 DEF Silent
<1>1. local = <<>> /\ findings = <<>> /\ report = <<>> /\ hits = <<>> /\ SeenIn = {}
  BY <1>0 DEF Silent
<1>2. ASSUME /\ Len(wire) \in Nat /\ Len(wire') = Len(wire) + 1
             /\ \A k \in 1..Len(wire) : wire'[k] = wire[k]
             /\ Last'.step \notin Deciding \/ ~Fires(job.check_ids[Last'.slot], Last'.resp)
      PROVE  SeenIn' = {}
  <2> SUFFICES ASSUME NEW k \in 1..Len(wire'), wire'[k].step \in Deciding,
                      Fires(job'.check_ids[wire'[k].slot], wire'[k].resp)
               PROVE  FALSE
    BY DEF SeenIn, CheckOf
  <2>1. CASE k \in 1..Len(wire)
    <3>1. wire[k].step \in Deciding /\ Fires(CheckOf(wire[k]), wire[k].resp)
      BY <1>0, <1>2, <2>1 DEF CheckOf
    <3> QED BY <1>1, <2>1, <3>1 DEF SeenIn
  <2>2. CASE k = Len(wire')
    <3>1. wire'[k] = Last'
      BY <2>2 DEF Last
    <3> QED BY <1>0, <1>2, <3>1
  <2> QED BY <1>2, <2>1, <2>2
<1>3. CASE Asks
  <2>1. PICK resp \in Responses : Ask(resp) /\ Last'.resp = resp
    BY <1>0, <1>3, ScanSteps, AskSends DEF Asks, ExposureProbe, SqliInject, BolaCreate, BolaRead,
         MassCreate, MassConfirm, SsrfProbe, JwtAlgNone, Responses
  <2>2. /\ Len(wire) \in Nat /\ Len(wire') = Len(wire) + 1
        /\ \A k \in 1..Len(wire) : wire'[k] = wire[k]
        /\ Last'.step = step /\ Last'.slot = slot
        /\ findings' = findings /\ report' = report
    BY <1>0, <2>1, AskSends
  <2>3. CASE BolaCreate \/ MassCreate
    <3>1. step = "create" /\ local' = local /\ hits' = hits
      BY <2>3 DEF BolaCreate, MassCreate
    <3>2. SeenIn' = {}
      BY <1>2, <2>2, <3>1 DEF Deciding
    <3> QED BY <1>1, <2>2, <3>1, <3>2
  <2>4. CASE ExposureProbe \/ SsrfProbe \/ SqliInject \/ BolaRead \/ MassConfirm \/ JwtAlgNone
    <3>1. \/ step = "probe" /\ Check \in {"exposure", "ssrf"}
          \/ step = "inject" /\ Check = "sqli"
          \/ step = "read" /\ Check = "bola"
          \/ step = "confirm" /\ Check = "mass_assignment"
          \/ step = "alg_none" /\ Check = "jwt"
      BY <2>4 DEF ExposureProbe, SqliInject, BolaRead, MassConfirm, SsrfProbe, JwtAlgNone
    <3>2. \A r \in Responses : Ask(r) => ~Fires(Check, r)
      BY <3>1, SafeAnswer
    <3>3. local' = local /\ hits' = hits
      BY <2>4, <3>2 DEF ExposureProbe, SqliInject, BolaRead, MassConfirm, SsrfProbe, JwtAlgNone, Judge
    <3>4. SeenIn' = {}
      BY <1>2, <2>1, <2>2, <3>2 DEF Check
    <3> QED BY <1>1, <2>2, <3>3, <3>4
  <2> QED BY <1>3, <2>3, <2>4 DEF Asks
<1>4. CASE SpecFetch \/ Register \/ Login
  <2>1. /\ Len(wire) \in Nat /\ Len(wire') = Len(wire) + 1
        /\ \A k \in 1..Len(wire) : wire'[k] = wire[k]
        /\ Last'.step \in {"spec", "register", "login"}
        /\ UNCHANGED <<local, findings, report, hits>>
    BY <1>0, <1>4, SetupSends
  <2>2. SeenIn' = {}
    BY <1>2, <2>1 DEF Deciding
  <2> QED BY <1>1, <2>1, <2>2
<1>5. CASE Quietly /\ wire' = wire
  <2>1. SeenIn' = {}
    BY <1>0, <1>1, <1>5 DEF SeenIn, CheckOf
  <2>2. CASE ReturnFindings
    <3>1. local' = <<>> /\ findings' = <<>> \o <<>> /\ report' = report /\ hits' = hits
      BY <1>1, <2>2 DEF ReturnFindings, NextCheck
    <3> QED BY <1>1, <2>1, <3>1
  <2>3. CASE Dedup
    <3>1. slot \in Nat \ {0} /\ Len(findings) = 0
      BY <1>0, <1>1, Shape DEF ScanInv
    <3> QED BY <2>3, <3>1 DEF Dedup
  <2>4. CASE JwtWeakSecret
    <3>1. JwtToken # NoToken
      BY <1>0, <2>4 DEF JwtWeakSecret, ScanInv, EInv, TokenInHand
    <3>2. ~WeakSecret(JwtToken)
      BY <3>1, SafeSecret DEF JwtToken
    <3> QED BY <1>1, <2>1, <2>4, <3>2 DEF JwtWeakSecret
  <2>5. CASE \/ SkipCheck \/ BlockedMethod \/ CheckErrors
    BY <1>1, <2>1, <2>5 DEF SkipCheck, BlockedMethod, CheckErrors, NextCheck
  <2>6. CASE \/ Validate \/ Resolve \/ SpecNotGiven \/ SpecFile \/ Crawl \/ Crawled
             \/ StaticIdentity \/ LoginRefused \/ Authenticated \/ StartCheck \/ ChecksDone
             \/ PassBy \/ Begin \/ OutOfScope \/ JwtNoForgery \/ Return \/ Terminated
    BY <1>1, <2>1, <2>6 DEF Validate, Resolve, SpecNotGiven, SpecFile, Crawl, Crawled,
         StaticIdentity, LoginRefused, Authenticated, StartCheck, ChecksDone, PassBy, Begin,
         OutOfScope, JwtNoForgery, Return, Terminated, NextItem, probe, output, vars
  <2> QED BY <1>5, <2>2, <2>3, <2>4, <2>5, <2>6 DEF Quietly
<1> QED BY <1>0, <1>3, <1>4, <1>5, ScanSteps

------------------------------------------------------------------------------
\* What else a step of a scan keeps.

\* An identity is added for the entry of the auth block at hand, with its token or
\* with none (build_identities).
LEMMA IdentityChange ==
  ASSUME ScanInv, Next
  PROVE  \/ identities' = identities
         \/ /\ Authenticating
            /\ \E id : AddIdentity(id) /\ id.token \in {Account.token, NoToken}
<1>1. CASE Asks \/ SpecFetch \/ Register
  BY <1>1, SetupSends, AskSends DEF Asks, ExposureProbe, SqliInject, BolaCreate, BolaRead,
     MassCreate, MassConfirm, SsrfProbe, JwtAlgNone, Responses, SpecFetch, Register, setup
<1>2. CASE Login
  <2>1. CASE identities' # identities
    <3>1. Authenticating
      BY <1>2 DEF Login
    <3>2. PICK resp \in {"lost", "denied", "clean"} :
            AddIdentity(IF resp = "clean" /\ Account.token # NoToken
                        THEN [token |-> Account.token, headed |-> TRUE] ELSE Anonymous)
      BY <1>2, <2>1 DEF Login
    <3>3. CASE resp = "clean" /\ Account.token # NoToken
      <4> DEFINE id == [token |-> Account.token, headed |-> TRUE]
      <4>1. AddIdentity(id) /\ id.token = Account.token
        BY <3>2, <3>3
      <4> QED BY <3>1, <4>1
    <3>4. CASE ~(resp = "clean" /\ Account.token # NoToken)
      <4>1. AddIdentity(Anonymous) /\ Anonymous.token = NoToken
        BY <3>2, <3>4 DEF Anonymous
      <4> QED BY <3>1, <4>1
    <3> QED BY <3>3, <3>4
  <2> QED BY <2>1
<1>3. CASE StaticIdentity
  <2>1. CASE identities' # identities
    <3> DEFINE one == [token |-> Account.token, headed |-> TRUE]
               two == [token |-> NoToken, headed |-> TRUE]
    <3>1. Authenticating
      BY <1>3 DEF StaticIdentity
    <3>2. \/ AddIdentity(one) \/ AddIdentity(two) \/ AddIdentity(Anonymous)
      BY <1>3, <2>1 DEF StaticIdentity
    <3>3. one.token = Account.token /\ two.token = NoToken /\ Anonymous.token = NoToken
      BY DEF Anonymous
    <3> HIDE DEF one, two
    <3> QED BY <3>1, <3>2, <3>3
  <2> QED BY <2>1
<1>4. CASE Quietly /\ ~StaticIdentity
  BY <1>4 DEF Quietly, Validate, Resolve, SpecNotGiven, SpecFile, Crawl, Crawled, LoginRefused,
     Authenticated, SkipCheck, StartCheck, ReturnFindings, ChecksDone, PassBy, Begin, OutOfScope,
     BlockedMethod, CheckErrors, JwtWeakSecret, JwtNoForgery, Dedup, Return, Terminated,
     NextCheck, setup, vars
<1> QED BY <1>1, <1>2, <1>3, <1>4, ScanSteps

\* A step of a scan keeps what was guessed of nobody,
LEMMA ScanUnguessed ==
  ASSUME BenchCore, Scan
  PROVE  Unguessed'
<1>1. /\ ScanInv /\ Next /\ (Controlled' <=> Controlled) /\ job' = job /\ Unguessed
      /\ suite \in Suites /\ job \in {suite.job, SafeJob(suite)} /\ exit = "none"
  BY Running DEF BenchCore
<1>2. CASE identities' = identities
  BY <1>1, <1>2 DEF Unguessed
<1>3. CASE identities' # identities
  <2>1. Authenticating /\ \E id : AddIdentity(id) /\ id.token \in {Account.token, NoToken}
    BY <1>1, <1>3, IdentityChange
  <2>2. PICK id : AddIdentity(id) /\ id.token \in {Account.token, NoToken}
    BY <2>1
  <2>3. slot \in 1..Len(job.auth) /\ Account = job.auth[slot]
    BY <1>1, <2>1, AccountTyped DEF ScanInv, EInv, Account
  <2>4. /\ Account.name # Anon
        /\ Controlled /\ Account.token # NoToken =>
             Account.token.decodable /\ Account.token.key \notin Wordlist
    BY <1>1, <2>3, TwoJobs, JobNow
  <2>5. /\ DOMAIN identities' = DOMAIN identities \cup {Account.name}
        /\ identities'[Account.name] = id
        /\ \A n \in DOMAIN identities \ {Account.name} : identities'[n] = identities[n]
    BY <2>2 DEF AddIdentity
  <2> SUFFICES ASSUME NEW n \in DOMAIN identities'
               PROVE  /\ n = Anon \/ \E k \in 1..Len(job.auth) : job.auth[k].name = n
                      /\ n = Anon => identities'[n] = Anonymous
                      /\ Controlled /\ identities'[n].token # NoToken =>
                           identities'[n].token.decodable /\ identities'[n].token.key \notin Wordlist
    BY <1>1 DEF Unguessed
  <2>6. CASE n = Account.name
    BY <2>2, <2>3, <2>4, <2>5, <2>6
  <2>7. CASE n # Account.name
    <3>1. n \in DOMAIN identities /\ identities'[n] = identities[n]
      BY <2>5, <2>7
    <3> QED BY <1>1, <3>1 DEF Unguessed
  <2> QED BY <2>6, <2>7
<1> QED BY <1>2, <1>3

\* After the crawl the endpoints stay as they are (engine.scan, lines 112-116).
LEMMA AfterCrawl ==
  ASSUME ScanInv, Next, pc \notin Ended,
         ~(Validate \/ Resolve \/ SpecNotGiven \/ SpecFile \/ SpecFetch \/ Crawl \/ Crawled)
  PROVE  /\ endpoints' = endpoints /\ job' = job
         /\ pc \in {"auth", "checks", "run", "dedup"}
         /\ pc' \notin {"validate", "resolve", "spec", "crawl"}
<1>1. CASE Asks
  BY <1>1, AskSends DEF Asks, ExposureProbe, SqliInject, BolaCreate, BolaRead,
     MassCreate, MassConfirm, SsrfProbe, JwtAlgNone, Responses
<1>2. CASE Register \/ Login \/ StaticIdentity \/ Authenticated
  BY <1>2 DEF Register, Login, StaticIdentity, Authenticated, Authenticating, setup
<1>3. CASE LoginRefused
  BY <1>3 DEF LoginRefused, Gate, Destructive, Authenticating, setup
<1>4. CASE \/ SkipCheck \/ StartCheck \/ ReturnFindings \/ ChecksDone
           \/ PassBy \/ Begin \/ OutOfScope \/ BlockedMethod \/ CheckErrors
           \/ JwtWeakSecret \/ JwtNoForgery \/ Dedup \/ Return
  BY <1>4 DEF SkipCheck, StartCheck, ReturnFindings, ChecksDone, PassBy, Begin, OutOfScope,
     BlockedMethod, CheckErrors, Asking, JwtWeakSecret, JwtNoForgery, Dedup, Return, NextCheck, setup
<1> QED BY <1>1, <1>2, <1>3, <1>4 DEF Next, Asks, Terminated

\* The endpoints of a document are crawled one after the other, less the excluded.
LEMMA OneCrawled ==
  ASSUME NEW j, NEW n \in Nat \ {0}, n <= Len(j.openapi.paths), Len(j.openapi.paths) \in Nat
  PROVE  AllOf(j, n) = AllOf(j, n - 1) \cup
           (IF j.openapi.paths[n].path \in j.exclude THEN {} ELSE {j.openapi.paths[n]})
<1>1. \A m \in 1..n : m \in 1..(n - 1) \/ m = n
  OBVIOUS
<1>2. \A m \in 1..(n - 1) : m \in 1..n
  OBVIOUS
<1>3. n \in 1..n
  OBVIOUS
<1> QED BY <1>1, <1>2, <1>3 DEF AllOf

\* and what was crawled.
LEMMA ScanCrawled ==
  ASSUME BenchCore, Scan
  PROVE  AllCrawled'
<1>1. /\ ScanInv /\ Next /\ FileFound /\ (Controlled' <=> Controlled) /\ job' = job /\ AllCrawled
      /\ pc \notin Ended /\ UNCHANGED <<suite, first>>
      /\ wire' # wire => Served(Build, Last')
  BY Running DEF BenchCore
<1>2. /\ slot \in Nat \ {0} /\ endpoints \in Seq(Endpoint) /\ job \in Jobs
      /\ pc \in {"validate", "resolve", "spec"} => endpoints = <<>> /\ slot = 1
  BY <1>1, Shape DEF ScanInv, OperationsOnce, AllCrawled
<1>3. Len(job.openapi.paths) \in Nat
  BY <1>2, JobTypes DEF Openapi
<1>4. (NeedsSpec' <=> NeedsSpec) /\ \A n : AllOf(job, n)' = AllOf(job, n)
  BY <1>1 DEF NeedsSpec, Slots, AllOf
<1>5. (Controlled /\ Crawls(suite.job) =>
        first.endpoints = AllOf(suite.job, Len(suite.job.openapi.paths)))'
  BY <1>1 DEF AllCrawled, Crawls, AllOf
<1> DEFINE Start == pc \in {"validate", "resolve", "spec"} => slot = 1
           During == pc = "crawl" => slot <= Len(job.openapi.paths) + 1 /\ Offered = AllOf(job, slot - 1)
           After == pc \in {"auth", "checks", "run", "dedup", "done"} /\ NeedsSpec =>
                      Offered = AllOf(job, Len(job.openapi.paths))
<1>6. Start /\ During /\ After
  BY <1>1 DEF AllCrawled
<1>7. Start' /\ During' /\ After'
  <2>1. CASE Validate \/ Resolve
    <3>1. pc' \in {"resolve", "spec", "ScopeError", "KeyError"} /\ slot' = slot
          /\ pc \in {"validate", "resolve"}
      BY <2>1 DEF Validate, Resolve
    <3> QED BY <1>2, <3>1
  <2>2. CASE SpecNotGiven \/ SpecFile \/ SpecFetch
    <3>1. /\ pc = "spec" /\ slot' = slot /\ endpoints' = endpoints
          /\ pc' \in {"ScanError", "auth", "crawl"}
      BY <2>2 DEF SpecNotGiven, SpecFile, SpecFetch, SpecUnusable, setup
    <3>2. pc' = "auth" => ~NeedsSpec
      <4>1. CASE SpecNotGiven \/ SpecFile
        BY <4>1 DEF SpecNotGiven, SpecFile, SpecUnusable
      <4>2. CASE SpecFetch
        <5>1. /\ wire' # wire /\ Last'.step = "spec"
              /\ \/ Last'.resp \in {"lost", "denied"} /\ SpecUnusable
                 \/ Last'.resp = "denied" /\ pc' = "auth"
                 \/ Last'.resp = "clean" /\ pc' = "crawl"
          BY <1>1, <4>2, SetupSends DEF Register, Login, Authenticating, SpecFetch
        <5>2. Last'.resp \in {"lost", "clean"}
          BY <1>1, <5>1 DEF Served, Answer
        <5> QED BY <5>1, <5>2 DEF SpecUnusable
      <4> QED BY <2>2, <4>1, <4>2
    <3>3. Offered' = {} /\ slot' - 1 = 0
      BY <1>2, <3>1 DEF Offered
    <3>4. AllOf(job, 0) = {}
      BY DEF AllOf
    <3>5. slot' <= Len(job'.openapi.paths) + 1
      BY <1>1, <1>2, <1>3, <3>1
    <3> QED BY <1>1, <1>4, <3>1, <3>2, <3>3, <3>4, <3>5
  <2>3. CASE Crawl
    <3> DEFINE ep == job.openapi.paths[slot]
    <3>1. /\ pc = "crawl" /\ pc' = "crawl" /\ slot' = slot + 1 /\ slot <= Len(job.openapi.paths)
          /\ endpoints' = IF ep.path \in job.exclude THEN endpoints ELSE Append(endpoints, ep)
      BY <2>3 DEF Crawl
    <3>2. Offered = AllOf(job, slot - 1)
      BY <1>6, <3>1
    <3>3. Offered' = Offered \cup (IF ep.path \in job.exclude THEN {} ELSE {ep})
      <4>1. CASE ep.path \in job.exclude
        BY <3>1, <4>1 DEF Offered
      <4>2. CASE ep.path \notin job.exclude
        <5>1. endpoints' = Append(endpoints, ep)
          BY <3>1, <4>2
        <5> HIDE DEF ep
        <5>2. /\ Len(endpoints') = Len(endpoints) + 1 /\ Len(endpoints) \in Nat
              /\ endpoints'[Len(endpoints) + 1] = ep
              /\ \A i \in 1..Len(endpoints) : endpoints'[i] = endpoints[i]
          BY <1>2, <5>1
        <5>3. \A i \in 1..Len(endpoints') : i \in 1..Len(endpoints) \/ i = Len(endpoints) + 1
          BY <5>2
        <5>4. \A i \in 1..Len(endpoints) : i \in 1..Len(endpoints')
          BY <5>2
        <5>5. Len(endpoints) + 1 \in 1..Len(endpoints')
          BY <5>2
        <5> QED BY <4>2, <5>2, <5>3, <5>4, <5>5 DEF Offered
      <4> QED BY <4>1, <4>2
    <3>4. AllOf(job, slot) = AllOf(job, slot - 1) \cup (IF ep.path \in job.exclude THEN {} ELSE {ep})
      BY <1>2, <1>3, <3>1, OneCrawled
    <3>5. slot' - 1 = slot /\ slot' <= Len(job'.openapi.paths) + 1
      BY <1>1, <1>2, <1>3, <3>1
    <3> QED BY <1>4, <3>1, <3>2, <3>3, <3>4, <3>5
  <2>4. CASE Crawled
    <3>1. pc = "crawl" /\ pc' = "auth" /\ slot > Len(job.openapi.paths) /\ endpoints' = endpoints
      BY <2>4 DEF Crawled, setup
    <3>2. slot - 1 = Len(job.openapi.paths) /\ Offered = AllOf(job, slot - 1)
      BY <1>2, <1>3, <1>6, <3>1
    <3> QED BY <1>1, <1>4, <3>1, <3>2 DEF Offered
  <2>5. CASE ~(Validate \/ Resolve \/ SpecNotGiven \/ SpecFile \/ SpecFetch \/ Crawl \/ Crawled)
    <3>1. /\ endpoints' = endpoints /\ pc \in {"auth", "checks", "run", "dedup"}
          /\ pc' \notin {"validate", "resolve", "spec", "crawl"}
      BY <1>1, <2>5, AfterCrawl
    <3> QED BY <1>1, <1>4, <1>6, <3>1 DEF Offered
  <2> QED BY <2>1, <2>2, <2>3, <2>4, <2>5
<1> QED BY <1>5, <1>7 DEF AllCrawled

\* The account at hand is one the scanner registers (_register_and_login).
LEMMA AccountNow ==
  ASSUME BenchCore, exit # "1", Authenticating
  PROVE  /\ slot \in 1..Len(job.auth) /\ Account = job.auth[slot] /\ Account.name \in Accounts
         /\ Account.kind = "login" => Account.register
<1>1. ScanInv /\ suite \in Suites /\ job \in {suite.job, SafeJob(suite)}
  BY JobNow DEF BenchCore
<1>2. slot \in 1..Len(job.auth) /\ Account = job.auth[slot]
  BY <1>1, AccountTyped DEF ScanInv, EInv, Account
<1> QED BY <1>1, <1>2, TwoJobs

\* A name that a visitor took stays taken.
Taken(j) ==
  \E b \in Builds : \E k \in 1..Len(log[b]) :
    /\ log[b][k].do = "insert" /\ log[b][k].client # Scanner
    /\ \E a \in 1..Len(j.auth) : j.auth[a].name = log[b][k].name

\* A job that is taken stays so while the app answers.
LEMMA TakenStays ==
  ASSUME AppTypeOK, AppStep, job' = job, Taken(job)
  PROVE  Taken(job)'
<1>1. PICK b \in Builds : \E k \in 1..Len(log[b]) :
        /\ log[b][k].do = "insert" /\ log[b][k].client # Scanner
        /\ \E a \in 1..Len(job.auth) : job.auth[a].name = log[b][k].name
  BY DEF Taken
<1>2. PICK k \in 1..Len(log[b]) :
        /\ log[b][k].do = "insert" /\ log[b][k].client # Scanner
        /\ \E a \in 1..Len(job.auth) : job.auth[a].name = log[b][k].name
  BY <1>1
<1>3. /\ Len(log[b]) \in Nat /\ Len(log'[b]) \in Nat /\ Len(log[b]) <= Len(log'[b])
      /\ \A m \in 1..Len(log[b]) : log'[b][m] = log[b][m]
  BY AppGrows
<1>4. k \in 1..Len(log'[b]) /\ log'[b][k] = log[b][k]
  BY <1>3
<1> QED BY <1>2, <1>4 DEF Taken

\* A login is only refused when a visitor has the name: the account is a user, for
\* register was answered, and not the scanner's (app.py:249-256).
LEMMA ScanLogin ==
  ASSUME BenchCore, Scan
  PROVE  LoginHolds'
<1>1. /\ ScanInv /\ Next /\ exit = "none" /\ job' = job /\ first' = first /\ LoginHolds /\ Build \in Builds
      /\ stage \in {"first", "safe"} /\ AppTypeOK
      /\ wire' # wire => Served(Build, Last')
  BY Running DEF BenchCore, AppInv
<1>2. AppStep
  BY ScanEffect
<1>3. Taken(job) => Taken(job)'
  BY <1>1, <1>2, TakenStays
<1>4. LoginHolds <=> (LoginDenied \/ first.denied => Taken(job))
  BY DEF LoginHolds, Taken
<1>5. LoginHolds' <=> (LoginDenied' \/ first'.denied => Taken(job)')
  BY DEF LoginHolds, Taken
<1>6. ASSUME Login, Last'.resp = "denied", wire' # wire, Last'.step = "login"
      PROVE  Taken(job)'
  <2>1. Authenticating /\ Account.kind = "login" /\ (Account.register => step = "login")
    BY <1>6 DEF Login
  <2>2. /\ slot \in 1..Len(job.auth) /\ Account = job.auth[slot] /\ step = "login" /\ pc = "auth"
    BY <1>1, <2>1, AccountNow DEF Authenticating
  <2>3. Account.name \in DOMAIN users[Build]
    BY <1>1, <2>2 DEF BenchCore, Enrolled
  <2>4. login(Build, Scanner, Account.name) = "denied"
    BY <1>1, <1>6 DEF Served, Answer
  <2>5. users[Build][Account.name].by # Scanner
    BY <2>3, <2>4 DEF login
  <2>6. VisitorLogged(Build, Account.name)
    BY <1>1, <2>3, <2>5 DEF BenchCore, AppInv, VisitorsLogged
  <2>7. Taken(job)
    BY <1>1, <2>2, <2>6 DEF VisitorLogged, Taken
  <2> QED BY <1>3, <2>7
<1>7. CASE LoginDenied' /\ ~LoginDenied
  <2>1. PICK k \in 1..Len(wire') : wire'[k].step = "login" /\ wire'[k].resp = "denied"
    BY <1>7 DEF LoginDenied
  <2>2. wire' # wire
    BY <1>7 DEF LoginDenied
  <2>3. CASE \E resp \in Responses : Ask(resp)
    <3>1. /\ Len(wire) \in Nat /\ Len(wire') = Len(wire) + 1 /\ Last'.step # "login"
          /\ \A m \in 1..Len(wire) : wire'[m] = wire[m]
      BY <1>1, <2>3, AskSends
    <3>2. wire'[Len(wire')].step # "login"
      BY <3>1 DEF Last
    <3>3. k \in 1..Len(wire)
      BY <2>1, <3>1, <3>2
    <3> QED BY <1>7, <2>1, <3>1, <3>3 DEF LoginDenied
  <2>4. CASE SpecFetch \/ Register \/ Login
    <3>1. /\ Len(wire) \in Nat /\ Len(wire') = Len(wire) + 1
          /\ \A m \in 1..Len(wire) : wire'[m] = wire[m]
          /\ Last'.step = "login" => Login
      BY <1>1, <2>4, SetupSends
    <3>2. CASE k \in 1..Len(wire)
      BY <1>7, <2>1, <3>1, <3>2 DEF LoginDenied
    <3>3. CASE k = Len(wire')
      <4>1. Last'.step = "login" /\ Last'.resp = "denied"
        BY <2>1, <3>3 DEF Last
      <4> QED BY <1>5, <1>6, <2>2, <3>1, <4>1
    <3> QED BY <3>1, <3>2, <3>3
  <2> QED BY <1>1, <2>2, <2>3, <2>4, ScanSteps
<1>8. CASE LoginDenied' => LoginDenied
  <2>1. Taken(job) \/ ~(LoginDenied \/ first.denied)
    BY <1>1, <1>4
  <2> QED BY <1>1, <1>3, <1>5, <1>8, <2>1
<1> QED BY <1>7, <1>8

\* A call of register that the target has received is about the account at hand, and
\* a user is there when its login is sent (_register_and_login, register).
LEMMA ScanEnrolled ==
  ASSUME BenchCore, Scan
  PROVE  Enrolled'
<1>1. /\ ScanInv /\ Next /\ job' = job /\ stage' = stage /\ Build \in Builds /\ Build' = Build
      /\ stage \in {"first", "safe"} /\ pc \notin Ended /\ AppTypeOK /\ Enrolled
      /\ wire' = wire => UNCHANGED app
      /\ wire' # wire => Served(Build, Last')
  BY Running DEF BenchCore, AppInv
<1>2. Scanner \in Clients /\ "safe" \in Builds
  BY BenchAssumption DEF Builds
<1>3. \/ calls' = calls
      \/ /\ Register /\ RegisterInsert(Build, Scanner, FALSE)
         /\ calls'[Build][Scanner] = NoCall /\ \A a \in Builds \ {Build} : calls'[a] = calls[a]
  <2>1. CASE UNCHANGED app
    BY <2>1 DEF app
  <2>2. CASE Register /\ RegisterInsert(Build, Scanner, FALSE)
    BY <1>1, <1>2, <2>2, InsertIs
  <2>3. CASE RegisterFresh(Build, Scanner, Fresh, TRUE)
    BY <2>3 DEF RegisterFresh
  <2>4. CASE \E as \in Accounts \cup {Nobody, Forged} : as # Forged /\ CreateNote(Build, as)
    BY <2>4 DEF CreateNote
  <2> QED BY <2>1, <2>2, <2>3, <2>4, ScanEffect
<1>4. stage' \in {"load", "first"} => calls'["safe"][Scanner] = NoCall
  <2>1. stage = "first" => Build = "vulnerable" /\ calls["safe"][Scanner] = NoCall
    BY <1>1 DEF Build, Enrolled
  <2> QED BY <1>1, <1>2, <1>3, <2>1
<1>5. ASSUME pc' \notin Ended, calls'[Build][Scanner] # NoCall PROVE FALSE \/ (Registering /\ ~Register)
  <2>1. calls' = calls
    BY <1>3, <1>5
  <2>2. Registering /\ calls[Build][Scanner] = Account.name
    BY <1>1, <1>5, <2>1 DEF Enrolled
  <2>3. ~Register
    <3> SUFFICES ASSUME Register PROVE FALSE
      OBVIOUS
    <3>1. wire' # wire /\ Last'.step = "register"
      BY <1>1, SetupSends DEF Register, SpecFetch, Login, Authenticating
    <3>2. Effect(Build, Last')
      BY <1>1, <1>5, <2>1, <3>1 DEF Served
    <3>3. RegisterInsert(Build, Scanner, FALSE)
      BY <1>5, <2>1, <3>1, <3>2, Effected
    <3> QED BY <1>1, <1>2, <1>5, <3>3, InsertIs
  <2> QED BY <2>2, <2>3
<1>6. ASSUME pc' \notin Ended, Registering, ~Register PROVE FALSE
  <2>1. /\ pc = "auth" /\ slot <= Len(job.auth) /\ step = "next" /\ Account.kind = "login" /\ Account.register
    BY <1>6 DEF Registering, Authenticating
  <2>2. ~Asks
    BY <2>1 DEF Asks, ExposureProbe, SqliInject, BolaCreate, BolaRead, MassCreate, MassConfirm,
                SsrfProbe, JwtAlgNone
  <2>3. ~(\/ Validate \/ Resolve \/ SpecNotGiven \/ SpecFile \/ SpecFetch \/ Crawl \/ Crawled)
    BY <2>1 DEF Validate, Resolve, SpecNotGiven, SpecFile, SpecFetch, Crawl, Crawled
  <2>4. ~(StaticIdentity \/ LoginRefused \/ Login)
    <3>1. ~StaticIdentity /\ ~Login
      BY <2>1 DEF StaticIdentity, Login
    <3>2. LoginRefused => FALSE
      <4> SUFFICES ASSUME LoginRefused PROVE FALSE
        OBVIOUS
      <4>1. pc' = "ScopeError"
        BY DEF LoginRefused, Gate, Destructive
      <4> QED BY <1>6, <4>1 DEF Ended
    <3> QED BY <3>1, <3>2
  <2>5. ~Authenticated
    <3>1. slot \in Nat /\ Len(job.auth) \in Nat
      BY <1>1, Shape, JobTypes DEF ScanInv
    <3> QED BY <2>1, <3>1 DEF Authenticated
  <2>6. ~(\/ SkipCheck \/ StartCheck \/ ReturnFindings \/ ChecksDone
          \/ PassBy \/ Begin \/ OutOfScope \/ BlockedMethod \/ CheckErrors
          \/ JwtWeakSecret \/ JwtNoForgery \/ Dedup \/ Return)
    BY <2>1 DEF SkipCheck, StartCheck, ReturnFindings, ChecksDone, PassBy, Begin, OutOfScope,
       BlockedMethod, CheckErrors, Asking, JwtWeakSecret, JwtNoForgery, Dedup, Return
  <2> QED BY <1>1, <1>6, <2>2, <2>3, <2>4, <2>5, <2>6 DEF Next, Asks, Terminated
<1>7. ASSUME pc' = "auth", step' = "login"
      PROVE  Account'.name \in DOMAIN users'[Build]
  <2>1. DOMAIN users[Build] \subseteq DOMAIN users'[Build]
    BY <1>1, ScanEffect, AppGrows
  <2>2. CASE Register
    <3>1. /\ wire' # wire /\ Last'.step = "register"
          /\ IF Last'.resp = "lost" THEN pc' = "HTTPError" /\ UNCHANGED step
                                    ELSE step' = "login" /\ UNCHANGED pc
      BY <1>1, <2>2, SetupSends DEF Register, SpecFetch, Login, Authenticating
    <3>2. Account' = Account
      BY <1>1, <2>2 DEF Register, Account
    <3>3. Effect(Build, Last') /\ (calls[Build][Scanner] # NoCall \/ Account.name \in DOMAIN users[Build])
      BY <1>1, <1>7, <3>1 DEF Served
    <3>4. CASE Account.name \in DOMAIN users[Build]
      BY <2>1, <3>2, <3>4
    <3>5. CASE calls[Build][Scanner] # NoCall
      <4>1. RegisterInsert(Build, Scanner, FALSE)
        BY <3>1, <3>3, <3>5, Effected
      <4>2. calls[Build][Scanner] = Account.name
        BY <1>1, <3>5 DEF Enrolled
      <4>3. DOMAIN users'[Build] = DOMAIN users[Build] \cup {calls[Build][Scanner]}
        BY <1>1, <1>2, <4>1, InsertIs
      <4> QED BY <3>2, <4>2, <4>3
    <3> QED BY <3>3, <3>4, <3>5
  <2>3. CASE ~Register
    <3>1. pc = "auth" /\ step = "login" /\ slot' = slot
      <4>1. StepInPlace
        BY <1>1 DEF ScanInv, EInv, IInv
      <4>2. CASE Asks
        BY <1>1, <1>7, <4>2, AskSends DEF Asks, ExposureProbe, SqliInject, BolaCreate, BolaRead,
           MassCreate, MassConfirm, SsrfProbe, JwtAlgNone, Responses
      <4>3. CASE Validate \/ Resolve \/ SpecNotGiven \/ SpecFile \/ SpecFetch \/ Crawl \/ Crawled
        <5>1. step' = step /\ pc \in {"validate", "resolve", "spec", "crawl"}
          BY <4>3 DEF Validate, Resolve, SpecNotGiven, SpecFile, SpecFetch, Crawl, Crawled, probe
        <5> QED BY <1>7, <4>1, <5>1 DEF StepInPlace, Phases
      <4>4. CASE StaticIdentity
        <5>1. step' = step /\ pc = "auth" /\ Account.kind # "login"
          BY <4>4 DEF StaticIdentity, Authenticating, probe
        <5> QED BY <1>7, <4>1, <5>1 DEF StepInPlace
      <4>5. CASE Login \/ Authenticated
        BY <1>7, <4>5 DEF Login, Authenticated
      <4>6. CASE LoginRefused
        BY <1>7, <4>6 DEF LoginRefused, Authenticating, probe
      <4>7. CASE \/ SkipCheck \/ StartCheck \/ ReturnFindings \/ ChecksDone
                 \/ PassBy \/ Begin \/ OutOfScope \/ BlockedMethod \/ CheckErrors
                 \/ JwtWeakSecret \/ JwtNoForgery \/ Dedup \/ Return
        BY <1>7, <4>7 DEF SkipCheck, StartCheck, ReturnFindings, ChecksDone, PassBy, Begin, OutOfScope,
           BlockedMethod, CheckErrors, Asking, JwtWeakSecret, JwtNoForgery, Dedup, Return, NextCheck
      <4> QED BY <1>1, <2>3, <4>2, <4>3, <4>4, <4>5, <4>6, <4>7 DEF Next, Asks, Terminated
    <3>2. Account' = Account /\ Account.name \in DOMAIN users[Build]
      BY <1>1, <3>1 DEF Account, Enrolled
    <3> QED BY <2>1, <3>2
  <2> QED BY <2>2, <2>3
<1> QED BY <1>1, <1>4, <1>5, <1>6, <1>7 DEF Enrolled

\* A step of a scan keeps what an evaluation keeps.
LEMMA ScanCore ==
  ASSUME BenchCore, Scan
  PROVE  BenchCore'
<1>1. /\ ScanInv /\ Next /\ exit = "none" /\ stage \in {"first", "safe"} /\ job' = job
      /\ UNCHANGED <<suite, stage, first, result, exit>>
      /\ (Controlled' <=> Controlled) /\ disturbed' \in 0..MaxDisturbances
  BY Running
<1>2. ScanInv'
  BY <1>1, NextScanInv
<1>3. AppInv'
  BY ScanEffect, AppKept DEF BenchCore
<1>4. BenchTypeOK'
  BY <1>1, <1>2, <1>3 DEF BenchCore, BenchTypeOK, AppInv, ScanInv, EInv, IInv, Stages
<1>5. NoteOwned'
  BY <1>1, ScanEffect DEF BenchCore, NoteOwned
<1>6. Course'
  BY <1>1 DEF BenchCore, Course
<1>7. Explained'
  BY <1>1 DEF BenchCore, Explained, Expected, LowRecall
<1>8. LoginHolds' /\ Unguessed' /\ Silent' /\ AllCrawled' /\ Enrolled'
  BY ScanLogin, ScanUnguessed, ScanSilent, ScanCrawled, ScanEnrolled
<1> QED BY <1>2, <1>3, <1>4, <1>5, <1>6, <1>7, <1>8 DEF BenchCore

------------------------------------------------------------------------------
\* The steps around the scans.

\* A new scan starts as the first one did.
LEMMA InitAgain == Init' => ScanInv'
BY InitScanInv, PTL

\* What a step keeps that changes nothing of the scan, the suite and the notes.
LEMMA StillCore ==
  ASSUME BenchCore, UNCHANGED <<vars, suite, first, note>>, AppStep, Controlled' => Controlled
  PROVE  /\ ScanInv' /\ AppInv' /\ TypeOK' /\ AppTypeOK'
         /\ LoginHolds' /\ Unguessed' /\ NoteOwned' /\ Silent' /\ AllCrawled'
<1>1. ScanInv'
  BY NextScanInv DEF BenchCore
<1>2. AppInv' /\ AppTypeOK' /\ AppTypeOK
  BY AppKept DEF BenchCore, AppInv
<1>3. job' = job /\ wire' = wire /\ identities' = identities /\ suite' = suite /\ first' = first /\ note' = note
  BY DEF vars
<1>4. LoginHolds'
  <2>1. LoginHolds <=> (LoginDenied \/ first.denied => Taken(job))
    BY DEF LoginHolds, Taken
  <2>2. LoginHolds' <=> (LoginDenied' \/ first'.denied => Taken(job)')
    BY DEF LoginHolds, Taken
  <2>3. LoginDenied' <=> LoginDenied
    BY <1>3 DEF LoginDenied
  <2>4. Taken(job) => Taken(job)'
    BY <1>2, <1>3, TakenStays
  <2> QED BY <1>3, <2>1, <2>2, <2>3, <2>4 DEF BenchCore
<1>5. Unguessed'
  BY <1>3 DEF BenchCore, Unguessed
<1>6. NoteOwned'
  BY <1>3 DEF BenchCore, NoteOwned
<1>7. Silent'
  BY DEF BenchCore, Silent, vars, SeenIn, CheckOf
<1>8. AllCrawled'
  BY DEF BenchCore, AllCrawled, vars, Offered, NeedsSpec, Slots
<1> QED BY <1>1, <1>2, <1>4, <1>5, <1>6, <1>7, <1>8 DEF ScanInv, EInv, IInv

\* A call of register is received or ends, the scanner's or a visitor's (app.py:232-247).
LEMMA CallCore ==
  ASSUME BenchCore,
         \/ Receive
         \/ \E c \in Clients : VisitorTest(c) \/ \E b \in Builds : VisitorInsert(c, b)
  PROVE  BenchCore'
<1>1. /\ UNCHANGED <<vars, suite, stage, first, result, exit>> /\ (Controlled' <=> Controlled)
      /\ Build \in Builds /\ Build' = Build /\ "safe" \in Builds /\ Scanner \in Clients /\ AppTypeOK /\ Enrolled
  BY BenchAssumption DEF BenchCore, AppInv, Receive, VisitorTest, VisitorInsert, eval, Controlled, Build, Builds
<1>2. disturbed' \in 0..MaxDisturbances
  <2>1. disturbed \in 0..MaxDisturbances /\ MaxDisturbances \in Nat
    BY BenchAssumption DEF BenchCore, BenchTypeOK
  <2>2. disturbed' = disturbed \/ (disturbed < MaxDisturbances /\ disturbed' = disturbed + 1)
    BY DEF Receive, VisitorTest, VisitorInsert
  <2> QED BY <2>1, <2>2
<1>3. AppStep /\ note' = note /\ Enrolled'
  <2>1. ASSUME Receive PROVE AppStep /\ note' = note /\ Enrolled'
    <3>1. /\ stage \in {"first", "safe"} /\ Registering /\ Authenticating /\ step = "next"
          /\ RegisterTest(Build, Scanner, Account.name)
      BY <2>1 DEF Receive, Registering
    <3>2. exit # "1"
      BY <3>1 DEF BenchCore, Course
    <3>3. Account.name \in Accounts
      BY <3>1, <3>2, AccountNow
    <3>4. PICK n \in Accounts : n = Account.name
      BY <3>3
    <3>5. RegisterTest(Build, Scanner, n)
      BY <3>1, <3>4
    <3>6. /\ note' = note /\ users' = users
          /\ calls[Build] \in [Clients -> Accounts \cup {NoCall}]
          /\ calls' = [calls EXCEPT ![Build][Scanner] = n]
      BY <1>1, <3>5 DEF RegisterTest, AppTypeOK
    <3>10. calls'[Build][Scanner] = n /\ \A a \in Builds \ {Build} : calls'[a] = calls[a]
      BY <1>1, <3>6 DEF AppTypeOK
    <3>7. AppStep
      BY <1>1, <3>5 DEF AppStep
    <3>8. (Registering' <=> Registering) /\ Account' = Account /\ pc' = pc /\ step' = step
      BY <1>1 DEF Registering, Authenticating, Account, vars
    <3>9. stage = "first" => Build = "vulnerable"
      BY DEF Build
    <3> QED BY <1>1, <3>1, <3>4, <3>6, <3>7, <3>8, <3>9, <3>10 DEF Enrolled
  <2>2. ASSUME NEW c \in Clients, c # Scanner, NEW b \in Builds, AppStep, note' = note,
               \A a \in Builds : calls'[a][Scanner] = calls[a][Scanner]
        PROVE  Enrolled'
    <3>1. DOMAIN users[Build] \subseteq DOMAIN users'[Build]
      BY <1>1, <2>2, AppGrows
    <3>2. (Registering' <=> Registering) /\ Account' = Account /\ pc' = pc /\ step' = step
      BY <1>1 DEF Registering, Authenticating, Account, vars
    <3> QED BY <1>1, <2>2, <3>1, <3>2 DEF Enrolled
  <2>3. ASSUME NEW c \in Clients, VisitorTest(c) PROVE AppStep /\ note' = note /\ Enrolled'
    <3>1. PICK n \in Accounts \ {Fresh} : RegisterTest(Build, c, n)
      BY <2>3 DEF VisitorTest
    <3>2. /\ note' = note /\ c # Scanner
          /\ \A d \in Clients \ {c} : calls'[Build][d] = calls[Build][d]
          /\ \A a \in Builds \ {Build} : calls'[a] = calls[a]
      BY <1>1, <2>3, <3>1, TestIs DEF VisitorTest
    <3>3. AppStep
      BY <1>1, <3>1 DEF AppStep
    <3>4. \A a \in Builds : calls'[a][Scanner] = calls[a][Scanner]
      BY <1>1, <3>2
    <3> QED BY <1>1, <2>2, <3>2, <3>3, <3>4
  <2>4. ASSUME NEW c \in Clients, NEW b \in Builds, VisitorInsert(c, b)
        PROVE  AppStep /\ note' = note /\ Enrolled'
    <3>1. RegisterInsert(b, c, FALSE) /\ c # Scanner
      BY <2>4 DEF VisitorInsert
    <3>2. /\ note' = note
          /\ \A d \in Clients \ {c} : calls'[b][d] = calls[b][d]
          /\ \A a \in Builds \ {b} : calls'[a] = calls[a]
      BY ZenonT(40), <1>1, <3>1, InsertIs
    <3>3. AppStep
      BY <3>1 DEF AppStep
    <3>4. \A a \in Builds : calls'[a][Scanner] = calls[a][Scanner]
      BY <1>1, <3>1, <3>2
    <3> QED BY <2>2, <3>1, <3>2, <3>3, <3>4
  <2> QED BY <2>1, <2>3, <2>4
<1>4. /\ ScanInv' /\ AppInv' /\ TypeOK' /\ AppTypeOK'
      /\ LoginHolds' /\ Unguessed' /\ NoteOwned' /\ Silent' /\ AllCrawled'
  BY <1>1, <1>3, StillCore
<1>5. BenchTypeOK'
  BY <1>1, <1>2, <1>4 DEF BenchCore, BenchTypeOK
<1>6. Course'
  BY <1>1 DEF BenchCore, Course, Init, Slots, vars
<1>7. Explained'
  BY <1>1 DEF BenchCore, Explained, Expected, LowRecall
<1> QED BY <1>3, <1>4, <1>5, <1>6, <1>7 DEF BenchCore

\* evaluate goes on without a step of a scan or of the target (harness.py, eval_cmd).
LEMMA StageCore ==
  ASSUME BenchCore, Unscored \/ Load \/ Raised \/ ScoreSafe \/ Exit \/ UNCHANGED bench
  PROVE  BenchCore'
<1>1. /\ UNCHANGED <<vars, app, suite, first>> /\ users' = users /\ note' = note /\ calls' = calls /\ log' = log
      /\ AppStep /\ disturbed' = disturbed
  BY DEF Unscored, Load, Raised, ScoreSafe, Exit, bench, app, eval, AppStep
<1>2. pc' = pc /\ job' = job /\ step' = step /\ slot' = slot
  BY <1>1 DEF vars
<1>3. BenchTypeOK /\ Course /\ Enrolled /\ Explained /\ Silent
  BY DEF BenchCore
<1> USE <1>1, <1>2, <1>3
<1>4. /\ Controlled' => Controlled
      /\ Course' /\ Explained' /\ Enrolled'
      /\ stage' \in Stages /\ exit' \in {"none", "0", "1", "2"}
      /\ result' \in [matched : SUBSET KeySet, missed : SUBSET KeySet,
                      unexpected : SUBSET KeySet, safe_fp : Nat]
  <2>1. CASE Unscored
    BY <2>1 DEF Unscored, Controlled, Course, Explained, Enrolled, Stages, BenchTypeOK
  <2>2. CASE Load
    <3>1. /\ stage = "load" /\ stage' = "first" /\ exit' = exit /\ result' = result /\ exit = "none"
          /\ Build' = "vulnerable" /\ Build = "vulnerable" /\ pc = "validate" /\ ~Controlled /\ ~Controlled'
      BY <2>2 DEF Load, Course, Build, Init, Controlled
    <3>2. "vulnerable" \in Builds /\ calls[Build][Scanner] = NoCall /\ calls["safe"][Scanner] = NoCall
      BY <3>1 DEF Enrolled, Ended, Builds
    <3>3. Enrolled'
      BY <3>1, <3>2 DEF Enrolled
    <3>4. Explained' /\ Course'
      BY <3>1 DEF Explained, Course
    <3> QED BY <3>1, <3>3, <3>4 DEF Stages, BenchTypeOK
  <2>3. CASE Raised
    BY <2>3 DEF Raised, Controlled, Course, Explained, Enrolled, Stages, BenchTypeOK
  <2>4. CASE ScoreSafe
    <3>1. /\ stage = "safe" /\ stage' = "scored" /\ pc = "done" /\ suite.safe_target /\ exit = "none" /\ exit' = exit
          /\ Controlled /\ Controlled'
      BY <2>4 DEF ScoreSafe, Controlled, Course, Stages, BenchTypeOK
    <3>2. report = <<>> /\ result' = [result EXCEPT !.safe_fp = 0]
      BY <2>4, <3>1 DEF ScoreSafe, Silent
    <3>3. result \in [matched : SUBSET KeySet, missed : SUBSET KeySet,
                      unexpected : SUBSET KeySet, safe_fp : Nat]
      BY DEF BenchTypeOK
    <3>4. /\ result' \in [matched : SUBSET KeySet, missed : SUBSET KeySet,
                          unexpected : SUBSET KeySet, safe_fp : Nat]
          /\ result'.matched = result.matched /\ result'.missed = result.missed /\ result'.safe_fp = 0
      BY <3>2, <3>3
    <3>5. Expected' = Expected /\ first' = first
      BY DEF Expected
    <3>6. Explained'
      BY <3>1, <3>4, <3>5 DEF Explained
    <3>7. Course' /\ Enrolled'
      BY <3>1 DEF Course, Enrolled
    <3> QED BY <3>1, <3>4, <3>6, <3>7 DEF Stages
  <2>5. CASE Exit
    <3>1. /\ stage = "scored" /\ stage' = "ended" /\ exit = "none" /\ exit' \in {"0", "2"} /\ result' = result
          /\ (exit' = "0" => ~LowRecall)
      BY <2>5 DEF Exit, Course, BenchTypeOK
    <3>2. Expected' = Expected /\ first' = first /\ (LowRecall' <=> LowRecall)
      BY <3>1 DEF Expected, LowRecall
    <3>3. Explained'
      BY <3>1, <3>2 DEF Explained
    <3>4. Controlled' <=> Controlled
      BY <3>1 DEF Controlled
    <3>5. Course' /\ Enrolled'
      BY <3>1, <3>4 DEF Course, Enrolled
    <3> QED BY <3>1, <3>3, <3>4, <3>5 DEF Stages, BenchTypeOK
  <2>6. CASE UNCHANGED bench
    <3>1. stage' = stage /\ exit' = exit /\ result' = result /\ (Controlled' <=> Controlled) /\ Build' = Build
      BY <2>6 DEF bench, eval, Controlled, Build
    <3>2. Explained'
      BY <3>1 DEF Explained, Expected, LowRecall
    <3>3. Course'
      BY <3>1 DEF Course, Init, Slots, vars
    <3>4. Enrolled'
      BY <3>1 DEF Enrolled, Registering, Authenticating, Account
    <3> QED BY <3>1, <3>2, <3>3, <3>4 DEF BenchTypeOK
  <2> QED BY <2>1, <2>2, <2>3, <2>4, <2>5, <2>6
<1>5. /\ ScanInv' /\ AppInv' /\ TypeOK' /\ AppTypeOK'
      /\ LoginHolds' /\ Unguessed' /\ NoteOwned' /\ Silent' /\ AllCrawled'
  BY <1>4, StillCore
<1>6. BenchTypeOK'
  BY <1>4, <1>5 DEF BenchTypeOK
<1> QED BY <1>4, <1>5, <1>6 DEF BenchCore

\* The first scan is scored, and the second begins where there is one (harness.py:86-117).
LEMMA ScoreCore ==
  ASSUME BenchCore, Score
  PROVE  BenchCore'
<1>1. /\ stage = "first" /\ pc = "done" /\ ~Controlled /\ exit = "none" /\ exit' = exit
      /\ UNCHANGED <<app, suite, disturbed>> /\ users' = users /\ note' = note /\ calls' = calls /\ log' = log
      /\ first' = [lost |-> LostIn, seen |-> SeenIn, denied |-> LoginDenied, endpoints |-> Offered]
  BY DEF Score, BenchCore, Course, Controlled, app
<1>2. /\ suite \in Suites /\ suite \in Suite /\ job = suite.job /\ ScanInv /\ AppTypeOK
  BY <1>1, BenchAssumption DEF BenchCore, BenchTypeOK, Course
<1>3. /\ result' = [matched |-> Expected \cap Fingerprints(report), missed |-> Expected \ Fingerprints(report),
                    unexpected |-> Fingerprints(report) \ Expected, safe_fp |-> 0]
      /\ result'.matched \cup result'.missed = Expected /\ result'.safe_fp = 0
  BY DEF Score
<1>4. Expected \subseteq KeySet
  <2>1. ASSUME NEW r \in suite.expected PROVE Key(r) \in KeySet
    <3>1. r \in Row
      BY <1>2, <2>1 DEF Suite
    <3> QED BY <3>1 DEF Row, Key, KeySet
  <2> QED BY <2>1 DEF Expected
<1>5. Fingerprints(report) \subseteq KeySet
  <2>1. report \in Seq(Finding)
    BY <1>2 DEF ScanInv, EInv, IInv, TypeOK
  <2>2. ASSUME NEW i \in 1..Len(report) PROVE fingerprint(report[i]) \in KeySet
    <3>1. report[i] \in Finding
      BY <2>1
    <3> QED BY <3>1 DEF Finding, fingerprint, KeySet
  <2> QED BY <2>2 DEF Fingerprints
<1>6. result' \in [matched : SUBSET KeySet, missed : SUBSET KeySet,
                   unexpected : SUBSET KeySet, safe_fp : Nat]
  <2> DEFINE m == Expected \cap Fingerprints(report)
             n == Expected \ Fingerprints(report)
             u == Fingerprints(report) \ Expected
  <2>1. m \in SUBSET KeySet /\ n \in SUBSET KeySet /\ u \in SUBSET KeySet
    BY <1>4, <1>5
  <2>2. result' = [matched |-> m, missed |-> n, unexpected |-> u, safe_fp |-> 0]
    BY <1>3
  <2> HIDE DEF m, n, u
  <2> QED BY <2>1, <2>2
<1>7. \A k \in Expected \cap Fingerprints(report) : k[3] = LoginPath \/ k[1] \in SeenIn
  <2> SUFFICES ASSUME NEW i \in 1..Len(report)
               PROVE  \/ fingerprint(report[i])[3] = LoginPath
                      \/ fingerprint(report[i])[1] \in SeenIn
    BY DEF Fingerprints
  <2>1. Backed(report[i])
    BY <1>2 DEF ScanInv, EInv, EvidenceBacked
  <2>2. CASE report[i].evidence[1] = 0
    BY <2>1, <2>2 DEF Backed, fingerprint
  <2>3. CASE report[i].evidence[1] # 0
    <3> DEFINE k == report[i].evidence[1]
    <3>1. /\ k \in 1..Len(wire) /\ CheckOf(wire[k]) = report[i].check
          /\ wire[k].step \in Deciding /\ Fires(report[i].check, wire[k].resp)
      BY <2>1, <2>3 DEF Backed, Cited
    <3> HIDE DEF k
    <3>2. report[i].check \in SeenIn
      BY <3>1 DEF SeenIn
    <3> QED BY <3>2 DEF fingerprint
  <2> QED BY <2>2, <2>3
<1>8. Explained'
  <2>1. \A k \in result'.matched : k[3] = LoginPath \/ k[1] \in first'.seen
    BY <1>1, <1>3, <1>7
  <2>2. Expected' = Expected
    BY <1>1 DEF Expected
  <2> QED BY <1>1, <1>3, <2>1, <2>2 DEF Explained
<1>9. AppInv'
  BY <1>1, AppKept DEF BenchCore, AppStep
<1>10. NoteOwned'
  BY <1>1 DEF BenchCore, NoteOwned
<1>11. disturbed' \in 0..MaxDisturbances /\ suite' \in Suites /\ exit' \in {"none", "0", "1", "2"} /\ AppTypeOK'
  BY <1>1, <1>9 DEF BenchCore, BenchTypeOK, AppInv
<1>12. LoginHolds <=> (LoginDenied \/ first.denied => Taken(job))
  BY DEF LoginHolds, Taken
<1>13. LoginHolds' <=> (LoginDenied' \/ first'.denied => Taken(job)')
  BY DEF LoginHolds, Taken
<1>14. CASE suite.safe_target
  <2>1. stage' = "safe" /\ StartScan(SafeJob(suite)) /\ Controlled' /\ Build' = "safe"
    BY <1>1, <1>14 DEF Score, Controlled, Build
  <2>2. /\ SafeJob(suite) \in Jobs /\ SafeJob(suite).openapi = job.openapi /\ SafeJob(suite).exclude = job.exclude
        /\ Len(SafeJob(suite).auth) = Len(job.auth)
        /\ \A k \in 1..Len(job.auth) : SafeJob(suite).auth[k].name = job.auth[k].name
    BY <1>2, TwoJobs
  <2>3. Init'
    BY <2>1, <2>2 DEF StartScan, Init, Slots
  <2>4. ScanInv'
    BY <2>3, InitAgain
  <2>5. /\ job' = SafeJob(suite) /\ pc' = "validate" /\ slot' = 1 /\ wire' = <<>>
        /\ identities' = [n \in {Anon} |-> Anonymous]
        /\ local' = <<>> /\ findings' = <<>> /\ report' = <<>> /\ hits' = <<>>
    BY <2>1 DEF StartScan
  <2>6. BenchTypeOK'
    BY <1>6, <1>11, <2>1, <2>4 DEF BenchTypeOK, Stages, ScanInv, EInv, IInv
  <2>7. Course'
    BY <1>1, <2>1, <2>5, <1>14 DEF Course
  <2>8. Unguessed'
    BY <2>5 DEF Unguessed, Anonymous
  <2>9. Silent'
    <3>1. SeenIn' = {}
      BY <2>5 DEF SeenIn
    <3> QED BY <2>5, <3>1 DEF Silent
  <2>10. AllCrawled'
    <3>1. Crawls(suite.job) => Offered = AllOf(suite.job, Len(suite.job.openapi.paths))
      BY <1>1, <1>2 DEF BenchCore, AllCrawled, Crawls, NeedsSpec, Slots
    <3> QED BY <1>1, <2>5, <3>1 DEF AllCrawled
  <2>11. Enrolled'
    <3>1. calls["safe"][Scanner] = NoCall
      BY <1>1 DEF BenchCore, Enrolled
    <3> QED BY <1>1, <2>1, <2>5, <3>1 DEF Enrolled
  <2>12. LoginHolds'
    <3>1. ~LoginDenied'
      BY <2>5 DEF LoginDenied
    <3>2. Taken(job) => Taken(job)'
      <4>1. log' = log /\ Builds' = Builds
        BY <1>1 DEF app
      <4>2. /\ Len(job'.auth) = Len(job.auth)
            /\ \A k \in 1..Len(job.auth) : job'.auth[k].name = job.auth[k].name
        BY <2>2, <2>5
      <4> QED BY <4>1, <4>2 DEF Taken
    <3>3. first'.denied <=> LoginDenied
      BY <1>1
    <3> QED BY <1>12, <1>13, <3>1, <3>2, <3>3 DEF BenchCore
  <2> QED BY <1>8, <1>9, <1>10, <2>4, <2>6, <2>7, <2>8, <2>9, <2>10, <2>11, <2>12 DEF BenchCore
<1>15. CASE ~suite.safe_target
  <2>1. stage' = "scored" /\ UNCHANGED vars /\ ~Controlled'
    BY <1>1, <1>15 DEF Score, Controlled
  <2>2. ScanInv'
    BY <1>2, <2>1, NextScanInv
  <2>3. /\ job' = job /\ pc' = pc /\ slot' = slot /\ wire' = wire /\ identities' = identities
        /\ endpoints' = endpoints
    BY <2>1 DEF vars
  <2>4. BenchTypeOK'
    BY <1>6, <1>11, <2>1, <2>2 DEF BenchTypeOK, Stages, ScanInv, EInv, IInv
  <2>5. Course'
    BY <1>1, <1>2, <2>1, <2>3 DEF Course
  <2>6. Unguessed'
    BY <1>1, <2>1, <2>3 DEF BenchCore, Unguessed
  <2>7. Silent'
    BY <2>1 DEF Silent
  <2>8. AllCrawled'
    BY <2>1, <2>3 DEF BenchCore, AllCrawled, NeedsSpec, Slots, Offered
  <2>9. Enrolled'
    BY <2>1 DEF Enrolled
  <2>10. LoginHolds'
    <3>1. (LoginDenied' <=> LoginDenied) /\ (Taken(job) <=> Taken(job)')
      BY <1>1, <2>3 DEF LoginDenied, Taken
    <3>2. first'.denied <=> LoginDenied
      BY <1>1
    <3> QED BY <1>12, <1>13, <3>1, <3>2 DEF BenchCore
  <2> QED BY <1>8, <1>9, <1>10, <2>2, <2>4, <2>5, <2>6, <2>7, <2>8, <2>9, <2>10 DEF BenchCore
<1> QED BY <1>14, <1>15

\* The benchmark starts with no row.
LEMMA InitCore == BenchInit => BenchCore
<1> SUFFICES ASSUME BenchInit PROVE BenchCore
  OBVIOUS
<1> DEFINE names == {suite.job.auth[k].name : k \in {m \in 1..Len(suite.job.auth) : suite.job.auth[m].kind = "login"}}
           owner == IF suite.job.hints["bola"] = <<>> THEN NoNote ELSE suite.job.hints["bola"][1].owner
<1>1. /\ Init /\ suite \in Suites /\ job = suite.job /\ AppInit(Scanner, names, owner)
      /\ stage = "load" /\ exit = "none" /\ disturbed = 0 /\ result = NoResult
      /\ first = [lost |-> {}, seen |-> {}, denied |-> FALSE, endpoints |-> {}]
  BY DEF BenchInit
<1>2. names \subseteq Accounts
  BY <1>1, TwoJobs
<1>3. owner = NoNote \/ \E k \in 1..Len(suite.job.hints["bola"]) : owner = suite.job.hints["bola"][k].owner
  <2>1. suite.job.hints["bola"] \in Seq(Hint)
    BY <1>1, BolaHints
  <2>2. suite.job.hints["bola"] # <<>> => 1 \in 1..Len(suite.job.hints["bola"])
    BY <2>1
  <2> QED BY <2>2
<1>4. owner \in Accounts \cup {NoNote}
  BY <1>1, <1>3, BolaHints
<1>5. Scanner \in Clients /\ MaxDisturbances \in Nat
  BY BenchAssumption
<1> HIDE DEF names, owner
<1>6. PICK seeded \in BOOLEAN :
        /\ users = [b \in Builds |-> [n \in (IF seeded THEN names ELSE {}) |->
                                        [by |-> Scanner, admin |-> FALSE]]]
        /\ note = [b \in Builds |-> IF seeded THEN owner ELSE NoNote]
  BY <1>1 DEF AppInit
<1>7. /\ calls = [b \in Builds |-> [c \in Clients |-> NoCall]]
      /\ log = [b \in Builds |-> <<>>]
  BY <1>1 DEF AppInit
<1>8. /\ \A b \in Builds : DOMAIN users[b] \subseteq names /\ \A n \in DOMAIN users[b] : users[b][n] = [by |-> Scanner, admin |-> FALSE]
      /\ \A b \in Builds : note[b] \in {owner, NoNote}
      /\ DOMAIN users = Builds /\ DOMAIN note = Builds
  BY <1>6
<1>9. AppTypeOK
  <2>1. note \in [Builds -> Accounts \cup {NoNote}]
    BY <1>4, <1>6
  <2>2. [by |-> Scanner, admin |-> FALSE] \in User
    BY <1>5 DEF User
  <2>3. \A b \in Builds : DOMAIN users[b] \subseteq Accounts /\ \A n \in DOMAIN users[b] : users[b][n] \in User
    BY <1>2, <1>8, <2>2
  <2>4. calls \in [Builds -> [Clients -> Accounts \cup {NoCall}]] /\ log \in [Builds -> Seq(Registration)]
    BY <1>7
  <2> QED BY <1>8, <2>1, <2>3, <2>4 DEF AppTypeOK
<1>10. NamesHeld
  <2>1. NameTakenOnce /\ Inserted
    BY <1>7 DEF NameTakenOnce, Inserted
  <2>2. Pending
    BY <1>7 DEF Pending
  <2> QED BY <2>1, <2>2 DEF NamesHeld
<1>11. VisitorsLogged
  <2>1. \A b \in Builds : \A n \in DOMAIN users[b] : users[b][n].by = Scanner
    BY <1>8
  <2> QED BY <2>1 DEF VisitorsLogged
<1>12. ScanInv
  BY <1>1, InitScanInv
<1>13. /\ pc = "validate" /\ slot = 1 /\ wire = <<>> /\ identities = [n \in {Anon} |-> Anonymous]
  BY <1>1 DEF Init
<1>14. LoginHolds
  BY <1>1, <1>13 DEF LoginHolds, LoginDenied
<1>15. BenchTypeOK
  <2>1. result \in [matched : SUBSET KeySet, missed : SUBSET KeySet,
                    unexpected : SUBSET KeySet, safe_fp : Nat]
    BY <1>1 DEF NoResult
  <2> QED BY <1>1, <1>5, <1>9, <1>12, <2>1 DEF BenchTypeOK, Stages, ScanInv, EInv, IInv
<1>16. Course
  BY <1>1 DEF Course, Controlled
<1>17. Unguessed
  BY <1>1, <1>13 DEF Unguessed, Controlled, Anonymous
<1>18. NoteOwned
  BY <1>3, <1>8 DEF NoteOwned
<1>19. Silent
  BY <1>1 DEF Silent, Controlled
<1>20. AllCrawled
  BY <1>1, <1>13 DEF AllCrawled, Controlled
<1>21. Enrolled
  <2>1. "safe" \in Builds /\ Build \in Builds
    BY <1>1 DEF Builds, Build
  <2> QED BY <1>1, <1>5, <1>7, <2>1 DEF Enrolled
<1>22. Explained
  BY <1>1 DEF Explained, NoResult
<1> QED BY <1>9, <1>10, <1>11, <1>12, <1>14, <1>15, <1>16, <1>17, <1>18, <1>19, <1>20, <1>21, <1>22
        DEF BenchCore, AppInv

\* Every step of the benchmark keeps its core.
LEMMA NextCore == BenchCore /\ [BenchNext]_bench => BenchCore'
<1> SUFFICES ASSUME BenchCore, [BenchNext]_bench PROVE BenchCore'
  OBVIOUS
<1>1. CASE Scan
  BY <1>1, ScanCore
<1>2. CASE Score
  BY <1>2, ScoreCore
<1>3. CASE Unscored \/ Load \/ Raised \/ ScoreSafe \/ Exit \/ UNCHANGED bench
  BY <1>3, StageCore
<1>4. CASE Receive \/ \E c \in Clients : VisitorTest(c) \/ \E b \in Builds : VisitorInsert(c, b)
  BY <1>4, CallCore
<1> QED BY <1>1, <1>2, <1>3, <1>4 DEF BenchNext, EvalStep, Finished

\* Every state of it satisfies the core.
LEMMA BenchSpecCore == BenchSpec => []BenchCore
BY InitCore, NextCore, PTL DEF BenchSpec

\* The expected rows are finitely many.
LEMMA RowsFinite ==
  ASSUME suite \in Suites
  PROVE  IsFiniteSet(Expected)
<1> DEFINE R == {row \in suite.expected : row.must_detect}
           f == [r \in R |-> Key(r)]
<1>1. IsFiniteSet(suite.expected)
  BY BenchAssumption
<1>2. IsFiniteSet(R)
  BY <1>1, FS_Subset
<1>3. f \in Surjection(R, Expected)
  BY DEF Surjection, Expected
<1> HIDE DEF R, f
<1> QED BY <1>2, <1>3, FS_Surjection

------------------------------------------------------------------------------
\* The first scan, of the vulnerable build.

\* In it the suite's own job runs, and the suite is written for its target.
LEMMA AtFirst ==
  ASSUME BenchCore, stage = "first"
  PROVE  /\ suite \in Suites /\ job = suite.job /\ job \in Jobs /\ exit = "none"
         /\ Build = "vulnerable" /\ "vulnerable" \in Builds
         /\ ScanInv /\ AllCrawled /\ AppTypeOK /\ Unguessed
         /\ Len(job.auth) \in Nat
         /\ \A k \in 1..Len(job.auth) : job.auth[k].name \in Names \ {Anon} /\ job.auth[k] \in AuthSpec
         /\ \A cid \in HintKeys : \A h \in HintsOf(job, cid) : Workable(job, cid, h)
<1>1. suite \in Suites /\ exit = "none" /\ job = suite.job
  BY DEF BenchCore, BenchTypeOK, Course, Controlled
<1>2. /\ job \in Jobs /\ Len(job.auth) \in Nat
      /\ \A k \in 1..Len(job.auth) : job.auth[k].name \in Names \ {Anon}
  BY <1>1, TwoJobs
<1>3. \A k \in 1..Len(job.auth) : job.auth[k] \in AuthSpec
  BY <1>2, JobTypes
<1>4. \A cid \in HintKeys : \A h \in HintsOf(job, cid) : Workable(job, cid, h)
  BY <1>1, RowsAssumption
<1>5. Build = "vulnerable" /\ "vulnerable" \in Builds
  BY DEF Build, Builds
<1>6. ScanInv /\ AllCrawled /\ AppTypeOK /\ Unguessed
  BY DEF BenchCore, AppInv
<1> QED BY <1>1, <1>2, <1>3, <1>4, <1>5, <1>6

\* What a lost answer or a refused login excuses stays excused.
LEMMA ExcusedStays ==
  ASSUME job' = job, Len(wire) \in Nat, Len(wire') \in Nat, Len(wire) <= Len(wire'),
         \A k \in 1..Len(wire) : wire'[k] = wire[k]
  PROVE  /\ LoginDenied => LoginDenied'
         /\ LostIn \subseteq LostIn'
         /\ \A cid : Excused(cid) => Excused(cid)'
<1>1. \A k \in 1..Len(wire) : k \in 1..Len(wire') /\ wire'[k] = wire[k] /\ CheckOf(wire[k])' = CheckOf(wire[k])
  BY DEF CheckOf
<1>2. LoginDenied => LoginDenied'
  BY <1>1 DEF LoginDenied
<1>3. LostIn \subseteq LostIn'
  <2> SUFFICES ASSUME NEW k \in 1..Len(wire), wire[k].slot > 0, wire[k].resp = "lost"
               PROVE  CheckOf(wire[k]) \in LostIn'
    BY DEF LostIn
  <2>1. k \in 1..Len(wire') /\ wire'[k].slot > 0 /\ wire'[k].resp = "lost"
        /\ job'.check_ids[wire'[k].slot] = CheckOf(wire[k])
    BY <1>1 DEF CheckOf
  <2> QED BY <2>1 DEF LostIn, CheckOf
<1> QED BY <1>2, <1>3 DEF Excused

\* A step of a scan leaves what is on the wire.
LEMMA WireStays ==
  ASSUME ScanInv, Next
  PROVE  /\ Len(wire) \in Nat /\ Len(wire') \in Nat /\ Len(wire) <= Len(wire')
         /\ \A k \in 1..Len(wire) : wire'[k] = wire[k]
         /\ job' = job
<1>1. Len(wire) \in Nat
  BY Shape DEF ScanInv
<1>2. CASE \E resp \in Responses : Ask(resp)
  BY <1>2, AskSends
<1>3. CASE SpecFetch \/ Register \/ Login
  BY <1>3, SetupSends
<1> QED BY <1>1, <1>2, <1>3, ScanSteps

\* A request of a check whose answer is lost excuses the check.
LEMMA LostExcuses ==
  ASSUME ScanInv, Ask("lost")
  PROVE  Excused(Check)'
<1>1. "lost" \in Responses
  BY DEF Responses
<1>2. /\ Len(wire) \in Nat /\ Len(wire') = Len(wire) + 1 /\ Last'.slot = slot /\ Last'.resp = "lost"
      /\ slot \in Slots /\ job' = job /\ slot' = slot
  BY <1>1, AskSends
<1>3. /\ Len(wire') \in 1..Len(wire') /\ wire'[Len(wire')].slot = slot /\ slot > 0
      /\ wire'[Len(wire')].resp = "lost"
  BY <1>2 DEF Last, Slots
<1>4. job'.check_ids[wire'[Len(wire')].slot] \in LostIn'
  BY <1>3 DEF LostIn, CheckOf
<1> QED BY <1>2, <1>3, <1>4 DEF Excused, Check

------------------------------------------------------------------------------
\* Identities.

\* A step gives an entry the identity it asks for, or none when its login is refused
\* (build_identities).
LEMMA IdentityIssued ==
  ASSUME ScanInv, Next
  PROVE  \/ identities' = identities /\ ~(Authenticating /\ slot' = slot + 1)
         \/ /\ Authenticating /\ slot' = slot + 1 /\ pc' = pc
            /\ \/ AddIdentity(Issued(Account))
               \/ AddIdentity(Anonymous) /\ LoginDenied'
<1>0. slot \in Nat /\ slot # slot + 1
  BY Shape DEF ScanInv
<1>1. CASE Asks \/ SpecFetch \/ Register
  <2>1. identities' = identities /\ slot' = slot
    BY <1>1, SetupSends, AskSends DEF Asks, ExposureProbe, SqliInject, BolaCreate, BolaRead,
       MassCreate, MassConfirm, SsrfProbe, JwtAlgNone, Responses, SpecFetch, Register, setup
  <2> QED BY <1>0, <2>1
<1>2. CASE Login
  <2>1. /\ Len(wire) \in Nat /\ Len(wire') = Len(wire) + 1
        /\ Last'.step = "login" /\ Last'.resp \in {"lost", "denied", "clean"}
        /\ IF Last'.resp = "lost" THEN pc' = "HTTPError" /\ UNCHANGED <<identities, slot>>
           ELSE /\ AddIdentity(IF Last'.resp = "clean" /\ Account.token # NoToken
                               THEN [token |-> Account.token, headed |-> TRUE] ELSE Anonymous)
                /\ slot' = slot + 1 /\ UNCHANGED pc
    BY <1>2, SetupSends DEF Login, Register, SpecFetch, Authenticating
  <2>2. Authenticating /\ Account.kind = "login"
    BY <1>2 DEF Login
  <2>3. CASE Last'.resp = "lost"
    BY <1>0, <2>1, <2>3
  <2>4. CASE Last'.resp = "denied"
    <3>1. Len(wire') \in 1..Len(wire') /\ wire'[Len(wire')].step = "login" /\ wire'[Len(wire')].resp = "denied"
      BY <2>1, <2>4 DEF Last
    <3>2. LoginDenied'
      BY <3>1 DEF LoginDenied
    <3> QED BY <2>1, <2>2, <2>4, <3>2
  <2>5. CASE Last'.resp = "clean"
    BY <2>1, <2>2, <2>5 DEF Issued
  <2> QED BY <2>1, <2>3, <2>4, <2>5
<1>3. CASE StaticIdentity
  <2>1. Authenticating /\ Account.kind # "login"
    BY <1>3 DEF StaticIdentity
  <2>2. Account.kind \in {"bearer", "header", "none"}
    BY <2>1, AccountTyped DEF ScanInv, EInv, AuthSpec
  <2>3. CASE Account.kind = "bearer" /\ Account.token = NoToken
    BY <1>0, <1>3, <2>3 DEF StaticIdentity
  <2>4. CASE ~(Account.kind = "bearer" /\ Account.token = NoToken)
    <3>1. /\ slot' = slot + 1 /\ pc' = pc
          /\ AddIdentity(CASE Account.kind = "bearer" -> [token |-> Account.token, headed |-> TRUE]
                           [] Account.kind = "header" -> [token |-> NoToken, headed |-> TRUE]
                           [] OTHER -> Anonymous)
      BY <1>3, <2>4 DEF StaticIdentity
    <3>2. (CASE Account.kind = "bearer" -> [token |-> Account.token, headed |-> TRUE]
             [] Account.kind = "header" -> [token |-> NoToken, headed |-> TRUE]
             [] OTHER -> Anonymous) = Issued(Account)
      BY <2>2, <2>4 DEF Issued
    <3> QED BY <2>1, <3>1, <3>2
  <2> QED BY <2>3, <2>4
<1>4. CASE Quietly /\ ~StaticIdentity
  <2>1. identities' = identities
    BY <1>4 DEF Quietly, Validate, Resolve, SpecNotGiven, SpecFile, Crawl, Crawled, LoginRefused,
       Authenticated, SkipCheck, StartCheck, ReturnFindings, ChecksDone, PassBy, Begin, OutOfScope,
       BlockedMethod, CheckErrors, JwtWeakSecret, JwtNoForgery, Dedup, Return, Terminated,
       NextCheck, setup, vars
  <2>2. ASSUME Authenticating PROVE slot' # slot + 1
    <3>1. pc = "auth" /\ slot <= Len(job.auth) /\ Len(job.auth) \in Nat
      BY <2>2, JobTypes, Shape DEF Authenticating, ScanInv
    <3>2. CASE LoginRefused \/ Terminated \/ Begin \/ JwtNoForgery
      BY <1>0, <3>1, <3>2 DEF LoginRefused, Terminated, Begin, JwtNoForgery, vars
    <3> QED BY <1>0, <1>4, <3>1, <3>2 DEF Quietly, Validate, Resolve, SpecNotGiven, SpecFile, Crawl, Crawled,
       Authenticated, SkipCheck, StartCheck, ReturnFindings, ChecksDone, PassBy, OutOfScope,
       BlockedMethod, CheckErrors, JwtWeakSecret, Dedup, Return, Asking, Ended
  <2> QED BY <2>1, <2>2
<1> QED BY <1>1, <1>2, <1>3, <1>4, ScanSteps

\* The phases follow each other.
LEMMA PhaseSteps ==
  ASSUME ScanInv, Next
  PROVE  /\ pc' = "auth" => slot' = 1 \/ (pc = "spec" /\ slot' = slot) \/ (pc = "auth" /\ (slot' = slot \/ (Authenticating /\ slot' = slot + 1)))
         /\ pc' \in Checking => pc \in Checking \/ (pc = "auth" /\ slot > Len(job.auth))
<1>1. CASE Asks
  BY <1>1, AskSends DEF Asks, ExposureProbe, SqliInject, BolaCreate, BolaRead,
     MassCreate, MassConfirm, SsrfProbe, JwtAlgNone, Responses, Checking
<1>2. CASE SpecNotGiven \/ SpecFile \/ SpecFetch
  <2>1. pc = "spec" /\ slot' = slot /\ pc' \in {"ScanError", "auth", "crawl"}
    BY <1>2 DEF SpecNotGiven, SpecFile, SpecFetch, SpecUnusable
  <2> QED BY <2>1 DEF Checking
<1>3. CASE Register \/ Login \/ StaticIdentity
  BY <1>3 DEF Register, Login, StaticIdentity, Authenticating, Checking
<1>4. CASE LoginRefused
  <2>1. pc' = "ScopeError"
    BY <1>4 DEF LoginRefused, Gate, Destructive
  <2> QED BY <2>1 DEF Checking
<1>5. CASE Validate \/ Resolve \/ Crawl \/ Crawled
  BY <1>5 DEF Validate, Resolve, Crawl, Crawled, Checking
<1>6. CASE Authenticated
  BY <1>6 DEF Authenticated
<1>7. CASE \/ SkipCheck \/ StartCheck \/ ReturnFindings \/ ChecksDone
           \/ PassBy \/ Begin \/ OutOfScope \/ BlockedMethod \/ CheckErrors
           \/ JwtWeakSecret \/ JwtNoForgery \/ Dedup \/ Return
  BY <1>7 DEF SkipCheck, StartCheck, ReturnFindings, ChecksDone, PassBy, Begin, OutOfScope,
     BlockedMethod, CheckErrors, Asking, JwtWeakSecret, JwtNoForgery, Dedup, Return, NextCheck, Checking
<1>8. CASE Terminated
  BY <1>8 DEF Terminated, vars
<1> QED BY <1>1, <1>2, <1>3, <1>4, <1>5, <1>6, <1>7, <1>8 DEF Next, Asks

\* An identity of the first scan is what its entry gives, or its login was refused.
LEMMA ScanIdentified ==
  ASSUME BenchCore, Scan, stage = "first", Identified
  PROVE  Identified'
<1>1. /\ ScanInv /\ Next /\ job' = job /\ slot \in Nat /\ Len(job.auth) \in Nat
      /\ LoginDenied => LoginDenied'
      /\ \A k \in 1..Len(job.auth) : job.auth[k].name \in Names \ {Anon}
  BY Running, AtFirst, WireStays, ExcusedStays, Shape DEF ScanInv
<1>2. \A n : AccountsOf(job, n)' = AccountsOf(job, n)
  BY <1>1 DEF AccountsOf
<1>3. /\ pc' = "auth" => slot' = 1 \/ (pc = "auth" /\ (slot' = slot \/ (Authenticating /\ slot' = slot + 1)))
      /\ pc' \in Checking => pc \in Checking \/ (pc = "auth" /\ slot > Len(job.auth))
  BY <1>1, AtFirst, PhaseSteps DEF AllCrawled
<1>4. CASE identities' = identities /\ ~(Authenticating /\ slot' = slot + 1)
  <2>1. \A n \in DOMAIN identities' \ {Anon} :
          \/ \E a \in AccountsOf(job, n)' : identities'[n] = Issued(a)
          \/ LoginDenied' /\ identities'[n] = Anonymous
    BY <1>1, <1>2, <1>4 DEF Identified
  <2>2. ASSUME NEW k \in 1..Len(job.auth), pc' \in Checking \/ (pc' = "auth" /\ k < slot')
        PROVE  job.auth[k].name \in DOMAIN identities'
    BY <1>1, <1>3, <1>4, <2>2 DEF Identified, Checking
  <2> QED BY <1>1, <1>2, <2>1, <2>2 DEF Identified
<1>5. CASE /\ Authenticating /\ slot' = slot + 1 /\ pc' = pc
           /\ AddIdentity(Issued(Account)) \/ (AddIdentity(Anonymous) /\ LoginDenied')
  <2>1. PICK id : AddIdentity(id) /\ (id = Issued(Account) \/ (id = Anonymous /\ LoginDenied'))
    BY <1>5
  <2>2. /\ DOMAIN identities' = DOMAIN identities \cup {Account.name}
        /\ identities'[Account.name] = id
        /\ \A n \in DOMAIN identities \ {Account.name} : identities'[n] = identities[n]
    BY <2>1 DEF AddIdentity
  <2>3. slot \in 1..Len(job.auth) /\ Account = job.auth[slot] /\ pc = "auth"
    BY <1>1, <1>5, AccountTyped DEF ScanInv, EInv, Account, Authenticating
  <2>4. Account \in AccountsOf(job, Account.name)
    BY <2>3 DEF AccountsOf
  <2>5. ASSUME NEW n \in DOMAIN identities' \ {Anon}
        PROVE  \/ \E a \in AccountsOf(job, n) : identities'[n] = Issued(a)
               \/ LoginDenied' /\ identities'[n] = Anonymous
    <3>1. CASE n = Account.name
      BY <2>1, <2>2, <2>4, <3>1
    <3>2. CASE n # Account.name
      <4>1. n \in DOMAIN identities \ {Anon} /\ identities'[n] = identities[n]
        BY <2>2, <2>5, <3>2
      <4> QED BY <1>1, <4>1 DEF Identified
    <3> QED BY <3>1, <3>2
  <2>6. ASSUME NEW k \in 1..Len(job.auth), k < slot'
        PROVE  job.auth[k].name \in DOMAIN identities'
    <3>1. k < slot \/ k = slot
      BY <1>1, <1>5, <2>6
    <3> QED BY <2>2, <2>3, <3>1 DEF Identified
  <2>7. pc' \notin Checking
    BY <1>5, <2>3 DEF Checking
  <2> QED BY <1>1, <1>2, <2>5, <2>6, <2>7 DEF Identified
<1> QED BY <1>1, <1>4, <1>5, IdentityIssued

\* An account that is let in has credentials, unless its login was refused.
LEMMA CredentialsOf ==
  ASSUME BenchCore, stage = "first", Identified, pc \in Checking, ~LoginDenied,
         NEW n, LetIn(job, n)
  PROVE  Credentials(n) = n /\ n \in Names \ {Anon} /\ n # Nobody /\ n # Forged
<1>1. PICK k \in 1..Len(job.auth) : job.auth[k].name = n
  BY DEF LetIn, AccountsOf
<1>2. n \in Names \ {Anon} /\ n \in DOMAIN identities
  BY <1>1, AtFirst DEF Identified
<1>3. PICK a \in AccountsOf(job, n) : identities[n] = Issued(a)
  BY <1>2 DEF Identified
<1>4. identities[n].headed
  BY <1>3 DEF LetIn
<1>5. n # Nobody /\ n # Forged
  BY <1>2, EngineAssumption
<1> QED BY <1>2, <1>4, <1>5 DEF Credentials

\* The token jwt looks at is guessed, or the login of its account was refused.
LEMMA TokenNow ==
  ASSUME BenchCore, stage = "first", Identified, pc = "run", Check = "jwt", item \in 1..Len(Items)
  PROVE  Guessable(JwtToken) \/ (LoginDenied /\ JwtToken = NoToken)
<1>1. Item \in HintsOf(job, "jwt") /\ "jwt" \in HintKeys
  BY DEF Item, Items, HintsOf, SpecDriven, HintKeys, CheckIds
<1>2. Workable(job, "jwt", Item)
  BY <1>1, AtFirst
<1> DEFINE n == Item.as
<1>3. AccountsOf(job, n) # {} /\ \A a \in AccountsOf(job, n) : Guessable(Issued(a).token)
  BY <1>2 DEF Workable
<1>4. PICK k \in 1..Len(job.auth) : job.auth[k].name = n
  BY <1>3 DEF AccountsOf
<1> HIDE DEF n
<1>5. n \in DOMAIN identities /\ n # Anon
  BY <1>4, AtFirst DEF Identified, Checking
<1>6. JwtToken = identities[n].token
  BY <1>5 DEF JwtToken, TokenFor, n
<1>7. CASE \E a \in AccountsOf(job, n) : identities[n] = Issued(a)
  BY <1>3, <1>6, <1>7
<1>8. CASE LoginDenied /\ identities[n] = Anonymous
  BY <1>6, <1>8 DEF Anonymous
<1> QED BY <1>5, <1>7, <1>8 DEF Identified

------------------------------------------------------------------------------
\* What the checks of the first scan look at.

\* The items of the running check are those of its job.
LEMMA ItemsAre ==
  ASSUME ScanInv, AllCrawled, pc = "run"
  PROVE  /\ slot \in Slots /\ Check \in CheckIds /\ Len(Items) \in Nat
         /\ ItemsOf(job, Check) = {Items[i] : i \in 1..Len(Items)}
         /\ Check \in HintKeys => \A i \in 1..Len(Items) : Items[i] \in HintsOf(job, Check)
         /\ \A i \in 1..Len(Items) : ShownBy(Check, Items[i]) \subseteq Shown(job)
<1>1. slot \in Slots /\ Check \in CheckIds /\ Len(Items) \in Nat
  BY ItemsTyped DEF ScanInv, EInv
<1>2. ItemsOf(job, Check) = {Items[i] : i \in 1..Len(Items)}
  <2>1. CASE Check \in SpecDriven
    <3>1. NeedsSpec
      BY <1>1, <2>1 DEF NeedsSpec, Check
    <3>2. Offered = AllOf(job, Len(job.openapi.paths))
      BY <3>1 DEF AllCrawled
    <3>3. Items = endpoints
      BY <2>1 DEF Items
    <3> QED BY <2>1, <3>2, <3>3 DEF ItemsOf, Offered
  <2>2. CASE Check \notin SpecDriven
    <3>1. Items = job.hints[Check]
      BY <2>2 DEF Items
    <3>2. HintsOf(job, Check) = {Items[i] : i \in 1..Len(Items)}
      BY <3>1 DEF HintsOf
    <3> QED BY <2>2, <3>2 DEF ItemsOf
  <2> QED BY <2>1, <2>2
<1>3. ASSUME Check \in HintKeys, NEW i \in 1..Len(Items) PROVE Items[i] \in HintsOf(job, Check)
  BY <1>3 DEF HintKeys, Items, HintsOf
<1>4. \A i \in 1..Len(Items) : Items[i] \in ItemsOf(job, Check)
  BY <1>2
<1>5. Check \in CheckIds \cap {job.check_ids[k] : k \in 1..Len(job.check_ids)}
  BY <1>1 DEF Check, Slots
<1>6. ASSUME NEW i \in 1..Len(Items) PROVE ShownBy(Check, Items[i]) \subseteq Shown(job)
  BY <1>4, <1>5 DEF Shown
<1> QED BY <1>1, <1>2, <1>3, <1>6

\* A hint of the first scan can be probed.
LEMMA HintNow ==
  ASSUME BenchCore, stage = "first", pc = "run", item \in 1..Len(Items), Check \in HintKeys
  PROVE  Workable(job, Check, Item)
BY AtFirst, ItemsAre DEF Item

\* No check of the first scan is blocked or errors.
LEMMA NoneFails ==
  ASSUME BenchCore, stage = "first", Identified, Midway
  PROVE  ~BlockedMethod /\ ~CheckErrors
<1>1. ScanInv /\ AllCrawled /\ StepInPlace /\ TokenInHand
  BY AtFirst DEF ScanInv, EInv, IInv
<1>2. ASSUME BlockedMethod PROVE FALSE
  <2>1. pc = "run" /\ step # "next" /\ Verdict = "PermissionError"
    BY <1>2 DEF BlockedMethod, Asking
  <2>2. item \in 1..Len(Items)
    BY <1>1, <2>1 DEF StepInPlace
  <2>3. Asked.method \in Destructive /\ ~job.unsafe
    <3>1. Verdict = "ScopeError" \/ Verdict = "sent" \/ (Asked.method \in Destructive /\ ~job.unsafe)
      BY DEF Verdict, Gate
    <3> QED BY <2>1, <3>1
  <2>4. CASE Check \in SpecDriven
    <3>1. Asked.method = "GET"
      BY <2>4 DEF Asked, Decision
    <3> QED BY <2>3, <3>1 DEF Destructive
  <2>5. CASE Check \notin SpecDriven
    <3>1. Check \in HintKeys
      BY <1>1, <2>1, <2>5, ItemsAre DEF HintKeys
    <3>2. {Item.method, Item.create_method} \cap Destructive = {}
      BY <2>1, <2>2, <2>3, <3>1, HintNow DEF Workable
    <3>3. Asked.method \in {Item.method, Item.create_method}
      BY <2>5 DEF Asked, Creation, Decision
    <3> QED BY <2>3, <3>2, <3>3
  <2> QED BY <2>4, <2>5
<1>3. ASSUME CheckErrors PROVE FALSE
  <2>1. pc = "run" /\ (RaisesKeyError \/ RaisesTypeError)
    BY <1>3 DEF CheckErrors
  <2>2. step # "next" /\ item \in 1..Len(Items)
    BY <1>1, <2>1 DEF StepInPlace, RaisesKeyError, RaisesTypeError
  <2>3. ~RaisesKeyError
    <3>1. CASE Check \in SpecDriven
      <4>1. Item \in AllOf(job, Len(job.openapi.paths))
        BY <1>1, <2>1, <2>2, <3>1, ItemsAre DEF ItemsOf, Item
      <4>2. \A m \in 1..Len(job.openapi.paths) : job.openapi.paths[m].sound
        BY AtFirst, SuiteAssumption
      <4>3. Item.sound
        BY <4>1, <4>2 DEF AllOf
      <4> QED BY <4>3 DEF RaisesKeyError
    <3>2. CASE Check \notin SpecDriven
      <4>1. Check \in HintKeys
        BY <1>1, <2>1, <3>2, ItemsAre DEF HintKeys
      <4> QED BY <2>1, <2>2, <4>1, HintNow DEF RaisesKeyError, Workable
    <3> QED BY <3>1, <3>2
  <2>4. Check = "jwt" /\ JwtToken # NoToken
    BY <1>1, <2>1, <2>3 DEF RaisesTypeError, TokenInHand, Midway
  <2>5. JwtToken.payload = "dict" /\ JwtToken.header = "hmac"
    BY <2>1, <2>2, <2>4, TokenNow DEF Guessable, WeakSecret
  <2> QED BY <2>1, <2>3, <2>5 DEF RaisesTypeError
<1> QED BY <1>2, <1>3

\* The bugs of an item, check by check.
LEMMA ShownAt ==
  ASSUME NEW cid \in CheckIds, NEW x
  PROVE  LET here == <<cid, x.method, x.path>> IN
         /\ cid \in {"exposure", "ssrf"} =>
              ShownBy(cid, x) = IF FirstStep(cid, x) = "probe" /\ x.path \in Leaky THEN {here} ELSE {}
         /\ cid = "sqli" =>
              ShownBy(cid, x) = IF /\ FirstStep(cid, x) = "inject" /\ x.path = "/api/products/search"
                                   /\ Breaking \cap 1..Payloads # {} THEN {here} ELSE {}
         /\ cid = "bola" => ShownBy(cid, x) = {here}
         /\ cid = "mass_assignment" => ShownBy(cid, x) = {<<cid, x.create_method, x.create_path>>}
         /\ cid = "jwt" =>
              ShownBy(cid, x) = {<<cid, "POST", LoginPath>>} \cup (IF x.create THEN {here} ELSE {})
<1>1. CASE cid \in {"exposure", "ssrf"}
  BY <1>1 DEF ShownBy, Bugged
<1>2. CASE cid = "sqli"
  BY <1>2 DEF ShownBy, Bugged
<1>3. CASE cid \in {"bola", "mass_assignment"}
  BY <1>3 DEF ShownBy, Bugged
<1>4. CASE cid = "jwt"
  BY <1>4 DEF ShownBy, Bugged
<1> QED BY <1>1, <1>2, <1>3, <1>4

\* A finding adds its fingerprint to those of the check.
LEMMA FoundOne ==
  ASSUME local \in Seq(Finding), NEW method, NEW path, NEW evidence, Found(method, path, evidence)
  PROVE  Fingerprints(local') = Fingerprints(local) \cup {<<Check, method, path>>}
<1> DEFINE f == [check |-> Check, method |-> method, path |-> path, evidence |-> evidence]
<1>1. local' = Append(local, f)
  BY DEF Found
<1>2. fingerprint(f) = <<Check, method, path>>
  BY DEF fingerprint
<1> HIDE DEF f
<1>3. /\ Len(local) \in Nat /\ Len(local') = Len(local) + 1 /\ local'[Len(local) + 1] = f
      /\ \A i \in 1..Len(local) : local'[i] = local[i]
  BY <1>1
<1>4. \A i \in 1..Len(local') : i \in 1..Len(local) \/ i = Len(local) + 1
  BY <1>3
<1>5. Len(local) + 1 \in 1..Len(local') /\ \A i \in 1..Len(local) : i \in 1..Len(local')
  BY <1>3
<1>6. \A i \in 1..Len(local) : fingerprint(local'[i]) = fingerprint(local[i])
  BY <1>3
<1>7. fingerprint(local'[Len(local) + 1]) = <<Check, method, path>>
  BY <1>2, <1>3
<1> QED BY <1>4, <1>5, <1>6, <1>7 DEF Fingerprints

------------------------------------------------------------------------------
\* What the vulnerable build answers.

\* The parts of what a step of the first scan starts from.
Ready == BenchCore /\ Scan /\ stage = "first" /\ Sweeping

\* An answer that is not lost is the vulnerable build's.
LEMMA Served1 ==
  ASSUME Ready, NEW resp \in Responses, Ask(resp)
  PROVE  /\ Last'.step = step /\ Last'.as = Asked.as /\ Last'.resp = resp
         /\ step # "create" => Last'.path = Item.path
         /\ pc = "run" /\ item \in 1..Len(Items) /\ Check \in CheckIds
         /\ resp = "lost" \/ (resp = Answer("vulnerable", Last') /\ Effect("vulnerable", Last'))
<1>1. /\ ScanInv /\ Build = "vulnerable" /\ (wire' # wire => Served(Build, Last'))
  BY Running, AtFirst DEF Ready
<1>2. /\ wire' # wire /\ Last'.step = step /\ Last'.as = Asked.as
      /\ step # "create" => Last'.path = Item.path
      /\ Last'.resp = resp /\ pc = "run" /\ item \in 1..Len(Items) /\ Check \in CheckIds
  BY <1>1, AskSends
<1> QED BY <1>1, <1>2 DEF Served

\* When the oracles accept an answer of the vulnerable build (the handlers of app.py).
LEMMA VulnAnswer ==
  ASSUME Ready, NEW resp \in Responses, Ask(resp), resp # "lost"
  PROVE  /\ step = "probe" /\ Check \in {"exposure", "ssrf"} =>
              (Fires(Check, resp) <=> Item.path \in Leaky)
         /\ step = "inject" /\ Check = "sqli" =>
              (Fires(Check, resp) <=> Item.path = "/api/products/search" /\ tries + 1 \in Breaking)
         /\ step = "read" /\ Check = "bola" /\ ~Excused("bola") => Fires(Check, resp)
         /\ step = "confirm" /\ Check = "mass_assignment" => Fires(Check, resp)
         /\ step = "alg_none" /\ Check = "jwt" => Fires(Check, resp)
<1>1. /\ Last'.step = step /\ Last'.as = Asked.as
      /\ step # "create" => Last'.path = Item.path
      /\ pc = "run" /\ item \in 1..Len(Items) /\ resp = Answer("vulnerable", Last')
  BY Served1
<1>2. Midway /\ Identified
  BY DEF Ready, Sweeping
<1>3. ASSUME step = "probe", Check \in {"exposure", "ssrf"}
      PROVE  Fires(Check, resp) <=> Item.path \in Leaky
  <2>0. Last'.path = Item.path
    BY <1>1, <1>3
  <2>1. resp = Probed("vulnerable", Last')
    BY <1>1, <1>3 DEF Answer
  <2>2. Item.path \in Leaky => resp = "hit"
    BY <2>0, <2>1 DEF Probed, Leaky, debug_users, url_preview, Allowlisted
  <2>3. Item.path \notin Leaky => resp \in {"denied", "clean"}
    BY <2>0, <2>1 DEF Probed, Leaky, me, url_preview_safe
  <2> QED BY <1>3, <2>2, <2>3 DEF Fires
<1>4. ASSUME step = "inject", Check = "sqli"
      PROVE  Fires(Check, resp) <=> Item.path = "/api/products/search" /\ tries + 1 \in Breaking
  <2>0. Last'.path = Item.path
    BY <1>1, <1>4
  <2>1. resp = Injected("vulnerable", Last')
    BY <1>1, <1>4 DEF Answer
  <2>2. resp = IF Item.path = "/api/products/search" /\ tries + 1 \in Breaking THEN "denied_hit"
               ELSE IF Item.path = "/api/products/search" THEN "clean" ELSE "denied"
    BY <1>1, <2>0, <2>1 DEF Injected, search_products, Concatenated
  <2> QED BY <1>4, <2>2 DEF Fires
<1>5. ASSUME step = "read", Check = "bola", ~Excused("bola")
      PROVE  Fires(Check, resp)
  <2>1. resp = read_note("vulnerable", Asked.as)
    BY <1>1, <1>5 DEF Answer
  <2>2. ~LoginDenied /\ note["vulnerable"] # NoNote
    BY <1>1, <1>2, <1>5 DEF Midway, Excused
  <2>3. LetIn(job, Item.as)
    BY <1>1, <1>5, HintNow DEF Ready, Workable, HintKeys, CheckIds, SpecDriven
  <2>4. Credentials(Item.as) # Nobody /\ Credentials(Item.as) # Forged
    BY <1>1, <1>2, <2>2, <2>3, CredentialsOf DEF Ready, Checking
  <2>5. Asked.as = Credentials(Item.as)
    BY <1>5 DEF Asked, Decision, SpecDriven
  <2>6. resp = "hit"
    BY <2>1, <2>2, <2>4, <2>5 DEF read_note, Principal, Readable
  <2> QED BY <1>5, <2>6 DEF Fires
<1>6. ASSUME step = "confirm", Check = "mass_assignment"
      PROVE  Fires(Check, resp)
  <2>1. resp = debug_shows_admin("vulnerable", Fresh)
    BY <1>1, <1>6 DEF Answer
  <2>2. resp = "hit"
    BY <1>1, <1>2, <1>6, <2>1 DEF debug_shows_admin, Midway
  <2> QED BY <1>6, <2>2 DEF Fires
<1>7. ASSUME step = "alg_none", Check = "jwt"
      PROVE  Fires(Check, resp)
  <2>1. resp = me("vulnerable", Asked.as) /\ Asked.as = Forged
    BY <1>1, <1>7 DEF Answer, Asked, Decision, SpecDriven
  <2>2. resp = "clean"
    BY <2>1, EngineAssumption DEF me, Principal
  <2> QED BY <1>7, <2>2 DEF Fires
<1> QED BY <1>3, <1>4, <1>5, <1>6, <1>7

\* What the request that sets a probe up leaves on the vulnerable build.
LEMMA VulnCreate ==
  ASSUME Ready, NEW resp \in Responses, Ask(resp), resp # "lost", step = "create"
  PROVE  /\ Check = "bola" => note'["vulnerable"] # NoNote \/ Excused("bola")'
         /\ Check = "mass_assignment" =>
              Fresh \in DOMAIN users'["vulnerable"] /\ users'["vulnerable"][Fresh].admin
<1>1. /\ Last'.step = step /\ Last'.as = Asked.as
      /\ pc = "run" /\ item \in 1..Len(Items) /\ Effect("vulnerable", Last')
  BY Served1
<1>2. /\ AppTypeOK /\ "vulnerable" \in Builds /\ ScanInv /\ Next /\ Identified
  BY AtFirst, Running DEF Ready, Sweeping
<1>3. ASSUME Check = "bola" PROVE note'["vulnerable"] # NoNote \/ Excused("bola")'
  <2>1. CreateNote("vulnerable", Asked.as)
    BY <1>1, <1>3 DEF Effect
  <2>2. CASE LoginDenied
    <3>1. LoginDenied'
      BY <1>2, <2>2, WireStays, ExcusedStays
    <3> QED BY <3>1 DEF Excused
  <2>3. CASE ~LoginDenied
    <3>1. LetIn(job, Item.owner)
      BY <1>1, <1>3, HintNow DEF Ready, Workable, HintKeys, CheckIds, SpecDriven
    <3>2. Credentials(Item.owner) \in Names \ {Anon} /\ Credentials(Item.owner) # Nobody
          /\ Credentials(Item.owner) # Forged
      BY <1>1, <1>2, <2>3, <3>1, CredentialsOf DEF Ready, Checking
    <3>3. Asked.as = Credentials(Item.owner)
      BY <1>3 DEF Asked, Creation, SpecDriven
    <3>4. Asked.as \in Accounts /\ Asked.as # NoNote
      BY <3>2, <3>3, BenchAssumption, AppAssumption
    <3>5. note'["vulnerable"] = Asked.as
      BY <1>2, <2>1, <3>2, <3>3 DEF CreateNote, Principal, AppTypeOK
    <3> QED BY <3>4, <3>5
  <2> QED BY <2>2, <2>3
<1>4. ASSUME Check = "mass_assignment"
      PROVE  Fresh \in DOMAIN users'["vulnerable"] /\ users'["vulnerable"][Fresh].admin
  <2>1. RegisterFresh("vulnerable", Scanner, Fresh, TRUE)
    BY <1>1, <1>4 DEF Effect
  <2> QED BY <1>2, <2>1, FreshIs DEF Bound
<1> QED BY <1>3, <1>4

------------------------------------------------------------------------------
\* What a step of a check sweeps.

\* The check stays at its item, or leaves it with every bug of it found or excused.
Sweeps ==
  /\ pc = "run" /\ pc' = "run" /\ slot' = slot /\ UNCHANGED <<endpoints, findings, status>>
  /\ item \in 1..Len(Items) /\ item' \in {item, item + 1}
  /\ Fingerprints(local) \subseteq Fingerprints(local')
  /\ Fingerprints(local') \subseteq Fingerprints(local) \cup ShownBy(Check, Item)
  /\ item' = item + 1 =>
       step' = "next" /\ (Excused(Check)' \/ ShownBy(Check, Item) \subseteq Fingerprints(local'))

\* An item that is over leaves nothing midway.
LEMMA NothingMidway ==
  ASSUME step' = "next" \/ pc' # "run"
  PROVE  Midway'
BY DEF Midway

\* A request of a check stays with the check (Ask).
LEMMA AskStays ==
  ASSUME Ready, NEW resp \in Responses, Ask(resp)
  PROVE  /\ pc = "run" /\ pc' = "run" /\ slot' = slot /\ UNCHANGED <<job, endpoints, findings, status>>
         /\ item \in 1..Len(Items) /\ Check \in CheckIds /\ Check' = Check
         /\ resp = "lost" => Excused(Check)'
         /\ local \in Seq(Finding)
<1>1. ScanInv
  BY Running DEF Ready
<1>2. /\ pc = "run" /\ pc' = "run" /\ slot' = slot /\ UNCHANGED <<job, endpoints, findings, status>>
      /\ item \in 1..Len(Items) /\ Check \in CheckIds
  BY <1>1, AskSends
<1>3. resp = "lost" => Excused(Check)'
  BY <1>1, LostExcuses
<1>4. local \in Seq(Finding)
  BY <1>1, Shape DEF ScanInv
<1> QED BY <1>2, <1>3, <1>4 DEF Check

\* The request that decides, and what its oracle makes of the answer.
LEMMA JudgeSweeps ==
  ASSUME Ready, NEW resp \in Responses, Ask(resp), NEW method, NEW path, NEW evidence,
         Judge(resp, method, path, evidence), NextItem,
         resp = "lost" => ~Fires(Check, resp),
         Fires(Check, resp) => <<Check, method, path>> \in ShownBy(Check, Item),
         resp # "lost" =>
           \/ Excused(Check)'
           \/ ShownBy(Check, Item) = {}
           \/ Fires(Check, resp) /\ ShownBy(Check, Item) \subseteq
                                      {<<Check, method, path>>} \cup Fingerprints(local)
  PROVE  Sweeps /\ Midway'
<1>1. /\ pc = "run" /\ pc' = "run" /\ slot' = slot /\ UNCHANGED <<endpoints, findings, status>>
      /\ item \in 1..Len(Items) /\ local \in Seq(Finding)
      /\ resp = "lost" => Excused(Check)'
  BY AskStays
<1>2. item' = item + 1 /\ step' = "next"
  BY DEF NextItem
<1>3. CASE Fires(Check, resp)
  <2>1. Fingerprints(local') = Fingerprints(local) \cup {<<Check, method, path>>}
    BY <1>1, <1>3, FoundOne DEF Judge
  <2> QED BY <1>1, <1>2, <1>3, <2>1, NothingMidway DEF Sweeps
<1>4. CASE ~Fires(Check, resp)
  <2>1. local' = local
    BY <1>4 DEF Judge
  <2> QED BY <1>1, <1>2, <1>4, <2>1, NothingMidway, AskStays DEF Sweeps
<1> QED BY <1>3, <1>4

\* A lost answer makes no finding.
LEMMA LostIsSilent ==
  ASSUME NEW cid
  PROVE  ~Fires(cid, "lost")
BY DEF Fires

\* The checks that decide with one request (exposure.py, ssrf.py, bola.py, jwt.py).
LEMMA ProbeSweeps ==
  ASSUME Ready, ExposureProbe \/ SsrfProbe \/ BolaRead \/ MassConfirm \/ JwtAlgNone
  PROVE  Sweeps /\ Midway'
<1>0. Midway
  BY DEF Ready, Sweeping
<1>1. CASE ExposureProbe \/ SsrfProbe
  <2>1. PICK resp \in Responses : Ask(resp) /\ Judge(resp, Item.method, Item.path, <<Here>>)
    BY <1>1 DEF ExposureProbe, SsrfProbe
  <2>2. step = "probe" /\ Check \in {"exposure", "ssrf"} /\ NextItem
    BY <1>1 DEF ExposureProbe, SsrfProbe
  <2>3. FirstStep(Check, Item) = "probe"
    BY <1>0, <2>1, <2>2, AskStays DEF Midway
  <2>4. ShownBy(Check, Item) = IF Item.path \in Leaky THEN {<<Check, Item.method, Item.path>>} ELSE {}
    BY <2>1, <2>2, <2>3, AskStays, ShownAt
  <2>5. resp # "lost" => (Fires(Check, resp) <=> Item.path \in Leaky)
    BY <2>1, <2>2, VulnAnswer
  <2> QED BY <2>1, <2>2, <2>4, <2>5, LostIsSilent, JudgeSweeps
<1>2. CASE BolaRead
  <2>1. PICK resp \in Responses : Ask(resp) /\ Judge(resp, Item.method, Item.path, <<Here>>)
    BY <1>2 DEF BolaRead
  <2>2. step = "read" /\ Check = "bola" /\ NextItem
    BY <1>2 DEF BolaRead
  <2>3. ShownBy(Check, Item) = {<<Check, Item.method, Item.path>>}
    BY <2>1, <2>2, AskStays, ShownAt
  <2>4. resp # "lost" => Excused(Check)' \/ Fires(Check, resp)
    <3>1. Excused("bola") => Excused("bola")'
      BY Running, WireStays, ExcusedStays DEF Ready
    <3> QED BY <2>1, <2>2, <3>1, VulnAnswer, AskStays
  <2> QED BY <2>1, <2>2, <2>3, <2>4, LostIsSilent, JudgeSweeps
<1>3. CASE MassConfirm
  <2>1. PICK resp \in Responses :
          Ask(resp) /\ Judge(resp, Item.create_method, Item.create_path, <<Here, Len(wire)>>)
    BY <1>3 DEF MassConfirm
  <2>2. step = "confirm" /\ Check = "mass_assignment" /\ NextItem
    BY <1>3 DEF MassConfirm
  <2>3. ShownBy(Check, Item) = {<<Check, Item.create_method, Item.create_path>>}
    BY <2>1, <2>2, AskStays, ShownAt
  <2>4. resp # "lost" => Fires(Check, resp)
    BY <2>1, <2>2, VulnAnswer
  <2> QED BY <2>1, <2>2, <2>3, <2>4, LostIsSilent, JudgeSweeps
<1>4. CASE JwtAlgNone
  <2>1. PICK resp \in Responses : Ask(resp) /\ Judge(resp, Item.method, Item.path, <<Here>>)
    BY <1>4 DEF JwtAlgNone
  <2>2. step = "alg_none" /\ Check = "jwt" /\ NextItem
    BY <1>4 DEF JwtAlgNone
  <2>3. Item.create
    BY <2>1, <2>2 DEF Ask, Asking, Forging
  <2>4. ShownBy(Check, Item) = {<<Check, "POST", LoginPath>>} \cup {<<Check, Item.method, Item.path>>}
    BY <2>1, <2>2, <2>3, AskStays, ShownAt
  <2>5. <<Check, "POST", LoginPath>> \in Fingerprints(local)
    BY <1>0, <2>1, <2>2, AskStays DEF Midway
  <2>6. resp # "lost" => Fires(Check, resp)
    BY <2>1, <2>2, VulnAnswer
  <2> QED BY <2>1, <2>2, <2>4, <2>5, <2>6, LostIsSilent, JudgeSweeps
<1> QED BY <1>1, <1>2, <1>3, <1>4

\* The requests that set a probe up (bola.py, mass_assignment.py).
LEMMA CreateSweeps ==
  ASSUME Ready, BolaCreate \/ MassCreate
  PROVE  Sweeps /\ Midway'
<1>1. CASE BolaCreate
  <2>1. PICK resp \in {"lost", "clean"} : Ask(resp)
    BY <1>1 DEF BolaCreate
  <2>2. /\ step = "create" /\ Check = "bola" /\ step' = "read" /\ resp \in Responses
        /\ UNCHANGED <<item, tries, local>>
    BY <1>1, <2>1 DEF BolaCreate, Responses
  <2>3. /\ pc = "run" /\ pc' = "run" /\ slot' = slot /\ UNCHANGED <<endpoints, findings, status>>
        /\ item \in 1..Len(Items) /\ item # item + 1
        /\ resp = "lost" => Excused(Check)'
    BY <2>1, <2>2, AskStays
  <2>4. Excused("bola")' \/ note'["vulnerable"] # NoNote
    <3>1. CASE resp = "lost"
      BY <2>1, <2>2, <2>3, <3>1, AskStays
    <3>2. CASE resp # "lost"
      BY <2>1, <2>2, <3>2, VulnCreate
    <3> QED BY <3>1, <3>2
  <2>5. Midway'
    BY <2>2, <2>4 DEF Midway
  <2> QED BY <2>2, <2>3, <2>5 DEF Sweeps
<1>2. CASE MassCreate
  <2>1. PICK resp \in {"lost", "clean"} :
          Ask(resp) /\ IF resp = "lost" THEN NextItem ELSE step' = "confirm" /\ UNCHANGED <<item, tries>>
    BY <1>2 DEF MassCreate
  <2>2. step = "create" /\ Check = "mass_assignment" /\ local' = local /\ resp \in Responses
    BY <1>2, <2>1 DEF MassCreate, Responses
  <2>3. /\ pc = "run" /\ pc' = "run" /\ slot' = slot /\ UNCHANGED <<endpoints, findings, status>>
        /\ item \in 1..Len(Items) /\ item # item + 1
        /\ resp = "lost" => Excused(Check)'
    BY <2>1, <2>2, AskStays
  <2>4. CASE resp = "lost"
    <3>1. item' = item + 1 /\ step' = "next"
      BY <2>1, <2>4 DEF NextItem
    <3> QED BY <2>2, <2>3, <2>4, <3>1, NothingMidway DEF Sweeps
  <2>5. CASE resp # "lost"
    <3>1. step' = "confirm" /\ item' = item
      BY <2>1, <2>5
    <3>2. Fresh \in DOMAIN users'["vulnerable"] /\ users'["vulnerable"][Fresh].admin
      BY <2>1, <2>2, <2>5, VulnCreate
    <3>3. Midway'
      BY <3>1, <3>2 DEF Midway
    <3> QED BY <2>2, <2>3, <3>1, <3>3 DEF Sweeps
  <2> QED BY <2>4, <2>5
<1> QED BY <1>1, <1>2

\* The payloads for one endpoint, until one of them breaks its query (sqli.py:87-93).
LEMMA InjectSweeps ==
  ASSUME Ready, SqliInject
  PROVE  Sweeps /\ Midway'
<1>1. PICK resp \in Responses :
        /\ Ask(resp)
        /\ IF Fires(Check, resp) /\ ~Seen
           THEN Found(Item.method, Item.path, <<Here>>) /\ NextItem
           ELSE /\ IF tries + 1 < Payloads
                   THEN tries' = tries + 1 /\ UNCHANGED <<item, step>> ELSE NextItem
                /\ UNCHANGED <<local, hits>>
  BY DEF SqliInject
<1>2. step = "inject" /\ Check = "sqli"
  BY DEF SqliInject
<1>3. /\ pc = "run" /\ pc' = "run" /\ slot' = slot /\ UNCHANGED <<job, endpoints, findings, status>>
      /\ item \in 1..Len(Items) /\ Check' = Check /\ local \in Seq(Finding)
      /\ resp = "lost" => Excused(Check)'
  BY <1>1, AskStays
<1>4. /\ ScanInv /\ Midway /\ tries \in Nat /\ Payloads \in Nat /\ endpoints \in Seq(Endpoint)
      /\ LostIn \subseteq LostIn'
  BY Running, WireStays, ExcusedStays, Shape DEF Ready, Sweeping, ScanInv
<1>5. FirstStep(Check, Item) = "inject" /\ tries < Payloads /\ Item.method = "GET"
  BY <1>2, <1>3, <1>4 DEF Midway, ScanInv, PayloadsBehind, OperationsOnce
<1>6. ShownBy(Check, Item) =
        IF Item.path = "/api/products/search" /\ Breaking \cap 1..Payloads # {}
        THEN {<<Check, Item.method, Item.path>>} ELSE {}
  BY <1>2, <1>5, ShownAt DEF CheckIds
<1>7. resp = "lost" => ~Fires(Check, resp)
  BY LostIsSilent
<1>8. resp # "lost" => (Fires(Check, resp) <=> Item.path = "/api/products/search" /\ tries + 1 \in Breaking)
  BY <1>1, <1>2, VulnAnswer
<1>9. ~Seen
  <2> SUFFICES ASSUME NEW i \in 1..Len(local), local[i].path = Item.path
               PROVE  FALSE
    BY DEF Seen
  <2>1. PICK m \in 1..(item - 1) :
          m <= Len(endpoints) /\ endpoints[m].path = local[i].path /\ endpoints[m].method = "GET"
    BY <1>2, <1>3, <1>4 DEF ScanInv, OperationsOnce
  <2>2. Items = endpoints
    BY <1>2 DEF Items, SpecDriven
  <2>3. item \in 1..Len(endpoints) /\ Item = endpoints[item] /\ Len(endpoints) \in Nat
    BY <1>3, <1>4, <2>2 DEF Item
  <2>4. m \in 1..Len(endpoints) /\ m # item
    BY <2>1, <2>3
  <2>5. endpoints[m].path = endpoints[item].path /\ endpoints[m].method = endpoints[item].method
    BY <1>5, <2>1, <2>3
  <2> QED BY <1>4, <2>3, <2>4, <2>5 DEF ScanInv, OperationsOnce
<1>10. CASE Fires(Check, resp)
  <2>1. Found(Item.method, Item.path, <<Here>>) /\ NextItem
    BY <1>1, <1>9, <1>10
  <2>2. Fingerprints(local') = Fingerprints(local) \cup {<<Check, Item.method, Item.path>>}
    BY <1>3, <2>1, FoundOne
  <2>3. tries + 1 \in 1..Payloads
    BY <1>4, <1>5
  <2>4. ShownBy(Check, Item) = {<<Check, Item.method, Item.path>>}
    BY <1>6, <1>7, <1>8, <1>10, <2>3
  <2>5. item' = item + 1 /\ step' = "next"
    BY <2>1 DEF NextItem
  <2> QED BY <1>3, <2>2, <2>4, <2>5, NothingMidway DEF Sweeps
<1>11. CASE ~Fires(Check, resp)
  <2>1. /\ IF tries + 1 < Payloads THEN tries' = tries + 1 /\ UNCHANGED <<item, step>> ELSE NextItem
        /\ local' = local
    BY <1>1, <1>11
  <2>2. Item.path = "/api/products/search" /\ "sqli" \notin LostIn' => tries + 1 \notin Breaking
    <3>1. Excused("sqli")' <=> "sqli" \in LostIn'
      BY DEF Excused
    <3> QED BY <1>2, <1>3, <1>8, <1>11, <3>1
  <2>3. Item.path = "/api/products/search" /\ "sqli" \notin LostIn' =>
          \A p \in 1..(tries + 1) : p \notin Breaking
    <3>1. \A p \in 1..(tries + 1) : p \in 1..tries \/ p = tries + 1
      BY <1>4
    <3>2. Item.path = "/api/products/search" /\ "sqli" \notin LostIn' => \A p \in 1..tries : p \notin Breaking
      BY <1>2, <1>3, <1>4 DEF Midway
    <3> QED BY <2>2, <3>1, <3>2
  <2>4. CASE tries + 1 < Payloads
    <3>1. tries' = tries + 1 /\ item' = item /\ step' = "inject" /\ item # item + 1
      BY <1>2, <1>3, <2>1, <2>4
    <3>2. Item' = Item
      BY <1>3, <3>1 DEF Item, Items, Check
    <3>3. Midway'
      BY <1>3, <1>5, <2>3, <3>1, <3>2 DEF Midway
    <3> QED BY <1>3, <2>1, <3>1, <3>3 DEF Sweeps
  <2>5. CASE ~(tries + 1 < Payloads)
    <3>1. item' = item + 1 /\ step' = "next" /\ tries + 1 = Payloads
      BY <1>4, <1>5, <2>1, <2>5 DEF NextItem
    <3>2. "sqli" \in LostIn' \/ ShownBy(Check, Item) = {}
      BY <1>6, <2>3, <3>1
    <3>3. Excused(Check)' \/ ShownBy(Check, Item) = {}
      BY <1>2, <1>3, <3>2 DEF Excused
    <3> QED BY <1>3, <2>1, <3>1, <3>3, NothingMidway DEF Sweeps
  <2> QED BY <2>4, <2>5
<1> QED BY <1>10, <1>11

\* The token of an item stays while the item does.
LEMMA SameItem ==
  ASSUME UNCHANGED <<job, endpoints, identities, slot, item>>
  PROVE  Item' = Item /\ Items' = Items /\ Check' = Check /\ JwtToken' = JwtToken
<1>1. Item' = Item /\ Items' = Items /\ Check' = Check
  BY DEF Item, Items, Check
<1> QED BY <1>1 DEF JwtToken, TokenFor, WithToken, Position

\* The steps of a check that ask nothing (PassBy to JwtNoForgery).
LEMMA OfflineSweeps ==
  ASSUME Ready, PassBy \/ Begin \/ JwtWeakSecret \/ JwtNoForgery
  PROVE  Sweeps /\ Midway'
<1>1. /\ ScanInv /\ AllCrawled /\ Midway /\ Identified /\ TokenInHand /\ StepInPlace /\ PayloadsBehind
      /\ item \in Nat \ {0} /\ local \in Seq(Finding)
  BY AtFirst, Shape DEF Ready, Sweeping, ScanInv, EInv, IInv, TypeOK
<1>2. /\ pc = "run" /\ pc' = "run" /\ UNCHANGED <<job, endpoints, identities, slot, findings, status>>
  BY DEF PassBy, Begin, JwtWeakSecret, JwtNoForgery, setup, output
<1>3. item \in 1..Len(Items)
  BY <1>1, <1>2, ItemsAre DEF PassBy, Begin, JwtWeakSecret, JwtNoForgery, StepInPlace
<1>4. Check \in CheckIds /\ Check' = Check
  BY <1>1, <1>2, ItemsAre DEF Check
<1>5. Check \in HintKeys => Workable(job, Check, Item)
  BY <1>2, <1>3, HintNow DEF Ready
<1>6. Check = "jwt" => Guessable(JwtToken) \/ (LoginDenied /\ JwtToken = NoToken)
  BY <1>1, <1>2, <1>3, TokenNow DEF Ready
<1>7. item # item + 1
  BY <1>1
<1>8. LoginDenied => LoginDenied'
  BY Running, WireStays, ExcusedStays DEF Ready
<1>9. CASE PassBy
  <2>1. PassedBy /\ item' = item + 1 /\ step' = "next" /\ local' = local
    BY <1>9 DEF PassBy, NextItem
  <2>2. CASE Check = "jwt"
    <3>1. FirstStep(Check, Item) = "weak"
      BY <2>2 DEF FirstStep
    <3>2. JwtToken = NoToken
      BY <2>1, <3>1 DEF PassedBy
    <3>3. LoginDenied'
      BY <1>6, <1>8, <2>2, <3>2 DEF Guessable
    <3>4. Excused(Check)'
      BY <1>4, <2>2, <3>3 DEF Excused
    <3> QED BY <1>2, <1>3, <2>1, <3>4, NothingMidway DEF Sweeps
  <2>3. CASE Check # "jwt"
    <3>1. FirstStep(Check, Item) = "none"
      BY <2>1, <2>3 DEF PassedBy
    <3>2. Check \in {"exposure", "sqli"}
      BY <1>4, <2>3, <3>1 DEF FirstStep, CheckIds
    <3>3. ShownBy(Check, Item) = {}
      BY <1>4, <3>1, <3>2, ShownAt
    <3> QED BY <1>2, <1>3, <2>1, <3>3, NothingMidway DEF Sweeps
  <2> QED BY <2>2, <2>3
<1>10. CASE Begin
  <2>1. step = "next" /\ step' = FirstStep(Check, Item) /\ UNCHANGED <<item, tries, local>>
    BY <1>10 DEF Begin
  <2>2. tries' = 0
    BY <1>1, <2>1 DEF PayloadsBehind
  <2>3. Item' = Item
    BY <1>2, <2>1, SameItem
  <2>4. FirstStep(Check, Item) \notin {"read", "confirm", "alg_none"}
    <3>1. CASE Check = "bola"
      BY <1>5, <3>1 DEF FirstStep, Workable, HintKeys, CheckIds, SpecDriven
    <3>2. CASE Check # "bola"
      BY <1>4, <3>2 DEF FirstStep, CheckIds
    <3> QED BY <3>1, <3>2
  <2>5. Midway'
    BY <1>4, <2>1, <2>2, <2>3, <2>4 DEF Midway
  <2> QED BY <1>2, <1>3, <1>7, <2>1, <2>5 DEF Sweeps
<1>11. CASE JwtWeakSecret
  <2>1. /\ step = "weak" /\ step' = "alg_none" /\ item' = item
        /\ IF WeakSecret(JwtToken) THEN Found("POST", LoginPath, <<0>>) ELSE UNCHANGED <<local, hits>>
    BY <1>11 DEF JwtWeakSecret
  <2>2. Check = "jwt" /\ JwtToken # NoToken
    BY <1>1, <1>2, <2>1 DEF TokenInHand
  <2>3. WeakSecret(JwtToken)
    BY <1>6, <2>2 DEF Guessable
  <2>4. Fingerprints(local') = Fingerprints(local) \cup {<<Check, "POST", LoginPath>>}
    BY <1>1, <2>1, <2>3, FoundOne
  <2>5. <<Check, "POST", LoginPath>> \in ShownBy(Check, Item)
    BY <2>2 DEF ShownBy
  <2>6. JwtToken' = JwtToken
    BY <1>2, <2>1, SameItem
  <2>7. Fingerprints(local)' = Fingerprints(local')
    BY DEF Fingerprints
  <2>8. Midway'
    BY <1>4, <2>1, <2>2, <2>4, <2>6, <2>7 DEF Midway
  <2> QED BY <1>2, <1>3, <1>7, <2>1, <2>4, <2>5, <2>8 DEF Sweeps
<1>12. CASE JwtNoForgery
  <2>1. /\ step = "alg_none" /\ item' = item + 1 /\ step' = "next" /\ local' = local
        /\ ~Item.create \/ JwtToken.payload = "unreadable"
    BY <1>12 DEF JwtNoForgery, NextItem
  <2>2. Check = "jwt" /\ JwtToken # NoToken /\ <<"jwt", "POST", LoginPath>> \in Fingerprints(local)
    BY <1>1, <1>2, <2>1 DEF Midway
  <2>3. ~Item.create
    BY <1>6, <2>1, <2>2 DEF Guessable
  <2>4. ShownBy(Check, Item) = {<<Check, "POST", LoginPath>>}
    BY <1>4, <2>2, <2>3, ShownAt
  <2> QED BY <1>2, <1>3, <2>1, <2>2, <2>4, NothingMidway DEF Sweeps
<1> QED BY <1>9, <1>10, <1>11, <1>12

------------------------------------------------------------------------------
\* What a step of the first scan leaves swept.

\* Two lists have the fingerprints of both (findings.extend).
LEMMA Extended ==
  ASSUME NEW s \in Seq(Finding), NEW t \in Seq(Finding)
  PROVE  Fingerprints(s \o t) = Fingerprints(s) \cup Fingerprints(t)
<1> DEFINE u == s \o t
<1>1. /\ Len(s) \in Nat /\ Len(t) \in Nat /\ Len(u) = Len(s) + Len(t)
      /\ \A i \in 1..Len(u) : u[i] = IF i <= Len(s) THEN s[i] ELSE t[i - Len(s)]
  OBVIOUS
<1> HIDE DEF u
<1>2. \A i \in 1..Len(u) : (i \in 1..Len(s) /\ u[i] = s[i]) \/ (i - Len(s) \in 1..Len(t) /\ u[i] = t[i - Len(s)])
  BY <1>1
<1>3. \A i \in 1..Len(s) : i \in 1..Len(u) /\ u[i] = s[i]
  BY <1>1
<1>4. ASSUME NEW i \in 1..Len(t) PROVE i + Len(s) \in 1..Len(u) /\ u[i + Len(s)] = t[i]
  <2>1. i + Len(s) \in 1..Len(u) /\ ~(i + Len(s) <= Len(s)) /\ (i + Len(s)) - Len(s) = i
    BY <1>1
  <2> QED BY <1>1, <2>1
<1>5. Fingerprints(u) \subseteq Fingerprints(s) \cup Fingerprints(t)
  BY <1>2 DEF Fingerprints
<1>6. Fingerprints(s) \subseteq Fingerprints(u) /\ Fingerprints(t) \subseteq Fingerprints(u)
  BY <1>3, <1>4 DEF Fingerprints
<1> QED BY <1>5, <1>6 DEF u
\* A step of a check keeps what is swept.
LEMMA SweptRun ==
  ASSUME Ready, Sweeps
  PROVE  Swept'
<1>1. /\ job' = job /\ Swept /\ item \in Nat \ {0}
      /\ \A cid : Excused(cid) => Excused(cid)'
  BY Running, WireStays, ExcusedStays, Shape DEF Ready, Sweeping, ScanInv
<1>2. /\ pc = "run" /\ pc' = "run" /\ slot' = slot /\ UNCHANGED <<endpoints, findings, status>>
      /\ item \in 1..Len(Items) /\ item' \in {item, item + 1}
      /\ Fingerprints(local) \subseteq Fingerprints(local')
      /\ Fingerprints(local') \subseteq Fingerprints(local) \cup ShownBy(Check, Item)
      /\ item' = item + 1 => Excused(Check)' \/ ShownBy(Check, Item) \subseteq Fingerprints(local')
  BY DEF Sweeps
<1>3. Check' = Check /\ Items' = Items /\ Slots' = Slots
  BY <1>1, <1>2 DEF Check, Items, Slots
<1>4. ShownBy(Check, Item) \subseteq Shown(job)
  BY <1>2, AtFirst, ItemsAre DEF Ready, Item
<1>5. ASSUME NEW i \in 1..Len(Items), i < item'
      PROVE  Excused(Check)' \/ ShownBy(Check, Items[i]) \subseteq Fingerprints(local')
  <2>1. CASE i < item
    <3>1. Excused(Check) => Excused(Check)'
      BY <1>1, <1>3
    <3>2. Excused(Check) \/ ShownBy(Check, Items[i]) \subseteq Fingerprints(local)
      BY <1>1, <1>2, <2>1 DEF Swept
    <3> QED BY <1>2, <3>1, <3>2
  <2>2. CASE ~(i < item)
    <3>1. item' = item + 1 /\ i = item
      BY <1>1, <1>2, <1>5, <2>2
    <3> QED BY <1>2, <3>1 DEF Item
  <2> QED BY <2>1, <2>2
<1>6. ASSUME NEW s \in Slots, NEW cid, Settled(s, cid) PROVE Settled(s, cid)'
  <2>1. Excused(cid) => Excused(cid)'
    BY <1>1
  <2> QED BY <1>1, <1>2, <1>6, <2>1 DEF Settled, Checking
<1>7. \A s \in Slots' : Settled(s, job.check_ids[s])'
  <2>1. \A s \in Slots : Settled(s, job.check_ids[s])
    BY <1>1 DEF Swept
  <2> QED BY <1>1, <1>3, <1>6, <2>1
<1>8. \A i \in 1..Len(Items)' : i < item' =>
        Excused(Check)' \/ ShownBy(Check', Items'[i]) \subseteq Fingerprints(local')
  BY <1>3, <1>5
<1>9. Fingerprints(local') \cup Fingerprints(findings') \subseteq Shown(job')
  BY <1>1, <1>2, <1>4 DEF Swept
<1>10. pc' \notin Phases \ {"run"}
  BY <1>2
<1> QED BY <1>7, <1>8, <1>9, <1>10 DEF Swept

\* Between the checks, nothing found is lost and nothing is settled without its bugs.
LEMMA SweptAgain ==
  ASSUME Ready,
         pc' # "run" \/ item' = 1,
         pc' \in Phases \ {"run"} => item' = 1,
         Fingerprints(local') \cup Fingerprints(findings')
           \subseteq Fingerprints(local) \cup Fingerprints(findings),
         \A s \in Slots : \A cid : cid = job.check_ids[s] => Settled(s, cid)'
  PROVE  Swept'
<1>1. job' = job /\ Swept /\ Slots' = Slots
  BY Running, WireStays, ExcusedStays DEF Ready, Sweeping, Slots
<1>2. pc' = "run" => \A i \in 1..Len(Items)' : ~(i < item')
  OBVIOUS
<1>3. \A s \in Slots' : Settled(s, job.check_ids[s])'
  BY <1>1
<1>4. Fingerprints(local') \cup Fingerprints(findings') \subseteq Shown(job')
  BY <1>1 DEF Swept
<1> QED BY <1>2, <1>3, <1>4 DEF Swept

\* A check whose status a step leaves stays settled.
LEMMA SettledStays ==
  ASSUME Ready, NEW s \in Slots, NEW cid, Settled(s, cid), status'[s] = status[s],
         Fingerprints(findings) \subseteq Fingerprints(findings'),
         pc' \in Checking => pc \in Checking \/ status[s] = "pending"
  PROVE  Settled(s, cid)'
<1>1. job' = job /\ (Excused(cid) => Excused(cid)')
  BY Running, WireStays, ExcusedStays DEF Ready
<1> QED BY <1>1 DEF Settled

\* The end of a check (skip, findings.extend).
LEMMA NextSweeps ==
  ASSUME Ready, SkipCheck \/ ReturnFindings
  PROVE  Swept' /\ Midway'
<1>1. /\ ScanInv /\ AllCrawled /\ Swept /\ \A cid : Excused(cid) => Excused(cid)'
      /\ local \in Seq(Finding) /\ findings \in Seq(Finding) /\ status \in [Slots -> Outcomes]
  BY AtFirst, Running, WireStays, ExcusedStays, Shape DEF Ready, Sweeping, ScanInv, EInv, IInv, TypeOK
<1>2. /\ pc \in {"checks", "run"} /\ pc' = "checks" /\ item' = 1 /\ step' = "next" /\ local' = <<>>
      /\ UNCHANGED <<job, endpoints>>
  BY DEF SkipCheck, ReturnFindings, NextCheck, setup
<1>3. PICK outcome \in {"skipped", "ran"} : status' = [status EXCEPT ![slot] = outcome]
  BY DEF SkipCheck, ReturnFindings, NextCheck
<1>4. Fingerprints(local') = {}
  BY <1>2 DEF Fingerprints
<1>5. /\ Fingerprints(findings) \subseteq Fingerprints(findings')
      /\ Fingerprints(findings') \subseteq Fingerprints(local) \cup Fingerprints(findings)
      /\ ReturnFindings => Fingerprints(findings') = Fingerprints(findings) \cup Fingerprints(local)
  <2>1. CASE SkipCheck
    <3>1. findings' = findings /\ pc = "checks"
      BY <2>1 DEF SkipCheck
    <3> QED BY <3>1 DEF ReturnFindings
  <2>2. CASE ReturnFindings
    <3>1. findings' = findings \o local
      BY <2>2 DEF ReturnFindings
    <3> QED BY <1>1, <3>1, Extended
  <2> QED BY <2>1, <2>2
<1>6. ASSUME NEW cid, cid = Check
      PROVE  \A x \in ItemsOf(job, cid) : Excused(cid)' \/ ShownBy(cid, x) \subseteq Fingerprints(findings')
  <2>1. CASE SkipCheck
    <3>1. cid \in HintKeys /\ job.hints[cid] = <<>>
      BY <1>6, <2>1 DEF SkipCheck, Hintless
    <3>2. ItemsOf(job, cid) = {}
      BY <3>1 DEF ItemsOf, HintKeys, HintsOf
    <3> QED BY <3>2
  <2>2. CASE ReturnFindings
    <3>1. pc = "run" /\ item > Len(Items) /\ item \in Nat
      BY <1>1, <2>2, Shape DEF ReturnFindings, ScanInv
    <3>2. ItemsOf(job, cid) = {Items[i] : i \in 1..Len(Items)} /\ Len(Items) \in Nat
      BY <1>1, <1>6, <3>1, ItemsAre
    <3>3. ASSUME NEW i \in 1..Len(Items)
          PROVE  Excused(cid) \/ ShownBy(cid, Items[i]) \subseteq Fingerprints(local)
      <4>1. i < item
        BY <3>1, <3>2
      <4> QED BY <1>1, <1>6, <3>1, <4>1 DEF Swept
    <3>4. Excused(cid) => Excused(cid)'
      BY <1>1
    <3> QED BY <1>5, <2>2, <3>2, <3>3, <3>4
  <2> QED BY <2>1, <2>2
<1>7. ASSUME NEW s \in Slots, NEW cid, cid = job.check_ids[s] PROVE Settled(s, cid)'
  <2>1. CASE s = slot
    <3>1. status'[s] \notin {"blocked", "errored"}
      BY <1>1, <1>3, <2>1
    <3>2. cid = Check
      BY <1>7, <2>1 DEF Check
    <3> QED BY <1>2, <1>6, <3>1, <3>2 DEF Settled
  <2>2. CASE s # slot
    <3>1. status'[s] = status[s] /\ pc \in Checking /\ Settled(s, cid)
      BY <1>1, <1>2, <1>3, <1>7, <2>2 DEF Checking, Swept
    <3> QED BY <1>5, <3>1, SettledStays
  <2> QED BY <2>1, <2>2
<1>8. Swept'
  BY <1>2, <1>4, <1>5, <1>7, SweptAgain
<1> QED BY <1>2, <1>8, NothingMidway

\* The steps around the checks, from the scope to the report.
Around == \/ Validate \/ Resolve \/ SpecNotGiven \/ SpecFile \/ SpecFetch \/ Crawl \/ Crawled
          \/ StaticIdentity \/ LoginRefused \/ Register \/ Login \/ Authenticated
          \/ StartCheck \/ ChecksDone \/ OutOfScope \/ Dedup \/ Return

\* They are not of a check, and end none.
LEMMA AroundIs ==
  ASSUME Around
  PROVE  /\ UNCHANGED <<item, local, findings, status>>
         /\ pc' = "run" => pc = "checks" /\ step' = step
         /\ pc \in Phases /\ (pc = "run" => pc' = "ScopeError")
<1>1. CASE Validate \/ Resolve \/ Crawl \/ Crawled
  BY <1>1 DEF Validate, Resolve, Crawl, Crawled, probe, output, Phases
<1>2. CASE SpecNotGiven \/ SpecFile \/ SpecFetch
  BY <1>2 DEF SpecNotGiven, SpecFile, SpecFetch, SpecUnusable, probe, output, Phases
<1>3. CASE StaticIdentity \/ LoginRefused \/ Register \/ Login \/ Authenticated
  BY <1>3 DEF StaticIdentity, LoginRefused, Gate, Register, Login, Authenticated, Authenticating,
              probe, output, Phases
<1>4. CASE StartCheck \/ ChecksDone \/ OutOfScope \/ Dedup \/ Return
  BY <1>4 DEF StartCheck, ChecksDone, OutOfScope, Asking, Dedup, Return, probe, output, Phases
<1> QED BY <1>1, <1>2, <1>3, <1>4 DEF Around

\* They keep what is swept.
LEMMA AroundSweeps ==
  ASSUME Ready, Around
  PROVE  Swept' /\ Midway'
<1>1. /\ ScanInv /\ Swept /\ StepInPlace /\ ChecksInOrder /\ Next
  BY Running DEF Ready, Sweeping, ScanInv, EInv, IInv
<1>2. /\ UNCHANGED <<item, local, findings, status>>
      /\ pc' = "run" => pc = "checks" /\ step' = step
      /\ pc \in Phases /\ (pc = "run" => pc' = "ScopeError")
      /\ pc' \in Checking => pc \in Checking \/ pc = "auth"
  BY <1>1, AroundIs, PhaseSteps
<1>3. item' = 1 \/ pc' = "ScopeError"
  BY <1>1, <1>2 DEF Swept
<1>4. Midway'
  <2>1. step' = "next" \/ pc' # "run"
    BY <1>1, <1>2 DEF StepInPlace, Phases
  <2> QED BY <2>1, NothingMidway
<1>5. ASSUME NEW s \in Slots, NEW cid, cid = job.check_ids[s] PROVE Settled(s, cid)'
  <2>1. Settled(s, cid)
    BY <1>1, <1>5 DEF Swept
  <2>2. pc = "auth" => status[s] = "pending"
    BY <1>1 DEF ChecksInOrder, Preparing
  <2> QED BY <1>2, <2>1, <2>2, SettledStays
<1>6. Swept'
  BY <1>2, <1>3, <1>5, SweptAgain DEF Phases
<1> QED BY <1>4, <1>6

\* A step of the first scan keeps what is swept.
LEMMA ScanSweeps ==
  ASSUME Ready
  PROVE  Swept' /\ Midway'
<1>1. /\ ScanInv /\ Next /\ pc \notin Ended /\ BenchCore /\ stage = "first" /\ Identified /\ Midway
  BY Running DEF Ready, Sweeping
<1>2. ~BlockedMethod /\ ~CheckErrors /\ ~Terminated
  BY <1>1, NoneFails DEF Terminated
<1>3. CASE \/ ExposureProbe \/ SsrfProbe \/ BolaRead \/ MassConfirm \/ JwtAlgNone
           \/ BolaCreate \/ MassCreate \/ SqliInject
           \/ PassBy \/ Begin \/ JwtWeakSecret \/ JwtNoForgery
  <2>1. Sweeps /\ Midway'
    BY <1>3, ProbeSweeps, CreateSweeps, InjectSweeps, OfflineSweeps
  <2> QED BY <2>1, SweptRun
<1>4. CASE SkipCheck \/ ReturnFindings
  BY <1>4, NextSweeps
<1>5. CASE Around
  BY <1>5, AroundSweeps
<1> QED BY <1>1, <1>2, <1>3, <1>4, <1>5 DEF Next, Around

------------------------------------------------------------------------------
\* The sweep, step by step.

\* A scan begins with nothing to sweep.
LEMMA InitSweeps == Init => Identified /\ Midway /\ Swept
<1> SUFFICES ASSUME Init PROVE Identified /\ Midway /\ Swept
  OBVIOUS
<1>1. /\ pc = "validate" /\ identities = [n \in {Anon} |-> Anonymous] /\ item = 1
      /\ local = <<>> /\ findings = <<>> /\ status = [k \in Slots |-> "pending"]
  BY DEF Init
<1>2. Identified
  BY <1>1 DEF Identified, Checking
<1>3. Fingerprints(local) = {} /\ Fingerprints(findings) = {}
  BY <1>1 DEF Fingerprints
<1>4. \A s \in Slots : \A cid : Settled(s, cid)
  BY <1>1 DEF Settled
<1> QED BY <1>1, <1>2, <1>3, <1>4 DEF Midway, Swept

\* What others do to the target changes nothing the sweep rests on.
LEMMA StillSweeps ==
  ASSUME UNCHANGED <<vars, note>>,
         Fresh \in DOMAIN users["vulnerable"] =>
           Fresh \in DOMAIN users'["vulnerable"] /\ users'["vulnerable"][Fresh] = users["vulnerable"][Fresh]
  PROVE  Identified /\ Midway /\ Swept => Identified' /\ Midway' /\ Swept'
<1> SUFFICES ASSUME Identified, Midway, Swept PROVE Identified' /\ Midway' /\ Swept'
  OBVIOUS
<1>1. UNCHANGED <<job, pc, endpoints, identities, slot, item, step, tries, local, findings, status, wire>>
      /\ note' = note
  BY DEF vars
<1>2. /\ Item' = Item /\ Items' = Items /\ Check' = Check /\ JwtToken' = JwtToken /\ Slots' = Slots
  BY <1>1, SameItem DEF Slots
<1>3. (LoginDenied' <=> LoginDenied) /\ LostIn' = LostIn
  BY <1>1 DEF LoginDenied, LostIn, CheckOf
<1>4. \A cid : Excused(cid)' <=> Excused(cid)
  BY <1>3 DEF Excused
<1>5. \A n : AccountsOf(job, n)' = AccountsOf(job, n)
  BY <1>1
<1>6. Identified'
  BY <1>1, <1>3, <1>5 DEF Identified, Checking
<1>7. Midway'
  <2> SUFFICES ASSUME pc = "run"
               PROVE  /\ step \in {"probe", "inject"} => FirstStep(Check, Item) = step
                      /\ step = "inject" /\ Item.path = "/api/products/search" /\ "sqli" \notin LostIn =>
                           \A p \in 1..tries : p \notin Breaking
                      /\ step = "read" => Excused("bola") \/ note["vulnerable"] # NoNote
                      /\ step = "confirm" => Fresh \in DOMAIN users'["vulnerable"] /\ users'["vulnerable"][Fresh].admin
                      /\ step = "alg_none" => /\ Check = "jwt" /\ JwtToken # NoToken
                                               /\ <<"jwt", "POST", LoginPath>> \in Fingerprints(local)
    BY <1>1, <1>2, <1>3, <1>4 DEF Midway
  <2> QED BY DEF Midway
<1>8. ASSUME NEW s \in Slots, NEW cid, Settled(s, cid) PROVE Settled(s, cid)'
  BY <1>1, <1>4, <1>8 DEF Settled, Checking
<1>9. \A s \in Slots' : Settled(s, job.check_ids[s])'
  <2>1. \A s \in Slots : Settled(s, job.check_ids[s])
    BY DEF Swept
  <2> QED BY <1>1, <1>2, <1>8, <2>1
<1>10. Excused(Check)' <=> Excused(Check)
  BY <1>2, <1>4
<1>11. Swept'
  BY <1>1, <1>2, <1>9, <1>10 DEF Swept
<1> QED BY <1>6, <1>7, <1>11

\* Nobody asks for the random name of the mass assignment probe.
LEMMA FreshUnasked ==
  ASSUME BenchCore, Sweeping, [BenchNext]_bench
  PROVE  \A b \in Builds : \A c \in Clients : calls'[b][c] # Fresh
<1>1. /\ AppTypeOK /\ Scanner \in Clients /\ Fresh \in Accounts \ Names /\ Fresh # NoCall
      /\ \A b \in Builds : \A c \in Clients : calls[b][c] # Fresh
  BY BenchAssumption, AppAssumption DEF BenchCore, AppInv, Sweeping
<1>2. ASSUME NEW b \in Builds, NEW c \in Clients, NEW n \in Accounts, n # Fresh, RegisterTest(b, c, n)
      PROVE  \A a \in Builds : \A d \in Clients : calls'[a][d] # Fresh
  <2>1. /\ calls'[b][c] = n /\ \A d \in Clients \ {c} : calls'[b][d] = calls[b][d]
        /\ \A a \in Builds \ {b} : calls'[a] = calls[a]
    <3>1. calls \in [Builds -> [Clients -> Accounts \cup {NoCall}]] /\ calls' = [calls EXCEPT ![b][c] = n]
      BY <1>1, <1>2 DEF RegisterTest, AppTypeOK
    <3> QED BY <3>1
  <2> QED BY <1>1, <1>2, <2>1
<1>3. ASSUME NEW b \in Builds, NEW c \in Clients, RegisterInsert(b, c, FALSE)
      PROVE  \A a \in Builds : \A d \in Clients : calls'[a][d] # Fresh
  <2>1. /\ calls'[b][c] = NoCall /\ \A d \in Clients \ {c} : calls'[b][d] = calls[b][d]
        /\ \A a \in Builds \ {b} : calls'[a] = calls[a]
    BY ZenonT(40), <1>1, <1>3, InsertIs
  <2> QED BY <1>1, <2>1
<1>4. CASE calls' = calls
  BY <1>1, <1>4
<1>5. CASE Scan
  <2>1. Build \in Builds
    BY <1>5, Running
  <2>2. CASE UNCHANGED app \/ RegisterFresh(Build, Scanner, Fresh, TRUE)
             \/ \E as \in Accounts \cup {Nobody, Forged} : CreateNote(Build, as)
    <3>1. calls' = calls
      BY <2>2 DEF app, RegisterFresh, CreateNote
    <3> QED BY <1>4, <3>1
  <2>3. CASE RegisterInsert(Build, Scanner, FALSE)
    BY <1>1, <1>3, <2>1, <2>3
  <2> QED BY <1>5, <2>2, <2>3, ScanEffect
<1>6. CASE Receive
  <2>1. /\ stage \in {"first", "safe"} /\ Authenticating /\ RegisterTest(Build, Scanner, Account.name)
    BY <1>6 DEF Receive, Registering
  <2>2. exit # "1" /\ Build \in Builds
    BY <2>1 DEF BenchCore, Course, Build, Builds
  <2>3. Account.name \in Accounts /\ Account.name # Fresh
    <3>1. Account.name \in Names
      BY <2>1, AccountTyped DEF BenchCore, ScanInv, EInv, AuthSpec
    <3> QED BY <1>1, <2>1, <2>2, <3>1, AccountNow
  <2> QED BY <1>1, <1>2, <2>1, <2>2, <2>3
<1>7. ASSUME NEW c \in Clients, VisitorTest(c)
      PROVE  \A a \in Builds : \A d \in Clients : calls'[a][d] # Fresh
  <2>1. Build \in Builds /\ \E n \in Accounts \ {Fresh} : RegisterTest(Build, c, n)
    BY <1>7 DEF VisitorTest, Build, Builds
  <2> QED BY <1>2, <2>1
<1>8. ASSUME NEW c \in Clients, NEW b \in Builds, VisitorInsert(c, b)
      PROVE  \A a \in Builds : \A d \in Clients : calls'[a][d] # Fresh
  BY <1>3, <1>8 DEF VisitorInsert
<1>9. CASE Unscored \/ Load \/ Raised \/ Score \/ ScoreSafe \/ Exit \/ UNCHANGED bench
  <2>1. calls' = calls
    BY <1>9 DEF Unscored, Load, Raised, Score, ScoreSafe, Exit, bench, app
  <2> QED BY <1>4, <2>1
<1> QED BY <1>5, <1>6, <1>7, <1>8, <1>9 DEF BenchNext, EvalStep, Finished

\* The first scan sweeps, whatever is lost and whoever registers meanwhile.
LEMMA NextSweeping ==
  ASSUME BenchCore, Sweeping, [BenchNext]_bench
  PROVE  Sweeping'
<1>1. \A b \in Builds : \A c \in Clients : calls'[b][c] # Fresh
  BY FreshUnasked
<1> SUFFICES ASSUME stage' = "first" PROVE Identified' /\ Midway' /\ Swept'
  BY <1>1 DEF Sweeping
<1>2. CASE Scan
  <2>1. stage = "first" /\ Ready
    BY <1>2 DEF Scan, eval, Ready
  <2> QED BY <1>2, <2>1, ScanIdentified, ScanSweeps DEF Ready, Sweeping
<1>3. CASE Load
  <2>1. Init /\ UNCHANGED <<vars, note>> /\ users' = users
    BY <1>3 DEF Load, app, BenchCore, Course
  <2> QED BY <2>1, InitSweeps, StillSweeps
<1>4. ASSUME NEW b \in Builds, NEW c \in Clients, VisitorInsert(c, b) PROVE Identified' /\ Midway' /\ Swept'
  <2>1. stage = "first" /\ UNCHANGED vars /\ RegisterInsert(b, c, FALSE) /\ AppTypeOK /\ calls[b][c] # Fresh
    BY <1>4 DEF VisitorInsert, eval, BenchCore, AppInv, Sweeping
  <2>2. /\ note' = note /\ DOMAIN users'[b] = DOMAIN users[b] \cup {calls[b][c]}
        /\ \A m \in DOMAIN users[b] \ {calls[b][c]} : users'[b][m] = users[b][m]
        /\ \A a \in Builds \ {b} : users'[a] = users[a]
    BY ZenonT(40), <2>1, InsertIs
  <2>3. "vulnerable" \in Builds
    BY DEF Builds
  <2>4. Fresh \in DOMAIN users["vulnerable"] =>
          Fresh \in DOMAIN users'["vulnerable"] /\ users'["vulnerable"][Fresh] = users["vulnerable"][Fresh]
    BY <2>1, <2>2, <2>3
  <2> QED BY <2>1, <2>2, <2>4, StillSweeps DEF Sweeping
<1>5. CASE Receive \/ (\E c \in Clients : VisitorTest(c)) \/ UNCHANGED bench
  <2>1. stage = "first" /\ UNCHANGED <<vars, note>> /\ users' = users
    BY <1>5 DEF Receive, VisitorTest, RegisterTest, eval, bench, app
  <2> QED BY <2>1, StillSweeps DEF Sweeping
<1>6. CASE Unscored \/ Raised \/ Score \/ ScoreSafe \/ Exit
  BY <1>6 DEF Unscored, Raised, Score, ScoreSafe, Exit
<1> QED BY <1>2, <1>3, <1>4, <1>5, <1>6 DEF BenchNext, EvalStep, Finished

------------------------------------------------------------------------------
\* What the score makes of it.

\* A bug is the check's that shows it.
LEMMA ShownHas ==
  ASSUME NEW cid, NEW x, NEW k \in ShownBy(cid, x)
  PROVE  k[1] = cid
<1>1. PICK m, p : k = <<cid, m, p>>
  BY DEF ShownBy
<1> QED BY <1>1

\* What the first scan returns: each bug the suite looks at, or an excuse, and nothing
\* that is no bug of the target.
LEMMA WhatIsFound ==
  ASSUME BenchCore, Sweeping, stage = "first", pc = "done"
  PROVE  /\ \A k \in Shown(job) : Excused(k[1]) \/ k \in Fingerprints(report)
         /\ Fingerprints(report) \subseteq Shown(job)
<1>1. Swept /\ ReportExact /\ ChecksInOrder
  BY AtFirst DEF Sweeping, ScanInv, Deduped
<1>2. Fingerprints(report) = Fingerprints(findings)
  BY <1>1 DEF ReportExact, FirstOfEach, Fingerprints
<1>3. ASSUME NEW k \in Shown(job) PROVE Excused(k[1]) \/ k \in Fingerprints(report)
  <2>1. PICK cid \in CheckIds \cap {job.check_ids[s] : s \in 1..Len(job.check_ids)} :
          \E x \in ItemsOf(job, cid) : k \in ShownBy(cid, x)
    BY DEF Shown
  <2>2. PICK x \in ItemsOf(job, cid) : k \in ShownBy(cid, x)
    BY <2>1
  <2>3. PICK s \in Slots : cid = job.check_ids[s]
    BY <2>1 DEF Slots
  <2>4. k[1] = cid
    BY <2>2, ShownHas
  <2>5. Settled(s, cid) /\ status[s] # "pending"
    BY <1>1, <2>3 DEF Swept, ChecksInOrder
  <2>6. Excused(cid) \/ k \in Fingerprints(findings)
    BY <2>2, <2>5 DEF Settled, Checking
  <2> QED BY <1>2, <2>4, <2>6
<1> QED BY <1>1, <1>2, <1>3 DEF Swept

\* The score of the first scan is explained (evaluate, lines 86-101).
LEMMA ScoreStep ==
  ASSUME BenchCore, Sweeping, Score
  PROVE  ScoreExplained'
<1>1. /\ stage = "first" /\ pc = "done" /\ suite' = suite
      /\ result' = [matched |-> Expected \cap Fingerprints(report), missed |-> Expected \ Fingerprints(report),
                    unexpected |-> Fingerprints(report) \ Expected, safe_fp |-> 0]
      /\ first' = [lost |-> LostIn, seen |-> SeenIn, denied |-> LoginDenied, endpoints |-> Offered]
  BY DEF Score
<1>2. suite \in Suites /\ job = suite.job
  BY <1>1, AtFirst
<1>3. Expected \subseteq Shown(job) /\ Shown(job) \subseteq {Key(r) : r \in suite.expected}
  BY <1>2, RowsAssumption DEF Expected
<1>4. /\ \A k \in Shown(job) : Excused(k[1]) \/ k \in Fingerprints(report)
      /\ Fingerprints(report) \subseteq Shown(job)
  BY <1>1, WhatIsFound
<1>5. /\ result'.missed = Expected \ Fingerprints(report)
      /\ result'.unexpected = Fingerprints(report) \ Expected
      /\ first'.lost = LostIn /\ (first'.denied <=> LoginDenied)
  BY <1>1
<1>6. ASSUME NEW k \in result'.missed
      PROVE  k[1] \in first'.lost \/ (k[1] \in {"bola", "jwt"} /\ first'.denied)
  <2>1. Excused(k[1])
    BY <1>3, <1>4, <1>5
  <2> QED BY <1>5, <2>1 DEF Excused
<1>7. result'.unexpected \subseteq {Key(r) : r \in suite'.expected}
  BY <1>1, <1>3, <1>4, <1>5
<1> QED BY <1>6, <1>7 DEF ScoreExplained

\* No other step touches what explains the score.
LEMMA StillExplained ==
  ASSUME BenchCore, Sweeping, ScoreExplained, [BenchNext]_bench
  PROVE  ScoreExplained'
<1>1. CASE Score
  BY <1>1, ScoreStep
<1>2. CASE UNCHANGED <<suite, first, result>>
  BY <1>2 DEF ScoreExplained
<1>3. CASE ScoreSafe
  <2>1. /\ result \in [matched : SUBSET KeySet, missed : SUBSET KeySet,
                       unexpected : SUBSET KeySet, safe_fp : Nat]
        /\ result' = [result EXCEPT !.safe_fp = Len(report)] /\ UNCHANGED <<suite, first>>
    BY <1>3 DEF ScoreSafe, BenchCore, BenchTypeOK
  <2>2. result'.missed = result.missed /\ result'.unexpected = result.unexpected
    BY <2>1
  <2> QED BY <2>1, <2>2 DEF ScoreExplained
<1>4. CASE Unscored \/ Load \/ Receive \/ Scan \/ Raised \/ Exit \/ UNCHANGED bench
           \/ \E c \in Clients : VisitorTest(c) \/ \E b \in Builds : VisitorInsert(c, b)
  <2>1. UNCHANGED <<suite, first, result>>
    BY <1>4 DEF Unscored, Load, Receive, Scan, Raised, Exit, bench, eval, VisitorTest, VisitorInsert
  <2> QED BY <1>2, <2>1
<1> QED BY <1>1, <1>3, <1>4 DEF BenchNext, EvalStep, Finished

\* Nothing is scored, asked or swept at first.
LEMMA InitSweeping == BenchInit => Sweeping /\ ScoreExplained
<1> SUFFICES ASSUME BenchInit PROVE Sweeping /\ ScoreExplained
  OBVIOUS
<1>1. stage = "load" /\ result = NoResult
  BY DEF BenchInit
<1>2. calls = [b \in Builds |-> [c \in Clients |-> NoCall]]
  BY DEF BenchInit, AppInit
<1>3. Fresh # NoCall
  BY BenchAssumption, AppAssumption
<1>4. Sweeping
  BY <1>1, <1>2, <1>3 DEF Sweeping
<1>5. ScoreExplained
  BY <1>1 DEF ScoreExplained, NoResult
<1> QED BY <1>4, <1>5

\* Every state of an evaluation is one of a sweep.
LEMMA SpecSweeping == BenchSpec => [](BenchCore /\ Sweeping /\ ScoreExplained)
<1>1. BenchInit => BenchCore /\ Sweeping /\ ScoreExplained
  BY InitCore, InitSweeping
<1>2. BenchCore /\ Sweeping /\ ScoreExplained /\ [BenchNext]_bench => (BenchCore /\ Sweeping /\ ScoreExplained)'
  BY NextCore, NextSweeping, StillExplained
<1> QED BY <1>1, <1>2, PTL DEF BenchSpec

------------------------------------------------------------------------------
\* The theorems about an evaluation.

\* Both scans crawl one document, less the same paths.
LEMMA CoreIsEnough == BenchCore /\ Sweeping => BenchInv
<1> SUFFICES ASSUME BenchCore, Sweeping PROVE BenchInv
  OBVIOUS
<1>1. ControlIsComplete
  <2> SUFFICES ASSUME exit = "0", suite.safe_target, NeedsSpec, Crawls(suite.job)
               PROVE  Offered = first.endpoints
    BY DEF ControlIsComplete
  <2>1. Controlled /\ pc = "done" /\ job = SafeJob(suite) /\ suite \in Suites
    BY DEF Controlled, BenchCore, Course, BenchTypeOK
  <2>2. job.openapi = suite.job.openapi /\ job.exclude = suite.job.exclude
    BY <2>1, TwoJobs
  <2>3. Offered = AllOf(job, Len(job.openapi.paths))
    BY <2>1 DEF BenchCore, AllCrawled
  <2>4. first.endpoints = AllOf(suite.job, Len(suite.job.openapi.paths))
    BY <2>1 DEF BenchCore, AllCrawled
  <2> QED BY <2>2, <2>3, <2>4 DEF AllOf
<1> QED BY <1>1 DEF BenchCore, BenchInv, AppInv

\* What an evaluation keeps, for every suite like that of the demo target, every
\* answer lost and every visitor: its two scans keep what a scan keeps, the table
\* of users gives no name away twice, an account of the suite is refused only when
\* a visitor has its name, and the false-positive control sees the endpoints the
\* first scan saw (harness.py, app.py:232-256).
THEOREM BenchKept == BenchSpec => []BenchInv
BY SpecSweeping, CoreIsEnough, PTL

\* The hardened build is silent in every scan of it, whatever is lost and whoever
\* registers meanwhile, so a false positive of the score is never a race of the
\* target (app.py with SAFE, harness.py:105-117).
THEOREM SafeTargetIsSilent == BenchSpec => []SafeIsSilent
<1>1. BenchCore => SafeIsSilent
  <2> SUFFICES ASSUME BenchCore PROVE SafeIsSilent
    OBVIOUS
  <2>1. stage = "safe" => hits = <<>>
    BY DEF BenchCore, Silent, Controlled
  <2>2. result.safe_fp = 0
    BY DEF BenchCore, Explained
  <2> QED BY <2>1, <2>2 DEF SafeIsSilent
<1> QED BY <1>1, BenchSpecCore, PTL

\* Exit status 0 with full recall is evidence, for every suite: each required row
\* was seen on the wire of the first scan or read off a token, and nothing on the
\* wire of the second (eval_cmd, harness.py:86-117).
THEOREM GreenIsSeen == BenchSpec => []GreenMeansSeen
<1>1. BenchCore => GreenMeansSeen
  <2> SUFFICES ASSUME BenchCore, exit = "0", MinRecall = 100
               PROVE  /\ \A k \in Expected : k[3] = LoginPath \/ k[1] \in first.seen
                      /\ suite.safe_target => SeenIn = {}
    BY DEF GreenMeansSeen
  <2>1. /\ suite \in Suites /\ result.matched \cup result.missed = Expected /\ ~LowRecall
        /\ \A k \in result.matched : k[3] = LoginPath \/ k[1] \in first.seen
    BY DEF BenchCore, BenchTypeOK, Explained
  <2>2. IsFiniteSet(result.matched) /\ IsFiniteSet(result.missed)
    <3>1. IsFiniteSet(Expected) /\ result.matched \subseteq Expected /\ result.missed \subseteq Expected
      BY <2>1, RowsFinite
    <3> QED BY <3>1, FS_Subset
  <2> DEFINE m == Cardinality(result.matched)
             n == Cardinality(result.missed)
  <2>3. m \in Nat /\ n \in Nat
    BY <2>2, FS_CardinalityType
  <2>4. ~(m * 100 < 100 * (m + n))
    BY <2>1 DEF LowRecall
  <2>5. n = 0
    <3> HIDE DEF m, n
    <3> QED BY <2>3, <2>4
  <2>6. result.missed = {}
    BY <2>2, <2>5, FS_EmptySet
  <2>7. suite.safe_target => SeenIn = {}
    BY DEF BenchCore, Silent, Controlled
  <2> QED BY <2>1, <2>6, <2>7
<1> QED BY <1>1, BenchSpecCore, PTL

\* The score has an explanation, for every suite written for its target: a planted bug
\* is missed only when an answer of its own check was lost, or an account of the suite
\* could not log in and the check needs one; what is found beside the expected rows is a
\* row the suite does not require (evaluate, harness.py:86-101).
THEOREM MissesAreExplained == BenchSpec => []ScoreExplained
BY SpecSweeping, PTL
==============================================================================
