-------------------------------- MODULE Replay --------------------------------
(***************************************************************************)
(* heimdall replay on the report of a scan (replay in src/heimdall/cli.py, *)
(* Check.replay and the oracles): the first evidence request of every      *)
(* finding is sent again and judged again, by another command, with flags  *)
(* of its own, against a target that may have changed since.  The report   *)
(* keeps of a request what evidence_from keeps: no credential header.      *)
(***************************************************************************)
EXTENDS ScanEngine

CONSTANT ReplayFlags   \* the command lines to look at

RFlags == [unsafe : BOOLEAN, allow_public : BOOLEAN, scope_hosts : SUBSET Hosts]

ASSUME ReplayAssumption == ReplayFlags \subseteq RFlags

VARIABLES
  flags,      \* --unsafe, --i-understand, --scope of heimdall replay
  phase,      \* waiting for the report, validate, replaying, or how it ended
  changed,    \* the target no longer answers as it did during the scan
  verdicts,   \* what is printed, one line per finding
  again       \* history: every exchange of the replay

rvars == <<flags, phase, changed, verdicts, again>>

Verdicts == {"CONFIRMED", "NOT REPRODUCED", "NO-ORACLE", "BLOCKED"}
RPhases == {"waiting", "validate", "replaying", "done", "ScopeError", "HTTPError"}
RMethods == Methods \cup {"-"}
Resent == [finding : Nat, host : Hosts, method : RMethods, resp : Responses,
           changed : BOOLEAN]

RTypeOK ==
  /\ flags \in ReplayFlags
  /\ phase \in RPhases
  /\ changed \in BOOLEAN
  /\ verdicts \in Seq(Verdicts)
  /\ again \in Seq(Resent)

RInit ==
  /\ Init
  /\ flags \in ReplayFlags
  /\ phase = "waiting" /\ changed = FALSE
  /\ verdicts = <<>> /\ again = <<>>

------------------------------------------------------------------------------
\* What the report says of a finding.

\* the evidence of a guessed secret is no request: "-" to the base URL
Offline(f) == f.evidence[1] = 0
Recorded(f) == wire[f.evidence[1]]
RequestMethod(f) == IF Offline(f) THEN "-" ELSE Recorded(f).method
RequestUrl(f) ==
  IF Offline(f) THEN job.target ELSE [schemed |-> TRUE, host |-> Recorded(f).host]

\* Finding.url: of an escalation, the url of its create
FindingUrl(f) ==
  IF f.check = "mass_assignment"
  THEN [schemed |-> TRUE, host |-> wire[f.evidence[2]].host] ELSE RequestUrl(f)

\* --scope adds a host as it is spelled
ReplayAllow ==
  from_targets({FindingUrl(report[i]) : i \in 1..Len(report)}) \cup flags.scope_hosts

\* evidence_from leaves no credential header in the report
Stripped(f) == ~Offline(f) /\ Recorded(f).as # Nobody

\* A target that did not change answers the request it was sent before as it did
\* then, if an answer comes at all.
Answers(f) ==
  IF changed \/ Offline(f) \/ Stripped(f) THEN Responses ELSE {"lost", Recorded(f).resp}

\* mutants: the recorded answer is judged; the status is
Judgements_Recorded(f, resp) ==
  IF ~Offline(f) /\ Fires(f.check, Recorded(f).resp) THEN {"CONFIRMED"} ELSE {"NO-ORACLE"}
Judgements_Status(f, resp) ==
  IF f.check \in {"jwt", "mass_assignment"} THEN {"NO-ORACLE"}
  ELSE IF resp = "hit" THEN {"CONFIRMED"} ELSE {"NOT REPRODUCED"}
\* What replay may say of this answer.  jwt and mass_assignment have no oracle
\* and raise NotImplementedError when the answer is there; the oracle of ssrf
\* does not know the match of the hint that may have made the finding.
Judgements(f, resp) ==
  IF f.check \in {"jwt", "mass_assignment"} THEN {"NO-ORACLE"}
  ELSE {v \in {"CONFIRMED", "NOT REPRODUCED"} :
          /\ v = "CONFIRMED" => Fires(f.check, resp)
          /\ v = "NOT REPRODUCED" => ~Fires(f.check, resp) \/ f.check = "ssrf"}

------------------------------------------------------------------------------
\* the target is fixed, restarted or cleaned up, at any time after the scan
TargetChanges ==
  /\ pc = "done" /\ phase \in {"waiting", "validate", "replaying"} /\ ~changed
  /\ changed' = TRUE
  /\ UNCHANGED <<vars, flags, phase, verdicts, again>>

LoadReport ==
  /\ pc = "done" /\ phase = "waiting"
  /\ phase' = "validate"
  /\ UNCHANGED <<vars, flags, changed, verdicts, again>>

\* mutant: the hosts of the report are taken for granted
ReplayValidate_Trusting ==
  /\ phase = "validate"
  /\ phase' = "replaying"
  /\ UNCHANGED <<vars, flags, changed, verdicts, again>>
ReplayValidate ==
  /\ phase = "validate"
  /\ phase' = IF validate(ReplayAllow, flags.allow_public) THEN "replaying" ELSE "ScopeError"
  /\ UNCHANGED <<vars, flags, changed, verdicts, again>>

Current == Len(verdicts) + 1
Replaying == phase = "replaying" /\ Current <= Len(report)
InReplayScope == check(ReplayAllow, RequestUrl(report[Current]))
Destroys == RequestMethod(report[Current]) \in Destructive

\* no except for ScopeError: the findings behind this one are not replayed
ReplayOutOfScope ==
  /\ Replaying /\ ~InReplayScope
  /\ phase' = "ScopeError"
  /\ UNCHANGED <<vars, flags, changed, verdicts, again>>

\* mutant: break, not continue
ReplayBlocked_Break ==
  /\ Replaying /\ InReplayScope /\ Destroys /\ ~flags.unsafe
  /\ phase' = "done"
  /\ verdicts' = Append(verdicts, "BLOCKED")
  /\ UNCHANGED <<vars, flags, changed, again>>
ReplayBlocked ==
  /\ Replaying /\ InReplayScope /\ Destroys /\ ~flags.unsafe
  /\ verdicts' = Append(verdicts, "BLOCKED")
  /\ UNCHANGED <<vars, flags, phase, changed, again>>

\* nor for httpx.HTTPError: a lost answer ends the command too
ReplayFinding ==
  /\ Replaying /\ InReplayScope /\ (Destroys => flags.unsafe)
  /\ LET f == report[Current] IN
       \E resp \in Answers(f) :
         /\ again' = Append(again, [finding |-> Current, host |-> RequestUrl(f).host,
                      method |-> RequestMethod(f), resp |-> resp, changed |-> changed])
         /\ IF resp = "lost"
            THEN phase' = "HTTPError" /\ UNCHANGED verdicts
            ELSE /\ \E v \in Judgements(f, resp) : verdicts' = Append(verdicts, v)
                 /\ UNCHANGED phase
  /\ UNCHANGED <<vars, flags, changed>>

Replayed ==
  /\ phase = "replaying" /\ Current > Len(report)
  /\ phase' = "done"
  /\ UNCHANGED <<vars, flags, changed, verdicts, again>>

RNext ==
  \/ Next /\ UNCHANGED rvars
  \/ TargetChanges
  \/ LoadReport \/ ReplayValidate
  \/ ReplayOutOfScope \/ ReplayBlocked \/ ReplayFinding \/ Replayed

RSpec == RInit /\ [][RNext]_<<vars, rvars>>

------------------------------------------------------------------------------
\* Whatever the report lists, a replay reaches no host that its scan was not
\* allowed to reach and --scope does not name, no public one without its own
\* --i-understand, and nothing destructive without its own --unsafe.
ReplayGuarded ==
  \A k \in 1..Len(again) :
    /\ again[k].host \in Allow \cup flags.scope_hosts
    /\ again[k].host \in Private \/ flags.allow_public
    /\ again[k].method \in Destructive => flags.unsafe

\* CONFIRMED is said of a finding only when the oracle that found it accepts an
\* answer that came during the replay (Check.replay).
ConfirmedAnew ==
  \A i \in 1..Len(verdicts) :
    verdicts[i] = "CONFIRMED" =>
      \E k \in 1..Len(again) :
        /\ again[k].finding = i /\ Fires(report[i].check, again[k].resp)
        /\ again[k].method = Recorded(report[i]).method

\* NOT REPRODUCED is said of a target that did not change only when the report
\* could not say how the finding was made: its credentials are gone, or ssrf
\* found it by the match of a hint.
QuietMeansChanged ==
  \A k \in 1..Len(again) : LET i == again[k].finding IN
    /\ ~again[k].changed
    /\ i <= Len(verdicts) /\ verdicts[i] = "NOT REPRODUCED"
    => Stripped(report[i]) \/ report[i].check = "ssrf"

\* A replay that ends normally has a verdict for every finding of the report and
\* has sent one request for each of those it did not call BLOCKED, in order.
EveryFindingOnce ==
  phase = "done" =>
    /\ Len(verdicts) = Len(report)
    /\ \A i \in 1..Len(report) :
         verdicts[i] # "BLOCKED" <=> \E k \in 1..Len(again) : again[k].finding = i
    /\ \A j, k \in 1..Len(again) : j < k => again[j].finding < again[k].finding

------------------------------------------------------------------------------
\* the replay begins when the scan has ended, and its scope is validated before
\* anything is sent
ReplayOpened ==
  /\ phase # "waiting" => pc = "done"
  /\ phase = "replaying" => validate(ReplayAllow, flags.allow_public)

\* the findings are replayed in their order, and the last exchange may be one
\* whose answer was lost
InOrder ==
  /\ phase \in {"waiting", "validate"} => verdicts = <<>> /\ again = <<>>
  /\ Len(verdicts) <= Len(report)
  /\ phase = "done" => Len(verdicts) = Len(report)
  /\ \A k \in 1..Len(again) :
       again[k].finding \in 1..(Len(verdicts) + (IF phase = "HTTPError" THEN 1 ELSE 0))
  /\ \A j, k \in 1..Len(again) : j < k => again[j].finding < again[k].finding
  /\ \A i \in 1..Len(verdicts) :
       verdicts[i] # "BLOCKED" <=> \E k \in 1..Len(again) : again[k].finding = i

\* a verdict is one on the answer that came, to the request that was recorded
Judged ==
  \A k \in 1..Len(again) : LET x == again[k]  f == report[x.finding] IN
    x.finding <= Len(verdicts) =>
      /\ verdicts[x.finding] \in Judgements(f, x.resp)
      /\ x.method = RequestMethod(f)
      /\ x.changed \/ Offline(f) \/ Stripped(f) \/ x.resp = Recorded(f).resp

\* What a step of a scan and its replay keeps (engine.scan, then replay).
RInv == EInv /\ RTypeOK /\ ReplayOpened /\ ReplayGuarded /\ InOrder /\ Judged
==============================================================================
