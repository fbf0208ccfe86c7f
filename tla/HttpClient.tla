------------------------------ MODULE HttpClient ------------------------------
(***************************************************************************)
(* One HttpClient of src/heimdall/http_client.py: the gate every request   *)
(* passes (scope, destructive methods), the rate limiter, and the exchange *)
(* itself.  A call is several steps, because time passes inside it: the    *)
(* limiter sleeps, and the packet leaves some time after the limiter took  *)
(* its timestamp.  The clock is a natural number of ticks.                 *)
(***************************************************************************)
EXTENDS Scope, Integers, Sequences

CONSTANTS
  Allow,         \* scope.allow_hosts of this client
  Unsafe,        \* the unsafe flag
  Interval,      \* _min_interval in ticks; 0 when rate_limit_per_sec is 0
  Methods,       \* spellings of a method a check, a hint or a report passes
  Upper,         \* str.upper on those spellings
  NoRequest,     \* no call is in progress
  Boot,          \* time.monotonic() is at most Boot when the client is built
  MaxNow,        \* bound: the last instant a run looks at
  MaxSends       \* bound: requests one client sends

Request == [method : Methods, host : Hosts]

ASSUME ClientAssumption ==
  /\ Allow \subseteq Hosts
  /\ Unsafe \in BOOLEAN
  /\ Interval \in Nat
  /\ Upper \in [Methods -> Methods]
  /\ NoRequest \notin Request
  /\ Boot \in Nat /\ MaxNow \in Nat /\ MaxSends \in Nat

VARIABLES
  now,     \* time.monotonic()
  last,    \* self._last
  pc,      \* where the call in progress is: idle, asleep, stamped, in_flight
  req,     \* the request in progress
  wake,    \* when its time.sleep ends
  wire,    \* every request that left, in order, with the instant it left
  result   \* how the latest call ended

vars == <<now, last, pc, req, wake, wire, result>>

Destructive == {"DELETE", "PUT", "PATCH"}
Sent == [method : Methods, host : Hosts, stamp : Nat, at : Nat]
Results == {"none", "ScopeError", "PermissionError", "response", "HTTPError"}

TypeOK ==
  /\ now \in Nat /\ last \in Nat /\ wake \in Nat
  /\ pc \in {"idle", "asleep", "stamped", "in_flight"}
  /\ req \in Request \cup {NoRequest}
  /\ req = NoRequest <=> pc = "idle"
  /\ wire \in Seq(Sent)
  /\ result \in Results

Init ==
  /\ now \in 0..Boot
  /\ last = 0
  /\ pc = "idle"
  /\ req = NoRequest
  /\ wake = 0
  /\ wire = <<>>
  /\ result = "none"

------------------------------------------------------------------------------
\* The gate: scope first, then the upper-cased method.
InScope(url) == check(Allow, url)
\* mutant: the method is compared as it was spelled
Blocked_AsSpelled(method) == method \in Destructive /\ ~Unsafe
Blocked(method) == Upper[method] \in Destructive /\ ~Unsafe

\* _throttle: when the sleep that starts now is over
WakeAt == IF Interval > 0 /\ last + Interval > now THEN last + Interval ELSE now

\* request raises before anything is sent and before the limiter is touched
Refuse(method, url) ==
  /\ pc = "idle"
  /\ \/ ~InScope(url) /\ result' = "ScopeError"
     \/ InScope(url) /\ Blocked(method) /\ result' = "PermissionError"
  /\ UNCHANGED <<now, last, pc, req, wake, wire>>

\* request passes the gate and falls asleep in _throttle
Request_(method, url) ==
  /\ pc = "idle"
  /\ Len(wire) < MaxSends /\ now + Interval <= MaxNow
  /\ InScope(url) /\ ~Blocked(method)
  /\ pc' = "asleep"
  /\ req' = [method |-> Upper[method], host |-> url.host]
  /\ wake' = WakeAt
  /\ UNCHANGED <<now, last, wire, result>>

\* the sleep is over: self._last = time.monotonic()
\* mutant: the limiter keeps its first timestamp
Stamp_NoUpdate ==
  /\ pc = "asleep" /\ now >= wake
  /\ pc' = "stamped"
  /\ UNCHANGED <<now, last, req, wake, wire, result>>
Stamp ==
  /\ pc = "asleep" /\ now >= wake
  /\ pc' = "stamped"
  /\ last' = now
  /\ UNCHANGED <<now, req, wake, wire, result>>

\* the packet leaves the box
Depart ==
  /\ pc = "stamped"
  /\ pc' = "in_flight"
  /\ wire' = Append(wire, [method |-> req.method, host |-> req.host,
                           stamp |-> last, at |-> now])
  /\ UNCHANGED <<now, last, req, wake, result>>

\* no connection: the packet never left
ConnectFails ==
  /\ pc = "stamped"
  /\ pc' = "idle" /\ req' = NoRequest /\ result' = "HTTPError"
  /\ UNCHANGED <<now, last, wake, wire>>

\* the exchange ends: a response of any status, or an httpx.HTTPError.  A 3xx
\* is a response like any other: no caller passes follow_redirects
Answer ==
  /\ pc = "in_flight"
  /\ pc' = "idle" /\ req' = NoRequest
  /\ result' \in {"response", "HTTPError"}
  /\ UNCHANGED <<now, last, wake, wire>>

Tick ==
  /\ now < MaxNow
  /\ now' = now + 1
  /\ UNCHANGED <<last, pc, req, wake, wire, result>>

Next ==
  \/ \E method \in Methods, url \in Url : Refuse(method, url)
  \/ \E method \in Methods, url \in Url : Request_(method, url)
  \/ Stamp
  \/ Depart
  \/ ConnectFails
  \/ Answer
  \/ Tick

\* mutant: httpx.Client(timeout=None)
Fairness_NoTimeout ==
  WF_vars(Tick) /\ WF_vars(Stamp) /\ WF_vars(Depart \/ ConnectFails)
\* Nothing in the client waits for another thread, the operating system runs
\* it and its clock, and httpx gives every network operation a timeout.
Fairness ==
  /\ WF_vars(Tick)
  /\ WF_vars(Stamp)
  /\ WF_vars(Depart \/ ConnectFails)
  /\ WF_vars(Answer)

Spec == Init /\ [][Next]_vars
FairSpec == Spec /\ Fairness

------------------------------------------------------------------------------
\* Every packet that leaves goes to a host of the scope, and none carries a
\* destructive method without --unsafe, however the method was spelled and
\* whatever a target answers (HttpClient.request, lines 77-82).
WireDiscipline ==
  \A i \in 1..Len(wire) :
    /\ wire[i].host \in Allow
    /\ wire[i].method \in Destructive => Unsafe

\* The rate limit as a target sees it.  The limiter spaces its timestamps, not
\* the packets: two neighbours may leave back to back when the first was slow
\* to leave, but any j - i packets in a row take (j - i - 1) intervals.
DepartureRate ==
  \A i, j \in 1..Len(wire) :
    i < j => wire[j].at >= wire[i].at + (j - i - 1) * Interval

\* The limiter never makes a call wait longer than one interval, however the
\* calls before it were refused, slow or failed (_throttle, line 62).
AdmittedWithinInterval == pc = "asleep" => wake <= now + Interval

\* A call that passed the gate comes back to its caller.
EveryCallReturns == (pc = "asleep") ~> (pc = "idle")
------------------------------------------------------------------------------
\* The parts of the inductive invariant.

\* the request in progress passed the gate
GatePassed ==
  pc # "idle" => /\ req.host \in Allow
                 /\ req.method \in Destructive => Unsafe

\* the limiter's timestamp is in the past, and a sleeper sleeps out the
\* interval that began with it
LimiterOK ==
  /\ last <= now
  /\ pc = "asleep" => wake >= last + Interval /\ wake <= now + Interval

\* every packet was stamped before it left, and not after the latest stamp
StampsOK ==
  \A i \in 1..Len(wire) :
    /\ wire[i].stamp <= last
    /\ wire[i].stamp <= wire[i].at
    /\ wire[i].at <= now

\* a packet is stamped (j - i - 1) intervals after an earlier one left: the one
\* behind that was stamped when it had left already
StampsFollowDepartures ==
  \A i, j \in 1..Len(wire) :
    i < j => wire[j].stamp >= wire[i].at + (j - i - 1) * Interval

\* the same of the request that is stamped and has not left
StampedFollows ==
  pc = "stamped" =>
    \A i \in 1..Len(wire) : last >= wire[i].at + (Len(wire) - i) * Interval

\* Everything the client keeps true of its limiter and its wire at every step:
\* what leaves passed the gate, no call sleeps longer than one interval, and
\* the limiter's timestamps follow the departures; the rate and the discipline
\* follow from it (request and _throttle).
IInv ==
  /\ TypeOK
  /\ GatePassed /\ WireDiscipline
  /\ LimiterOK /\ StampsOK /\ StampsFollowDepartures /\ StampedFollows
==============================================================================
