-------------------------- MODULE HttpClient_proofs --------------------------
(***************************************************************************)
(* HttpClient: for every scope, interval, clock and number of requests,    *)
(* what leaves the box passed the gate, and it leaves at the limited rate. *)
(***************************************************************************)
EXTENDS HttpClient, TLAPS

\* One more interval between the stamps is one more interval in the sum
\* (the arithmetic of _throttle's spacing).
LEMMA OneMoreInterval ==
  ASSUME NEW m \in Int, NEW I \in Int
  PROVE  (m + 1) * I = m * I + I
  OBVIOUS

\* The number of intervals between two packets is never negative.
LEMMA IntervalsNat ==
  ASSUME NEW m \in Nat, NEW I \in Nat
  PROVE  m * I \in Nat
  OBVIOUS

\* An appended packet is the last one and moves no other (wire in Depart).
LEMMA AppendWire ==
  ASSUME NEW S, NEW s \in Seq(S), NEW e \in S
  PROVE  /\ Append(s, e) \in Seq(S)
         /\ Len(Append(s, e)) = Len(s) + 1
         /\ \A i \in 1..Len(s) : Append(s, e)[i] = s[i]
         /\ Append(s, e)[Len(s) + 1] = e
         /\ Len(s) \in Nat
  OBVIOUS

\* Every client begins with the invariant (HttpClient.__init__).
LEMMA InitIInv == Init => IInv
  <1> SUFFICES ASSUME Init PROVE IInv
    OBVIOUS
  <1>1. Len(wire) = 0 /\ now \in Nat
    BY ClientAssumption DEF Init
  <1>2. TypeOK
    BY <1>1 DEF Init, TypeOK, Results
  <1>3. QED
    BY <1>1, <1>2 DEF Init, IInv, GatePassed, WireDiscipline, LimiterOK, StampsOK,
                      StampsFollowDepartures, StampedFollows

\* Every step keeps it: one case per action of the client.
LEMMA NextIInv == IInv /\ [Next]_vars => IInv'
  <1> SUFFICES ASSUME IInv, [Next]_vars PROVE IInv'
    OBVIOUS
  <1> USE ClientAssumption
  <1>t. TypeOK
    BY DEF IInv
  <1>w. wire \in Seq(Sent) /\ Len(wire) \in Nat
    BY <1>t DEF TypeOK
  <1>e. \A i \in 1..Len(wire) : wire[i] \in Sent /\ wire[i].at \in Nat /\ wire[i].stamp \in Nat
    <2>1. \A i \in 1..Len(wire) : wire[i] \in Sent
      BY <1>w
    <2>2. QED
      BY <2>1 DEF Sent
  <1>1. ASSUME NEW method \in Methods, NEW url \in Url, Refuse(method, url)
        PROVE  IInv'
    BY <1>1 DEF Refuse, IInv, TypeOK, Results, GatePassed, WireDiscipline, LimiterOK,
                StampsOK, StampsFollowDepartures, StampedFollows
  <1>2. ASSUME NEW method \in Methods, NEW url \in Url, Request_(method, url)
        PROVE  IInv'
    <2> USE <1>2 DEF Request_
    <2>1. req' \in Request /\ url.host \in Allow /\ (Upper[method] \in Destructive => Unsafe)
      BY ScopeAssumption DEF Request, Url, InScope, Blocked, check, hostname
    <2>2. WakeAt \in Nat /\ WakeAt >= last + Interval /\ WakeAt <= now + Interval
      BY DEF WakeAt, IInv, TypeOK, LimiterOK
    <2>3. TypeOK'
      BY <2>1, <2>2 DEF IInv, TypeOK, Results
    <2>4. (GatePassed /\ LimiterOK)'
      BY <2>1, <2>2 DEF IInv, GatePassed, LimiterOK
    <2>5. QED
      BY <2>3, <2>4 DEF IInv, WireDiscipline, StampsOK, StampsFollowDepartures, StampedFollows
  <1>3. CASE Stamp
    <2> USE <1>3 DEF Stamp
    <2>0. pc = "asleep" /\ pc' = "stamped" /\ last' = now /\ wire' = wire /\ now' = now
      OBVIOUS
    <2>1. last + Interval <= now /\ last <= now /\ now \in Nat /\ last \in Nat /\ wake \in Nat
      BY DEF IInv, TypeOK, LimiterOK
    <2>2. TypeOK' /\ GatePassed' /\ WireDiscipline' /\ LimiterOK'
      BY <2>1 DEF IInv, TypeOK, Results, GatePassed, WireDiscipline, LimiterOK
    <2>3. StampsOK'
      BY <2>0, <2>1, <1>e DEF IInv, StampsOK
    <2>4. StampsFollowDepartures'
      BY DEF IInv, StampsFollowDepartures
    <2>5. ASSUME NEW i \in 1..Len(wire)
          PROVE  now >= wire[i].at + (Len(wire) - i) * Interval
      <3> DEFINE k == Len(wire)
      <3>1. CASE i = k
        BY <3>1, <1>e, <1>w DEF IInv, StampsOK
      <3>2. CASE i # k
        <4>1. i \in Nat /\ k \in Nat /\ i < k /\ k - i - 1 \in Int
          BY <3>2, <1>w
        <4>2. wire[k].stamp >= wire[i].at + (k - i - 1) * Interval /\ wire[k].stamp <= last
          BY <4>1 DEF IInv, StampsFollowDepartures, StampsOK
        <4>3. (k - i) * Interval = (k - i - 1) * Interval + Interval
          BY <4>1, OneMoreInterval, k - i = (k - i - 1) + 1
        <4>4. (k - i - 1) * Interval \in Int /\ wire[k].stamp \in Nat /\ wire[i].at \in Nat
          BY <4>1, <1>e
        <4>5. QED
          BY <4>2, <4>3, <4>4, <2>1
      <3>3. QED
        BY <3>1, <3>2
    <2>6. StampedFollows'
      BY <2>0, <2>5 DEF StampedFollows
    <2>7. QED
      BY <2>2, <2>3, <2>4, <2>6 DEF IInv
  <1>4. CASE Depart
    <2> USE <1>4 DEF Depart
    <2> DEFINE e == [method |-> req.method, host |-> req.host, stamp |-> last, at |-> now]
               k == Len(wire)
    <2>0. pc = "stamped" /\ pc' = "in_flight" /\ wire' = Append(wire, e) /\ last' = last
          /\ now' = now /\ req' = req /\ wake' = wake /\ result' = result
      OBVIOUS
    <2>1. req \in Request /\ e \in Sent /\ last <= now /\ last \in Nat /\ now \in Nat
      BY DEF IInv, TypeOK, LimiterOK, Request, Sent
    <2>2. /\ wire' \in Seq(Sent) /\ Len(wire') = k + 1 /\ wire'[k + 1] = e
          /\ \A i \in 1..k : wire'[i] = wire[i]
      BY <2>0, <2>1, <1>w, AppendWire
    <2> HIDE DEF e
    <2>3. e.stamp = last /\ e.at = now /\ e.host = req.host /\ e.method = req.method
      BY DEF e
    <2>4. \A i \in 1..Len(wire') : i \in 1..k \/ i = k + 1
      BY <2>2, <1>w
    <2>5. TypeOK' /\ GatePassed' /\ LimiterOK' /\ StampedFollows'
      BY <2>0, <2>2 DEF IInv, TypeOK, Results, GatePassed, LimiterOK, StampedFollows
    <2>6. WireDiscipline'
      BY <2>0, <2>2, <2>3, <2>4 DEF IInv, GatePassed, WireDiscipline
    <2>7. StampsOK'
      BY <2>0, <2>1, <2>2, <2>3, <2>4 DEF IInv, StampsOK
    <2>8. StampsFollowDepartures'
      <3> SUFFICES ASSUME NEW i \in 1..Len(wire'), NEW j \in 1..Len(wire'), i < j
                   PROVE  wire'[j].stamp >= wire'[i].at + (j - i - 1) * Interval
        BY DEF StampsFollowDepartures
      <3>1. i \in 1..k
        BY <2>2, <1>w
      <3>2. CASE j \in 1..k
        BY <3>1, <3>2, <2>2 DEF IInv, StampsFollowDepartures
      <3>3. CASE j = k + 1
        <4>1. wire'[j].stamp = last /\ wire'[i].at = wire[i].at
          BY <3>1, <3>3, <2>2, <2>3
        <4>2. j - i - 1 = k - i
          BY <3>1, <3>3, <1>w
        <4>3. QED
          BY <4>1, <4>2, <3>1, <2>0 DEF IInv, StampedFollows
      <3>4. QED
        BY <3>2, <3>3, <2>4
    <2>9. QED
      BY <2>5, <2>6, <2>7, <2>8 DEF IInv
  <1>5. CASE ConnectFails
    BY <1>5 DEF ConnectFails, IInv, TypeOK, Results, GatePassed, WireDiscipline, LimiterOK,
                StampsOK, StampsFollowDepartures, StampedFollows
  <1>6. CASE Answer
    BY <1>6 DEF Answer, IInv, TypeOK, Results, GatePassed, WireDiscipline, LimiterOK,
                StampsOK, StampsFollowDepartures, StampedFollows
  <1>7. CASE Tick
    <2> USE <1>7 DEF Tick
    <2>0. now' = now + 1 /\ now \in Nat /\ last \in Nat /\ wake \in Nat
      BY DEF IInv, TypeOK
    <2>1. TypeOK' /\ GatePassed' /\ WireDiscipline' /\ LimiterOK'
      BY <2>0 DEF IInv, TypeOK, GatePassed, WireDiscipline, LimiterOK
    <2>2. StampsOK' /\ StampsFollowDepartures' /\ StampedFollows'
      BY <2>0, <1>e DEF IInv, StampsOK, StampsFollowDepartures, StampedFollows
    <2>3. QED
      BY <2>1, <2>2 DEF IInv
  <1>8. CASE UNCHANGED vars
    BY <1>8 DEF vars, IInv, TypeOK, GatePassed, WireDiscipline, LimiterOK,
                StampsOK, StampsFollowDepartures, StampedFollows
  <1>9. QED
    BY <1>1, <1>2, <1>3, <1>4, <1>5, <1>6, <1>7, <1>8 DEF Next

\* The invariant holds of every run of every client.
THEOREM Invariance == Spec => []IInv
  <1>1. QED
    BY InitIInv, NextIInv, PTL DEF Spec

\* Type correctness of the client's state.
THEOREM TypeCorrect == Spec => []TypeOK
  <1>1. IInv => TypeOK
    BY DEF IInv
  <1>2. QED
    BY <1>1, Invariance, PTL

\* Whatever the checks, hints and targets are, no packet leaves the scope and
\* none is destructive without --unsafe (HttpClient.request).
THEOREM WireIsDisciplined == Spec => []WireDiscipline
  <1>1. IInv => WireDiscipline
    BY DEF IInv
  <1>2. QED
    BY <1>1, Invariance, PTL

\* For every interval and every delay between stamp and departure, j - i packets
\* in a row take j - i - 1 intervals (HttpClient._throttle).
THEOREM RateIsLimited == Spec => []DepartureRate
  <1>1. IInv => DepartureRate
    <2> SUFFICES ASSUME IInv, NEW i \in 1..Len(wire), NEW j \in 1..Len(wire), i < j
                 PROVE  wire[j].at >= wire[i].at + (j - i - 1) * Interval
      BY DEF DepartureRate
    <2>1. wire[i] \in Sent /\ wire[j] \in Sent
      BY DEF IInv, TypeOK
    <2>2. wire[i].at \in Nat /\ wire[j].at \in Nat /\ wire[j].stamp \in Nat
      BY <2>1 DEF Sent
    <2>3. (j - i - 1) * Interval \in Nat
      <3>1. j - i - 1 \in Nat
        BY DEF IInv, TypeOK
      <3>2. QED
        BY <3>1, IntervalsNat, ClientAssumption
    <2>4. wire[j].stamp >= wire[i].at + (j - i - 1) * Interval /\ wire[j].stamp <= wire[j].at
      BY DEF IInv, StampsFollowDepartures, StampsOK
    <2>5. QED
      BY <2>2, <2>3, <2>4
  <1>2. QED
    BY <1>1, Invariance, PTL

\* No call sleeps longer than one interval in the limiter (HttpClient._throttle).
THEOREM WaitIsBounded == Spec => []AdmittedWithinInterval
  <1>1. IInv => AdmittedWithinInterval
    BY DEF IInv, LimiterOK, AdmittedWithinInterval
  <1>2. QED
    BY <1>1, Invariance, PTL
==============================================================================
