--------------------------- MODULE ContactMechanic ---------------------------
(***************************************************************************)
(* contact_mechanic of the crAPI target (services/workshop/crapi/merchant) *)
(* and the receive_report handler it calls, which the same gunicorn worker *)
(* serves: one queue, a fixed number of threads, and an inner request that *)
(* needs a second thread while the first waits for it without a timeout.   *)
(* The identity service, which says whether a token is good, is asked      *)
(* without one either.                                                     *)
(***************************************************************************)
EXTENDS Integers, Sequences, FiniteSets

CONSTANTS
  Calls,       \* the POST requests of the clients
  ask,         \* what each of them asks
  Threads,     \* gunicorn --threads
  MaxRepeats   \* the largest number_of_repeats that is accepted: 100

(* to: the server mechanic_api leads to, this one, another one or none that *)
(* requests can parse.  known: its mechanic code and VIN are in the tables. *)
Asking == [repeat : BOOLEAN, repeats : Int, to : {"own", "elsewhere", "malformed"},
           known : BOOLEAN]

ASSUME ContactAssumption ==
  /\ ask \in [Calls -> Asking]
  /\ Threads \in Nat \ {0} /\ MaxRepeats \in Nat

VARIABLES
  pc,       \* where the call is
  count,    \* repeat_count
  queue,    \* requests that wait for a thread
  running,  \* requests that have one
  reply,    \* what became of the request to mechanic_api
  filed,    \* the service requests created for the call
  sent,     \* history: requests to mechanic_api
  missed    \* history: service requests whose handler's 200 did not arrive

contact == <<pc, count, queue, running, reply, filed, sent, missed>>

(* a request; and a receive_report that has its row and has still to answer *)
Job == {"contact", "report", "answer"} \X Calls
Replies == {"ok", "not_ok", "no_connection", "raises"}
Ended == {"refused", "ok", "not_ok", "no_connection"}

ContactTypes ==
  /\ pc \in [Calls -> {"idle", "queued", "auth", "start", "loop", "waiting"} \cup Ended]
  /\ count \in [Calls -> Nat]
  /\ queue \in Seq(Job) /\ running \subseteq Job /\ Cardinality(running) <= Threads
  /\ reply \in [Calls -> {"none"} \cup Replies]
  /\ {filed, sent, missed} \subseteq [Calls -> Nat]

ContactInit ==
  /\ pc = [c \in Calls |-> "idle"] /\ count = [c \in Calls |-> 0]
  /\ queue = <<>> /\ running = {}
  /\ reply = [c \in Calls |-> "none"]
  /\ filed = [c \in Calls |-> 0] /\ sent = filed /\ missed = filed

Goto(c, p) == pc' = [pc EXCEPT ![c] = p]
\* mutant: a refusal keeps the thread
End_Leaks(c, p) ==
  Goto(c, p) /\ running' = IF p = "refused" THEN running ELSE running \ {<<"contact", c>>}
\* the handler returns and frees its thread
End(c, p) == Goto(c, p) /\ running' = running \ {<<"contact", c>>}

Call(c) ==
  /\ pc[c] = "idle" /\ Goto(c, "queued")
  /\ queue' = Append(queue, <<"contact", c>>)
  /\ UNCHANGED <<count, running, reply, filed, sent, missed>>

\* a free thread takes the oldest request
Take ==
  /\ queue # <<>> /\ Cardinality(running) < Threads
  /\ LET job == Head(queue) IN
     /\ queue' = Tail(queue) /\ running' = running \cup {job}
     /\ IF job[1] = "contact" THEN Goto(job[2], "auth") ELSE UNCHANGED pc
  /\ UNCHANGED <<count, reply, filed, sent, missed>>

\* jwt_auth_required: the identity service answers what it likes, when it likes
Authenticate(c) ==
  /\ pc[c] = "auth"
  /\ End(c, "refused") \/ (Goto(c, "start") /\ UNCHANGED running)
  /\ UNCHANGED <<count, queue, reply, filed, sent, missed>>

\* the serializer, and the bounds on number_of_repeats
Start(c) ==
  /\ pc[c] = "start"
  /\ \/ End(c, "refused")
     \/ IF ask[c].repeat /\ ask[c].repeats \notin 1..MaxRepeats THEN End(c, "refused")
        ELSE Goto(c, "loop") /\ UNCHANGED running
  /\ UNCHANGED <<count, queue, reply, filed, sent, missed>>

\* requests.get(mechanic_api), without a timeout
Send(c) ==
  /\ pc[c] = "loop"
  /\ IF ask[c].to = "malformed" THEN End(c, "not_ok") /\ UNCHANGED <<queue, reply, sent>>
     ELSE /\ Goto(c, "waiting") /\ UNCHANGED running
          /\ sent' = [sent EXCEPT ![c] = @ + 1]
          /\ \/ reply' = [reply EXCEPT ![c] = "no_connection"] /\ UNCHANGED queue
             \/ /\ queue' = IF ask[c].to = "own" THEN Append(queue, <<"report", c>>) ELSE queue
                /\ UNCHANGED reply
  /\ UNCHANGED <<count, filed, missed>>

\* mutant: the row is created before the mechanic is looked up
ReceiveReport_First(c) ==
  /\ <<"report", c>> \in running
  /\ filed' = [filed EXCEPT ![c] = @ + 1]
  /\ IF ask[c].known
     THEN running' = (running \ {<<"report", c>>}) \cup {<<"answer", c>>} /\ UNCHANGED reply
     ELSE /\ running' = running \ {<<"report", c>>}
          /\ \E r \in {"not_ok", "no_connection"} : reply' = [reply EXCEPT ![c] = r]
  /\ UNCHANGED <<pc, count, queue, sent, missed>>
\* ReceiveReportView.get: the row of a known mechanic and vehicle, or an error
\* that leaves none
ReceiveReport(c) ==
  /\ <<"report", c>> \in running
  /\ \/ /\ running' = running \ {<<"report", c>>}
        /\ \E r \in {"not_ok", "no_connection"} : reply' = [reply EXCEPT ![c] = r]
        /\ UNCHANGED filed
     \/ /\ ask[c].known
        /\ running' = (running \ {<<"report", c>>}) \cup {<<"answer", c>>}
        /\ filed' = [filed EXCEPT ![c] = @ + 1]
        /\ UNCHANGED reply
  /\ UNCHANGED <<pc, count, queue, sent, missed>>

\* the row is saved again and the link built, which may raise, and the answer of
\* either kind may get lost; the row stays
AnswerReport(c) ==
  /\ <<"answer", c>> \in running
  /\ running' = running \ {<<"answer", c>>}
  /\ \E r \in {"ok", "not_ok", "no_connection"} :
       /\ reply' = [reply EXCEPT ![c] = r]
       /\ missed' = [missed EXCEPT ![c] = IF r = "ok" THEN @ ELSE @ + 1]
  /\ UNCHANGED <<pc, count, queue, filed, sent>>

\* another server answers what it likes, when it likes
Elsewhere(c) ==
  /\ pc[c] = "waiting" /\ ask[c].to = "elsewhere" /\ reply[c] = "none"
  /\ \E r \in Replies : reply' = [reply EXCEPT ![c] = r]
  /\ UNCHANGED <<pc, count, queue, running, filed, sent, missed>>

\* the loop: any status but 200 and a lost connection are tried again, until
\* repeat_count has reached number_of_repeats; another exception of requests ends it
Loop(c) ==
  /\ pc[c] = "waiting" /\ reply[c] # "none"
  /\ reply' = [reply EXCEPT ![c] = "none"]
  /\ IF reply[c] \in {"not_ok", "no_connection"} /\ ask[c].repeat /\ count[c] # ask[c].repeats
     THEN /\ Goto(c, "loop") /\ count' = [count EXCEPT ![c] = @ + 1]
          /\ UNCHANGED running
     ELSE End(c, IF reply[c] = "raises" THEN "not_ok" ELSE reply[c]) /\ UNCHANGED count
  /\ UNCHANGED <<queue, filed, sent, missed>>

Steps(c) == Start(c) \/ Send(c) \/ ReceiveReport(c) \/ AnswerReport(c) \/ Loop(c)
ContactNext == Take \/ \E c \in Calls : Call(c) \/ Authenticate(c) \/ Elsewhere(c) \/ Steps(c)

ContactSpec == ContactInit /\ [][ContactNext]_contact

\* The threads run and the server serves its own queue; that the identity service
\* or another server answers, or a client calls, is assumed of nobody.
Fairness == WF_contact(Take) /\ \A c \in Calls : WF_contact(Steps(c))
ContactFair == ContactSpec /\ Fairness

------------------------------------------------------------------------------
Arrived(c) == pc[c] # "idle"
Done(c) == pc[c] \in Ended

\* A call that repeats makes at most one request more than number_of_repeats, and
\* none when that is out of bounds; one that does not repeats nothing, whatever
\* the mechanic's server answers.
AttemptsBounded ==
  \A c \in Calls : sent[c] <= IF ~ask[c].repeat THEN 1
                             ELSE IF ask[c].repeats \in 1..MaxRepeats THEN ask[c].repeats + 1
                             ELSE 0

\* A problem is filed once more only for a row whose 200 did not arrive, lost or
\* turned into an error after the row was there: a call has one service request at
\* most beyond those, exactly one when the own server told it so, and none when it
\* was told an error of any kind (ContactMechanicView.post, ReceiveReportView.get).
FiledOncePerAnswer ==
  \A c \in Calls :
    /\ filed[c] <= missed[c] + 1
    /\ pc[c] = "ok" /\ ask[c].to = "own" => filed[c] = missed[c] + 1
    /\ pc[c] \in {"refused", "not_ok", "no_connection"} => filed[c] = missed[c]

\* What a call keeps, whatever is lost and whoever answers: its requests are
\* bounded, and each answer that does not arrive files the same problem at most
\* once more.
ContactInv == ContactTypes /\ AttemptsBounded /\ FiledOncePerAnswer

\* The call waits for a server that is not this one.
WaitsOutside(c) ==
  \/ pc[c] = "auth"
  \/ pc[c] = "waiting" /\ ask[c].to = "elsewhere" /\ reply[c] = "none"

\* Every thread is held by a call that waits for a request to this server which no
\* thread can take.
Starved ==
  /\ Cardinality(running) = Threads
  /\ \A job \in running :
       job[1] = "contact" /\ \E k \in DOMAIN queue : queue[k] = <<"report", job[2]>>

\* When no call waits for the identity service or another server for ever, every
\* call ends, unless every thread is held by a call that waits for this server:
\* then nothing in this code wakes any of them.
EveryCallEnds ==
  (\A d \in Calls : []<>~WaitsOutside(d)) =>
    \A c \in Calls : Arrived(c) ~> (Done(c) \/ Starved)
==============================================================================
