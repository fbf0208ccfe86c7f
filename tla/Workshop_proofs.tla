--------------------------- MODULE Workshop_proofs ---------------------------
(***************************************************************************)
(* Of the workshop, for every set and number of its constants: what sign-  *)
(* ups, status requests and reports keep when handlers overlap or break    *)
(* off (Mechanic); how often a call of contact_mechanic sends, and what it *)
(* files (ContactMechanic); and that however often the container starts,   *)
(* nothing is seeded twice, and what an undisturbed start completes        *)
(* (Seed).                                                                 *)
(***************************************************************************)
EXTENDS Mechanic, ContactMechanic, Seed, FiniteSetTheorems, WellFoundedInduction, TLAPS

\* The fields of a request.
LEMMA AskFields ==
  ASSUME NEW asked \in Requests
  PROVE  /\ asked.op \in {"sign_up", "comment", "status", "receive", "report"}
         /\ asked # NoRequest
         /\ asked.op = "sign_up" => asked.email \in Emails /\ asked.code \in Codes
         /\ asked.op \in {"comment", "status"} => asked.row \in Nat
         /\ asked.op = "status" => asked.to \in Statuses
         /\ asked.op = "report" => asked.report \in ReportIds
<1>1. asked \in Request /\ asked # NoRequest
  BY MechanicAssumption
<1> QED BY <1>1 DEF Request

\* The parts of what a handler holds.
LEMMA HandlingFields ==
  ASSUME TypeOK, NEW r \in Ids
  PROVE  /\ req[r] \in Handling /\ req[r].ask \in Requests \cup {NoRequest}
         /\ req[r].pc \in {"idle"} \cup Busy \cup Over
         /\ req[r].number \in Nat /\ req[r].held \in Statuses
         /\ req[r].listed \in SUBSET ReportIds /\ req[r].oldest \in ReportIds \cup {NoReport}
         /\ req[r].age \in Nat /\ req[r].before \in SUBSET Ids /\ req[r].error \in BOOLEAN
  BY DEF TypeOK, Handling

\* What comes after the largest is larger than all.
LEMMA NextIsLarger ==
  ASSUME NEW S \in SUBSET Nat, NEW n \in Next1(S)
  PROVE  n \in Nat \ {0} /\ \A m \in S : m < n
<1>1. \A m \in S : m < n
  BY DEF Next1
<1>2. n = 1 \/ \E m \in S : n = m + 1
  BY DEF Next1
<1>3. n \in Nat \ {0}
  BY <1>2
<1> QED BY <1>1, <1>3

------------------------------------------------------------------------------
\* A statement of the handler of r, and the arrival of r: nobody else's changes.
Moves(r) ==
  /\ req[r].pc \in Busy /\ req'[r].pc \in Busy \cup Over
  /\ req'[r].ask = req[r].ask /\ req'[r].before = req[r].before
  /\ req[r].error => req'[r].error
  /\ \A s \in Ids \ {r} : req'[s] = req[s]
Arrives(r) ==
  /\ req[r].pc = "idle" /\ req'[r].ask \in Requests
  /\ req'[r].pc \in {req'[r].ask.op, "refused"} /\ req'[r].before = {s \in Ids : req[s].pc \in Over}
  /\ \A s \in Ids \ {r} : req'[s] = req[s]

\* A statement changes nothing of what was asked and who came after whom.
LEMMA MovesKeep ==
  ASSUME TypeOK, NEW r \in Ids, Moves(r), NEW s \in Ids
  PROVE  /\ req'[s].ask = req[s].ask /\ req'[s].before = req[s].before
         /\ \A op : Asked(s, op)' <=> Asked(s, op)
         /\ \A q : Precedes(q, s)' <=> Precedes(q, s)
         /\ req[s].pc \in Over => req'[s] = req[s]
<1>1. req'[s].ask = req[s].ask /\ req'[s].before = req[s].before
  BY DEF Moves
<1>2. req'[s].pc = "idle" <=> req[s].pc = "idle"
  BY DEF Moves, Busy, Over
<1>3. req[s].pc \in Over => req'[s] = req[s]
  BY DEF Moves, Busy, Over
<1> QED BY <1>1, <1>2, <1>3 DEF Asked, Precedes, Ask

\* Nobody came after a handler that is not over.
LEMMA NotYetBefore ==
  ASSUME TypeOK, Arrivals, NEW r \in Ids, req[r].pc \notin Over, NEW s \in Ids
  PROVE  ~Precedes(r, s)
  BY DEF Arrivals, Precedes

\* What was over on arrival is over, with every step.
LEMMA ArrivalsKept ==
  ASSUME TypeOK, Arrivals, NEW r \in Ids, Moves(r) \/ Arrives(r)
  PROVE  Arrivals'
<1> SUFFICES ASSUME NEW s \in Ids, NEW q \in req'[s].before
             PROVE  q \in Ids \ {s} /\ req'[q].pc \in Over
  BY DEF Arrivals
<1>1. CASE Moves(r)
  <2>1. q \in Ids \ {s} /\ req[q].pc \in Over
    BY <1>1, MovesKeep DEF Arrivals
  <2> QED BY <1>1, <2>1, MovesKeep
<1>2. CASE Arrives(r)
  <2>1. q \in Ids \ {s} /\ req[q].pc \in Over
    BY <1>2 DEF Arrives, Arrivals, Over
  <2>2. q # r
    BY <1>2, <2>1 DEF Arrives, Over
  <2> QED BY <1>2, <2>1, <2>2 DEF Arrives
<1> QED BY <1>1, <1>2

\* A statement that keeps the tables of each kind typed, and a handler that goes where
\* its request leads, keep the types and the course.
InCourse(h) ==
  LET p == h.pc IN
    /\ p = "idle" <=> h.ask = NoRequest
    /\ p \in {"sign_up", "next_id", "user", "mechanic", "next_details", "details"} =>
         h.ask.op = "sign_up"
    /\ p \in {"comment", "add"} => h.ask.op = "comment"
    /\ p = "status" => h.ask.op = "status"
    /\ p = "receive" => h.ask.op = "receive" /\ h.number = 0
    /\ p = "store" => h.ask.op \in {"comment", "status", "receive"}
    /\ p \in {"report", "write", "trim", "stat", "remove"} => h.ask.op = "report"
    /\ p \in {"user", "details"} => h.number # 0
    /\ p = "store" /\ h.ask.op = "status" => h.held = h.ask.to
    /\ p = "remove" => h.oldest \in ReportIds

\* The course of every handler, one at a time.
LEMMA CourseIs == Course <=> \A r \in Ids : InCourse(req[r])
  BY DEF Course, InCourse, Ask

\* The step of one handler keeps the course of all when it keeps its own.
LEMMA CourseKept ==
  ASSUME Course, NEW r \in Ids, \A s \in Ids \ {r} : req'[s] = req[s], InCourse(req'[r])
  PROVE  Course'
<1>1. \A s \in Ids : InCourse(req'[s])
  BY CourseIs
<1> QED BY <1>1 DEF Course, InCourse, Ask

\* A step by which the handler of r comes to hold x.
LEMMA BecomesIs ==
  ASSUME TypeOK, NEW r \in Ids, req[r].pc \in Busy, NEW x \in Handling,
         req' = [req EXCEPT ![r] = x], x.pc \in Busy \cup Over,
         x.ask = req[r].ask, x.before = req[r].before, req[r].error => x.error
  PROVE  Moves(r) /\ req' \in [Ids -> Handling] /\ req'[r] = x
<1>1. req \in [Ids -> Handling]
  BY DEF TypeOK
<1>2. req'[r] = x /\ (\A s \in Ids \ {r} : req'[s] = req[s]) /\ req' \in [Ids -> Handling]
  BY <1>1
<1> QED BY <1>2 DEF Moves

\* A statement that only moves its handler on.
LEMMA GoIs ==
  ASSUME TypeOK, NEW r \in Ids, req[r].pc \in Busy, NEW p \in Busy \cup Over, Go(r, p)
  PROVE  /\ Moves(r) /\ req' \in [Ids -> Handling] /\ req'[r].pc = p
         /\ req'[r].ask = req[r].ask /\ req'[r].number = req[r].number
         /\ req'[r].held = req[r].held /\ req'[r].listed = req[r].listed
         /\ req'[r].oldest = req[r].oldest /\ req'[r].age = req[r].age
<1> DEFINE x == [req[r] EXCEPT !.pc = p]
<1>1. req[r] \in Handling /\ req \in [Ids -> Handling]
  BY DEF TypeOK
<1>2. req' = [req EXCEPT ![r] = x]
  BY <1>1 DEF Go
<1>3. x \in Handling
  BY <1>1 DEF Handling
<1>4. /\ x.ask = req[r].ask /\ x.before = req[r].before /\ x.error = req[r].error
      /\ x.pc = p /\ x.number = req[r].number /\ x.held = req[r].held
      /\ x.listed = req[r].listed /\ x.oldest = req[r].oldest /\ x.age = req[r].age
  BY <1>1 DEF Handling
<1> HIDE DEF x
<1>5. Moves(r) /\ req' \in [Ids -> Handling] /\ req'[r] = x
  BY <1>2, <1>3, <1>4, BecomesIs
<1> QED BY <1>4, <1>5

------------------------------------------------------------------------------
\* Sign-ups.

\* Rows are never deleted, and ids stay the keys of users.
TablesGrow ==
  /\ \A e \in Emails : users[e] # 0 => users'[e] = users[e]
  /\ mechanics \subseteq mechanics' /\ details \subseteq details'
  /\ \A e, f \in Emails : users'[e] = users'[f] /\ users'[e] # 0 => e = f

\* What the step of r has to do with its own rows.
InsertsOwn(r) ==
  /\ Entered(r)' => users'[Ask(r).email] # 0 /\ (Entered(r) \/ users[Ask(r).email] = 0)
  /\ Coded(r)' => /\ <<Ask(r).code, Ask(r).email>> \in mechanics'
                  /\ Coded(r) \/ \A e \in Emails : <<Ask(r).code, e>> \notin mechanics
  /\ Answered(r, "sign_up")' => \E d \in details' : d[2] = Ask(r).email
  /\ Entered(r) => Entered(r)' \/ req'[r].pc = "failed"
  /\ \A e \in Emails : users[e] = 0 /\ users'[e] # 0 =>
       Asked(r, "sign_up") /\ Ask(r).email = e /\ Entered(r)'

Keyed == \A e, f \in Emails : users[e] = users[f] /\ users[e] # 0 => e = f
Told == \A r \in Ids : Answered(r, "sign_up") => \E d \in details : d[2] = Ask(r).email
SignUps == SigningUp /\ Keyed /\ Told

\* A sign-up has an address and a code.
LEMMA SignUpAsk ==
  ASSUME TypeOK, NEW r \in Ids, Asked(r, "sign_up"), Course
  PROVE  Ask(r).email \in Emails /\ Ask(r).code \in Codes
BY AskFields, HandlingFields DEF Asked, Ask, Course

\* What follows from where the sign-ups are.
LEMMA SignedUpFollows ==
  ASSUME TypeOK, Course, SignUps
  PROVE  SignedUp /\ HalfSignedUp
<1>1. ASSUME NEW r \in Ids, Answered(r, "sign_up") PROVE Entered(r) /\ Coded(r)
  BY <1>1 DEF Answered, Entered, Coded, Asked
<1>2. SignedUp
  BY <1>1 DEF SignedUp, SignUps, SigningUp, Keyed, Told
<1>3. ASSUME NEW e \in Emails \ Taken, users[e] # 0,
             ~(\E c \in Codes : <<c, e>> \in mechanics /\ \E d \in details : d[2] = e)
      PROVE  \E r \in Ids : Asked(r, "sign_up") /\ Ask(r).email = e /\ req[r].pc # "refused"
                              /\ req[r].pc # "answered"
  <2>1. PICK r \in Ids : Asked(r, "sign_up") /\ Ask(r).email = e
                           /\ (Entered(r) \/ req[r].pc = "failed")
    BY <1>3 DEF SignUps, SigningUp
  <2>2. req[r].pc # "refused"
    BY <2>1 DEF Entered
  <2>3. ASSUME req[r].pc = "answered" PROVE FALSE
    <3>1. Answered(r, "sign_up") /\ Coded(r)
      BY <2>1, <2>3 DEF Answered, Coded, Asked
    <3>2. Ask(r).code \in Codes
      BY <2>1, SignUpAsk
    <3>3. <<Ask(r).code, e>> \in mechanics
      BY <2>1, <3>1 DEF SignUps, SigningUp
    <3>4. \E d \in details : d[2] = e
      BY <2>1, <3>1 DEF SignUps, Told
    <3> QED BY <1>3, <3>2, <3>3, <3>4
  <2> QED BY <2>1, <2>2, <2>3
<1> QED BY <1>2, <1>3 DEF HalfSignedUp

\* A step that inserts only what its own sign-up may keeps the sign-ups.
LEMMA SignUpsKept ==
  ASSUME TypeOK, TypeOK', Course, Course', SignUps, NEW r \in Ids, Moves(r),
         TablesGrow, InsertsOwn(r)
  PROVE  SignUps'
<1>1. ASSUME NEW s \in Ids, s # r
      PROVE  (Entered(s)' <=> Entered(s)) /\ (Coded(s)' <=> Coded(s))
             /\ (Answered(s, "sign_up")' <=> Answered(s, "sign_up"))
             /\ (Asked(s, "sign_up")' <=> Asked(s, "sign_up")) /\ Ask(s)' = Ask(s) /\ req'[s] = req[s]
  BY <1>1 DEF Moves, Entered, Coded, Answered, Asked, Ask
<1>2. Ask(r)' = Ask(r) /\ (Asked(r, "sign_up")' <=> Asked(r, "sign_up"))
  BY MovesKeep DEF Ask
<1>3. ASSUME NEW s \in Ids, Entered(s)' PROVE users'[Ask(s)'.email] # 0
  <2>1. CASE s = r
    BY <1>2, <1>3, <2>1 DEF InsertsOwn
  <2>2. CASE s # r
    <3>1. Entered(s) /\ Ask(s).email \in Emails /\ Ask(s)' = Ask(s)
      BY <1>1, <1>3, <2>2, SignUpAsk DEF Entered
    <3> QED BY <3>1 DEF SignUps, SigningUp, TablesGrow
  <2> QED BY <2>1, <2>2
<1>4. ASSUME NEW s \in Ids, Coded(s)' PROVE <<Ask(s)'.code, Ask(s)'.email>> \in mechanics'
  <2>1. CASE s = r
    BY <1>2, <1>4, <2>1 DEF InsertsOwn
  <2>2. CASE s # r
    BY <1>1, <1>4, <2>2 DEF SignUps, SigningUp, TablesGrow
  <2> QED BY <2>1, <2>2
<1>5. ASSUME NEW s \in Ids, s # r, Entered(s)', Entered(r)' PROVE Ask(s).email # Ask(r).email
  <2>1. Entered(s)
    BY <1>1, <1>5
  <2>2. CASE Entered(r)
    BY <1>5, <2>1, <2>2 DEF SignUps, SigningUp
  <2>3. CASE users[Ask(r).email] = 0
    BY <2>1, <2>3 DEF SignUps, SigningUp
  <2> QED BY <1>5, <2>2, <2>3 DEF InsertsOwn
<1>6. ASSUME NEW s \in Ids, s # r, Coded(s)', Coded(r)' PROVE Ask(s).code # Ask(r).code
  <2>1. Coded(s) /\ Ask(s).email \in Emails
    BY <1>1, <1>6, SignUpAsk DEF Coded
  <2>2. CASE Coded(r)
    BY <1>6, <2>1, <2>2 DEF SignUps, SigningUp
  <2>3. CASE \A e \in Emails : <<Ask(r).code, e>> \notin mechanics
    BY <2>1, <2>3 DEF SignUps, SigningUp
  <2> QED BY <1>6, <2>2, <2>3 DEF InsertsOwn
<1>7. \A p, q \in Ids : p # q /\ Entered(p)' /\ Entered(q)' => Ask(p)'.email # Ask(q)'.email
  <2> SUFFICES ASSUME NEW p \in Ids, NEW q \in Ids, p # q, Entered(p)', Entered(q)'
               PROVE  Ask(p)'.email # Ask(q)'.email
    OBVIOUS
  <2>1. CASE p = r
    BY <1>1, <1>2, <1>5, <2>1
  <2>2. CASE q = r
    BY <1>1, <1>2, <1>5, <2>2
  <2>3. CASE p # r /\ q # r
    BY <1>1, <2>3 DEF SignUps, SigningUp
  <2> QED BY <2>1, <2>2, <2>3
<1>8. \A p, q \in Ids : p # q /\ Coded(p)' /\ Coded(q)' => Ask(p)'.code # Ask(q)'.code
  <2> SUFFICES ASSUME NEW p \in Ids, NEW q \in Ids, p # q, Coded(p)', Coded(q)'
               PROVE  Ask(p)'.code # Ask(q)'.code
    OBVIOUS
  <2>1. CASE p = r
    BY <1>1, <1>2, <1>6, <2>1
  <2>2. CASE q = r
    BY <1>1, <1>2, <1>6, <2>2
  <2>3. CASE p # r /\ q # r
    BY <1>1, <2>3 DEF SignUps, SigningUp
  <2> QED BY <2>1, <2>2, <2>3
<1>9. ASSUME NEW e \in Emails \ Taken, users'[e] # 0
      PROVE  \E q \in Ids : Asked(q, "sign_up")' /\ Ask(q)'.email = e
                              /\ (Entered(q)' \/ req'[q].pc = "failed")
  <2>1. CASE users[e] = 0
    BY <1>2, <1>9, <2>1 DEF InsertsOwn
  <2>2. CASE users[e] # 0
    <3>1. PICK q \in Ids : Asked(q, "sign_up") /\ Ask(q).email = e
                             /\ (Entered(q) \/ req[q].pc = "failed")
      BY <2>2 DEF SignUps, SigningUp
    <3>2. CASE q = r
      BY <1>2, <3>1, <3>2 DEF InsertsOwn, Moves, Busy
    <3>3. CASE q # r
      BY <1>1, <3>1, <3>3
    <3> QED BY <3>2, <3>3
  <2> QED BY <2>1, <2>2
<1>10. SigningUp'
  BY <1>3, <1>4, <1>7, <1>8, <1>9 DEF SigningUp
<1>11. ASSUME NEW s \in Ids, Answered(s, "sign_up")' PROVE \E d \in details' : d[2] = Ask(s)'.email
  <2>1. CASE s = r
    BY <1>2, <1>11, <2>1 DEF InsertsOwn
  <2>2. CASE s # r
    BY <1>1, <1>11, <2>2 DEF SignUps, Told, TablesGrow
  <2> QED BY <2>1, <2>2
<1>12. Keyed'
  BY DEF TablesGrow, Keyed
<1> QED BY <1>10, <1>11, <1>12 DEF SignUps, Told

\* A statement that inserts nothing and does not bring a sign-up past an insert.
LEMMA SignUpsStay ==
  ASSUME TypeOK, TypeOK', Course, Course', SignUps, NEW r \in Ids, Moves(r), UNCHANGED tables,
         \/ req'[r].pc = "failed" \/ req[r].ask.op # "sign_up"
         \/ req[r].pc \in {"sign_up", "next_id"} /\ req'[r].pc \in {"refused", "next_id", "user"}
         \/ req[r].pc = "next_details" /\ req'[r].pc = "details"
  PROVE  SignUps'
<1>1. TablesGrow
  BY DEF TablesGrow, tables, SignUps, Keyed
<1>2. Ask(r)' = Ask(r) /\ (Asked(r, "sign_up")' <=> Asked(r, "sign_up"))
  BY MovesKeep DEF Ask
<1>3. /\ Entered(r)' => Entered(r)
      /\ Coded(r)' => Coded(r)
      /\ Entered(r) => Entered(r)' \/ req'[r].pc = "failed"
      /\ ~Answered(r, "sign_up")'
  BY <1>2 DEF Entered, Coded, Answered, Asked, Ask
<1>4. InsertsOwn(r)
  BY <1>2, <1>3 DEF InsertsOwn, tables, SignUps, SigningUp
<1> QED BY <1>1, <1>4, SignUpsKept

------------------------------------------------------------------------------
\* Statuses.

Standing == StatusKept /\ StatusHeld /\ Filed

\* What the step of r has to do with the row it holds.
SavesOwn(r) ==
  /\ \A o \in Rows : status'[o] # status[o] =>
       \/ req[r].pc = "store" /\ o = Target(r) /\ req'[r].pc # "failed"
       \/ status[o] = Absent /\ status'[o] # Absent
  /\ req[r].pc = "store" /\ req'[r].pc # "failed" => status'[Target(r)] = req[r].held
  /\ Answered(r, "status")' => req[r].pc = "store"
  /\ req'[r].pc \in {"add", "store"} /\ Ask(r).op = "comment" =>
       \/ req[r].pc \in {"add", "store"} /\ req'[r].held = req[r].held
       \/ req[r].pc = "comment" /\ req'[r].held = status[Ask(r).row]
  /\ req'[r].pc \in {"add", "store"} => Exists(Target(r))'
  /\ Ask(r).op = "receive" => req'[r].number = req[r].number \/ req[r].number = 0

\* A request that stands stood before, unless it is the one that was just answered.
LEMMA StoodBefore ==
  ASSUME TypeOK, Filed, NEW r \in Ids, Moves(r), SavesOwn(r), NEW q \in Ids, Stands(q)', q # r
  PROVE  Stands(q)
<1>1. Answered(q, "status")
  BY DEF Moves, Stands, Answered, Ask
<1>2. \A s \in Ids : Ask(s)' = Ask(s) /\ (\A op : Asked(s, op)' <=> Asked(s, op))
                       /\ (\A p : Precedes(p, s)' <=> Precedes(p, s))
  BY MovesKeep DEF Ask
<1>3. Ask(q).row \in Nat \ {0}
  <2>1. Exists(Target(q)) /\ Target(q) = Ask(q).row
    BY <1>1 DEF Filed, Target, Answered
  <2> QED BY <2>1, MechanicAssumption DEF Exists
<1>4. ASSUME NEW s \in Ids, Asked(s, "receive"), req[s].number = Ask(q).row
      PROVE  Precedes(s, q)
  <2>1. req'[s].number = req[s].number
    <3>1. CASE s = r
      BY <1>3, <1>4, <3>1 DEF SavesOwn, Asked
    <3>2. CASE s # r
      BY <3>2 DEF Moves
    <3> QED BY <3>1, <3>2
  <2> QED BY <1>2, <1>4, <2>1 DEF Stands
<1> QED BY <1>1, <1>2, <1>4 DEF Stands

\* A step that saves only a row its own request holds keeps what stands.
LEMMA StandingKept ==
  ASSUME TypeOK, Course, Course', Arrivals, Standing, NEW r \in Ids, Moves(r), SavesOwn(r)
  PROVE  Standing'
<1>1. \A s \in Ids : Ask(s)' = Ask(s) /\ (\A op : Asked(s, op)' <=> Asked(s, op))
                       /\ (\A p : Precedes(p, s)' <=> Precedes(p, s))
  BY MovesKeep DEF Ask
<1>2. ASSUME NEW s \in Ids PROVE ~Precedes(r, s)
  BY NotYetBefore DEF Moves, Busy, Over
<1>3. ASSUME NEW q \in Ids, Stands(q)' PROVE status'[Ask(q).row] = Ask(q).to
  <2>1. CASE q = r
    <3>1. req[r].pc = "store" /\ Ask(r).op = "status" /\ req'[r].pc # "failed"
      BY <1>1, <1>3, <2>1 DEF Stands, Answered, SavesOwn
    <3>2. Target(r) = Ask(r).row
      BY <3>1 DEF Target
    <3> QED BY <2>1, <3>1, <3>2 DEF SavesOwn, Course
  <2>2. CASE q # r
    <3>1. Stands(q) /\ status[Ask(q).row] = Ask(q).to
      BY <1>3, <2>2, StoodBefore DEF Standing, StatusKept
    <3>2. Ask(q).row \in Rows /\ status[Ask(q).row] # Absent
      <4>1. Answered(q, "status")
        BY <3>1 DEF Stands
      <4>2. Exists(Target(q)) /\ Target(q) = Ask(q).row
        BY <4>1 DEF Standing, Filed, Target, Answered
      <4> QED BY <4>2 DEF Exists
    <3>3. CASE status'[Ask(q).row] = status[Ask(q).row]
      BY <3>1, <3>3
    <3>4. CASE status'[Ask(q).row] # status[Ask(q).row]
      <4>1. req[r].pc = "store" /\ Target(r) = Ask(q).row /\ req'[r].pc # "failed"
        BY <3>2, <3>4 DEF SavesOwn
      <4>2. ~(Asked(r, "status") /\ Ask(r).row = Ask(q).row)
        BY <1>2, <2>2, <3>1 DEF Stands
      <4>3. ~(Asked(r, "receive") /\ req[r].number = Ask(q).row)
        BY <1>2, <3>1 DEF Stands
      <4>4. Ask(r).op = "comment" /\ Ask(r).row = Ask(q).row
        BY <4>1, <4>2, <4>3 DEF Asked, Course, Target
      <4>5. req[r].held = Ask(q).to
        BY <3>1, <4>1, <4>4 DEF Standing, StatusHeld
      <4> QED BY <4>1, <4>5 DEF SavesOwn
    <3> QED BY <3>3, <3>4
  <2> QED BY <2>1, <2>2
<1>4. ASSUME NEW q \in Ids, NEW s \in Ids, Stands(q)', req'[s].pc \in {"add", "store"},
             Ask(s).op = "comment", Ask(s).row = Ask(q).row
      PROVE  req'[s].held = Ask(q).to
  <2>1. CASE q = r
    <3>1. s # r
      BY <1>4, <2>1 DEF Stands, Answered
    <3>2. req'[s] = req[s] /\ req[s].pc \notin Over /\ Asked(s, "comment")
      BY <1>4, <3>1 DEF Moves, Asked, Ask, Over
    <3>3. Precedes(s, r) \/ Precedes(r, s)
      BY <1>1, <1>4, <2>1, <3>2 DEF Stands
    <3> QED BY <1>2, <3>2, <3>3, NotYetBefore
  <2>2. CASE q # r
    <3>1. Stands(q) /\ status[Ask(q).row] = Ask(q).to
      BY <1>4, <2>2, StoodBefore DEF Standing, StatusKept
    <3>2. CASE s # r
      BY <1>4, <3>1, <3>2 DEF Moves, Standing, StatusHeld
    <3>3. CASE s = r /\ req[r].pc \in {"add", "store"} /\ req'[r].held = req[r].held
      BY <1>4, <3>1, <3>3 DEF Standing, StatusHeld
    <3>4. CASE s = r /\ req'[r].held = status[Ask(r).row]
      BY <1>4, <3>1, <3>4
    <3> QED BY <1>4, <3>2, <3>3, <3>4 DEF SavesOwn
  <2> QED BY <2>1, <2>2
<1>5. StatusKept'
  BY <1>1, <1>3 DEF StatusKept
<1>6. StatusHeld'
  BY <1>1, <1>4 DEF StatusHeld
<1>7. ASSUME NEW o, Exists(o) PROVE Exists(o)'
  <2>1. o \in Rows /\ status[o] # Absent
    BY <1>7 DEF Exists
  <2>2. CASE status'[o] = status[o]
    BY <2>1, <2>2 DEF Exists
  <2>3. CASE status'[o] # status[o]
    <3>1. status'[o] = req[r].held
      BY <2>1, <2>3 DEF SavesOwn
    <3>2. req[r].held # Absent
      BY HandlingFields DEF Statuses, Absent
    <3> QED BY <2>1, <3>1, <3>2 DEF Exists
  <2> QED BY <2>2, <2>3
<1>8. Filed'
  <2> SUFFICES ASSUME NEW q \in Ids, req'[q].pc \in {"add", "store"} \/ Answered(q, "status")'
               PROVE  Exists(Target(q))'
    BY DEF Filed
  <2>1. CASE q # r
    <3>1. req'[q] = req[q] /\ Target(q)' = Target(q)
      BY <2>1 DEF Moves, Target, Ask
    <3>2. Exists(Target(q))
      BY <3>1 DEF Standing, Filed, Answered, Ask
    <3> QED BY <1>7, <3>1, <3>2 DEF Exists
  <2>2. CASE q = r /\ req'[r].pc \in {"add", "store"}
    BY <2>2 DEF SavesOwn
  <2>3. CASE q = r /\ Answered(r, "status")'
    <3>1. req[r].pc = "store" /\ Ask(r)' = Ask(r) /\ Ask(r).op = "status"
      BY <1>1, <2>3 DEF SavesOwn, Answered
    <3>2. Target(r)' = Target(r)
      BY <3>1 DEF Target
    <3>3. Exists(Target(r))
      BY <3>1 DEF Standing, Filed
    <3> QED BY <1>7, <2>3, <3>2, <3>3 DEF Exists
  <2> QED BY <2>1, <2>2, <2>3
<1> QED BY <1>5, <1>6, <1>8 DEF Standing

\* A statement of another kind of request.
LEMMA StandingStays ==
  ASSUME TypeOK, Course, Course', Arrivals, Standing, NEW r \in Ids, Moves(r), UNCHANGED status,
         req'[r].pc = "failed" \/ req[r].ask.op \notin {"comment", "status", "receive"},
         req[r].ask.op = "receive" => req'[r].number = req[r].number
  PROVE  Standing'
<1>1. Ask(r)' = Ask(r)
  BY MovesKeep DEF Ask
<1>2. req[r].pc = "store" => Ask(r).op \in {"comment", "status", "receive"}
  BY DEF Course
<1>3. req'[r].pc \in {"add", "store"} => Ask(r).op \in {"comment", "status", "receive"}
  BY <1>1 DEF Course
<1>4. SavesOwn(r)
  BY <1>1, <1>2, <1>3 DEF SavesOwn, Answered, Ask
<1> QED BY <1>4, StandingKept

------------------------------------------------------------------------------
\* Reports.

Kept == Choosing /\ Aging /\ Tidy

\* One element more, or less, counts for one at most.
LEMMA OneMoreOrLess ==
  ASSUME NEW S, IsFiniteSet(S), NEW x
  PROVE  /\ Cardinality(S \cup {x}) \in Nat /\ Cardinality(S \cup {x}) <= Cardinality(S) + 1
         /\ x \in S => Cardinality(S \ {x}) = Cardinality(S) - 1
<1>1. Cardinality(S) \in Nat
  BY FS_CardinalityType
<1>2. Cardinality(S \cup {x}) = IF x \in S THEN Cardinality(S) ELSE Cardinality(S) + 1
  BY FS_AddElement
<1>3. Cardinality(S \ {x}) = IF x \in S THEN Cardinality(S) - 1 ELSE Cardinality(S)
  BY FS_RemoveElement
<1> QED BY <1>1, <1>2, <1>3

\* There are finitely many files.
LEMMA FilesFinite ==
  ASSUME TypeOK
  PROVE  IsFiniteSet(Files) /\ Cardinality(Files) \in Nat /\ FilesLimit \in Nat \ {0}
<1>1. Files \in SUBSET ReportIds /\ IsFiniteSet(ReportIds)
  BY MechanicAssumption DEF Files
<1>2. IsFiniteSet(Files)
  BY <1>1, FS_Subset
<1> QED BY <1>2, FS_CardinalityType, MechanicAssumption

\* The requests since an arrival are finitely many, now and after a step.
LEMMA ImageFinite ==
  ASSUME NEW D \in SUBSET Ids, NEW f, f = [s \in D |-> f[s]], NEW T, T = {f[s] : s \in D}
  PROVE  IsFiniteSet(T) /\ Cardinality(T) \in Nat
<1>1. IsFiniteSet(Ids)
  <2>1. MaxRequests \in Int
    BY MechanicAssumption
  <2> QED BY <2>1, FS_Interval DEF Ids
<1>2. IsFiniteSet(D)
  BY <1>1, FS_Subset
<1>3. f \in Surjection(D, T)
  BY DEF Surjection
<1>4. IsFiniteSet(T)
  BY <1>2, <1>3, FS_Surjection
<1> QED BY <1>4, FS_CardinalityType

\* Finitely many requests came since another,
LEMMA SinceFinite ==
  ASSUME NEW r
  PROVE  IsFiniteSet(Since(r)) /\ Cardinality(Since(r)) \in Nat
<1> DEFINE D == Later(r)
           f == [s \in D |-> Ask(s).report]
<1>1. D \in SUBSET Ids /\ f = [s \in D |-> f[s]] /\ Since(r) = {f[s] : s \in D}
  BY DEF Since, Later
<1> HIDE DEF D, f
<1> QED BY <1>1, ImageFinite

\* also after a step.
LEMMA SinceFiniteNext ==
  ASSUME NEW r
  PROVE  IsFiniteSet(Since(r)') /\ Cardinality(Since(r)') \in Nat
<1> DEFINE D == Later(r)'
           f == [s \in D |-> Ask(s)'.report]
<1>1. D \in SUBSET Ids /\ f = [s \in D |-> f[s]] /\ Since(r)' = {f[s] : s \in D}
  BY DEF Since, Later
<1> HIDE DEF D, f
<1> QED BY <1>1, ImageFinite

\* A statement changes nothing of who is alone and who came since.
LEMMA ReportsSame ==
  ASSUME TypeOK, NEW r \in Ids, Moves(r), NEW q \in Ids
  PROVE  /\ Alone(q)' <=> Alone(q)
         /\ InTurnSince(q)' <=> InTurnSince(q)
         /\ Since(q)' = Since(q) /\ Ask(q)' = Ask(q)
<1>1. \A s \in Ids : Ask(s)' = Ask(s) /\ (Asked(s, "report")' <=> Asked(s, "report"))
                       /\ (\A p : Precedes(p, s)' <=> Precedes(p, s))
  BY MovesKeep DEF Ask
<1>2. \A x \in Ids : (Asked(x, "report") /\ ~Precedes(x, q))' <=> (Asked(x, "report") /\ ~Precedes(x, q))
  BY <1>1
<1>3. Later(q)' = Later(q)
  BY <1>2 DEF Later
<1>4. \A x \in Ids : Alone(x)' <=> Alone(x)
  BY <1>1 DEF Alone
<1>5. InTurnSince(q)' <=> InTurnSince(q)
  BY <1>3, <1>4 DEF InTurnSince, Later
<1>6. Since(q)' = Since(q)
  BY <1>1, <1>3 DEF Since, Later
<1> QED BY <1>1, <1>4, <1>5, <1>6

\* What was not in turn stays so.
LEMMA InTurnBefore ==
  ASSUME TypeOK, NEW r \in Ids, Moves(r), InTurn'
  PROVE  InTurn
<1> SUFFICES ASSUME NEW q \in Ids, Asked(q, "report")
             PROVE  req[q].pc # "failed" /\ ~req[q].error /\ Alone(q)
  BY DEF InTurn
<1>1. Asked(q, "report")' /\ (Alone(q)' <=> Alone(q))
  BY ReportsSame, MovesKeep
<1>2. req'[q].pc # "failed" /\ ~req'[q].error /\ Alone(q)
  BY <1>1 DEF InTurn
<1>3. CASE q = r
  BY <1>2, <1>3 DEF Moves, Busy
<1>4. CASE q # r
  BY <1>2, <1>4 DEF Moves
<1> QED BY <1>3, <1>4

\* Whoever has the directory to themselves meets nobody in it.
LEMMA AloneMeetsNobody ==
  ASSUME TypeOK, Course, Arrivals, NEW r \in Ids, req[r].pc \in Busy, Alone(r),
         NEW s \in Ids \ {r}, Ask(s).op = "report"
  PROVE  req[s].pc \notin Busy
<1> SUFFICES ASSUME req[s].pc \in Busy PROVE FALSE
  OBVIOUS
<1>1. Asked(s, "report")
  BY DEF Asked, Busy
<1>2. ~Precedes(r, s) /\ ~Precedes(s, r)
  BY NotYetBefore DEF Busy, Over
<1> QED BY <1>1, <1>2 DEF Alone

\* A handler of a report in the midst of it keeps all others from being alone.
LEMMA BusyAlone ==
  ASSUME TypeOK, Course, Arrivals, NEW r \in Ids, req[r].pc \in {"write", "trim", "stat", "remove"},
         NEW s \in Ids \ {r}, req[s].pc \in {"write", "trim", "stat", "remove"}
  PROVE  ~Alone(r)
<1>1. Ask(s).op = "report" /\ req[s].pc \in Busy /\ req[r].pc \in Busy
  BY DEF Course, Busy
<1> QED BY <1>1, AloneMeetsNobody

\* What the others were about to remove stays so while the files do.
LEMMA ChoosingKept ==
  ASSUME TypeOK, Choosing, NEW r \in Ids, Moves(r), UNCHANGED mtime,
         req'[r].pc \in {"stat", "remove"} /\ Alone(r) => Chooses(r)'
  PROVE  Choosing'
<1> SUFFICES ASSUME NEW q \in Ids, req'[q].pc \in {"stat", "remove"}, Alone(q)'
             PROVE  Chooses(q)'
  BY DEF Choosing
<1>1. Alone(q)
  BY ReportsSame
<1>2. CASE q = r
  BY <1>1, <1>2
<1>3. CASE q # r
  <2>1. req'[q] = req[q] /\ Files' = Files
    BY <1>3 DEF Moves, Files
  <2>2. Chooses(q)
    BY <1>1, <2>1 DEF Choosing
  <2> QED BY <2>1, <2>2 DEF Chooses
<1> QED BY <1>2, <1>3

\* A statement that does not write a file keeps what is on disk, while the files stay.
LEMMA AgingKept ==
  ASSUME TypeOK, Aging, NEW r \in Ids, Moves(r), UNCHANGED mtime, Written(r)' => Written(r)
  PROVE  Aging'
<1>1. Files' = Files
  BY DEF Files
<1> SUFFICES ASSUME NEW q \in Ids, Written(q)', InTurnSince(q)'
             PROVE  /\ Ask(q).report \in Files =>
                         {f \in Files : mtime[Ask(q).report] <= mtime[f]} \subseteq Since(q)
                    /\ Ask(q).report \in Files \/ Cardinality(Since(q)) >= FilesLimit
  BY <1>1, ReportsSame DEF Aging
<1>2. Written(q)
  BY DEF Moves, Written, Asked, Ask
<1>3. InTurnSince(q)
  BY ReportsSame
<1> QED BY <1>2, <1>3 DEF Aging

\* A statement that leaves the directory alone.
LEMMA KeptStays ==
  ASSUME TypeOK, Course, Course', Arrivals, Kept, NEW r \in Ids, Moves(r), UNCHANGED mtime,
         req'[r].pc \notin {"trim", "stat", "remove"}, Written(r)' => Written(r),
         req[r].pc \in {"trim", "stat", "remove"} => ~InTurn' \/ Cardinality(Files) < FilesLimit
  PROVE  Kept'
<1>1. Choosing'
  BY ChoosingKept DEF Kept
<1>2. Aging'
  BY AgingKept DEF Kept
<1>3. Tidy'
  <2>1. Files' = Files
    BY DEF Files
  <2> SUFFICES ASSUME InTurn'
               PROVE  /\ Cardinality(Files) <= FilesLimit
                      /\ (\A q \in Ids : req'[q].pc \notin {"trim", "stat", "remove"}) =>
                           Cardinality(Files) < FilesLimit
    BY <2>1 DEF Tidy
  <2>2. InTurn
    BY InTurnBefore
  <2>3. Cardinality(Files) <= FilesLimit
    BY <2>2 DEF Kept, Tidy
  <2>4. CASE req[r].pc \in {"trim", "stat", "remove"}
    BY <2>3, <2>4
  <2>5. CASE req[r].pc \notin {"trim", "stat", "remove"}
    <3> SUFFICES ASSUME \A q \in Ids : req'[q].pc \notin {"trim", "stat", "remove"}
                 PROVE  Cardinality(Files) < FilesLimit
      BY <2>3
    <3>1. ASSUME NEW q \in Ids PROVE req[q].pc \notin {"trim", "stat", "remove"}
      BY <2>5 DEF Moves
    <3> QED BY <2>2, <3>1 DEF Kept, Tidy
  <2> QED BY <2>4, <2>5
<1> QED BY <1>1, <1>2, <1>3 DEF Kept

\* The listing and the look at a file, while the files stay.
LEMMA KeptByLooking ==
  ASSUME TypeOK, Course, Arrivals, Kept, NEW r \in Ids, Moves(r), UNCHANGED mtime,
         req[r].pc \in {"trim", "stat"}, req'[r].pc \in {"stat", "remove"},
         Alone(r) => Chooses(r)'
  PROVE  Kept'
<1>1. Choosing'
  BY ChoosingKept DEF Kept
<1>2. Written(r)
  BY DEF Written, Asked, Course
<1>3. Aging'
  BY <1>2, AgingKept DEF Kept
<1>4. Tidy'
  <2>1. Files' = Files
    BY DEF Files
  <2>2. ASSUME InTurn' PROVE Cardinality(Files) <= FilesLimit
    <3>1. InTurn
      BY <2>2, InTurnBefore
    <3> QED BY <3>1 DEF Kept, Tidy
  <2> QED BY <2>1, <2>2 DEF Tidy
<1> QED BY <1>1, <1>3, <1>4 DEF Kept

\* Who writes a file is the youngest, and what was younger than another still is.
LEMMA KeptByWrite ==
  ASSUME TypeOK, Course, Arrivals, Kept, NEW r \in Ids, Moves(r), Ask(r).report \in ReportIds,
         req[r].pc = "write", req'[r].pc = "trim",
         NEW now \in Next1({mtime[f] : f \in ReportIds}),
         mtime' = [mtime EXCEPT ![Ask(r).report] = now]
  PROVE  Kept'
<1>1. Ask(r).op = "report" /\ Asked(r, "report")
  BY DEF Course, Asked
<1>2. mtime \in [ReportIds -> Nat] /\ {mtime[f] : f \in ReportIds} \in SUBSET Nat
  BY DEF TypeOK
<1>3. now \in Nat \ {0} /\ \A f \in ReportIds : mtime[f] < now
  BY <1>2, NextIsLarger
<1>4. /\ mtime'[Ask(r).report] = now
      /\ \A f \in ReportIds : f # Ask(r).report => mtime'[f] = mtime[f]
  BY <1>2
<1>5. Files' = Files \cup {Ask(r).report}
  BY <1>3, <1>4 DEF Files
<1>6. ASSUME NEW q \in Ids, q # r PROVE (Written(q)' <=> Written(q)) /\ req'[q] = req[q]
  BY <1>6 DEF Moves, Written, Asked, Ask
<1>7. ASSUME NEW q \in Ids PROVE Ask(r).report \in Since(q)
  <2>1. ~Precedes(r, q)
    BY NotYetBefore DEF Over
  <2> QED BY <1>1, <2>1 DEF Since, Later
<1>8. Choosing'
  <2> SUFFICES ASSUME NEW q \in Ids, req'[q].pc \in {"stat", "remove"}, Alone(q)
               PROVE  FALSE
    BY ReportsSame DEF Choosing
  <2>1. q # r /\ req'[q] = req[q]
    BY <1>6
  <2> QED BY <2>1, BusyAlone
<1>9. Aging'
  <2> SUFFICES ASSUME NEW q \in Ids, Written(q)', InTurnSince(q)
               PROVE  /\ Ask(q).report \in Files' =>
                           {f \in Files' : mtime'[Ask(q).report] <= mtime'[f]} \subseteq Since(q)
                      /\ Ask(q).report \in Files' \/ Cardinality(Since(q)) >= FilesLimit
    BY ReportsSame DEF Aging
  <2>1. ASSUME Ask(q).report = Ask(r).report
        PROVE  {f \in Files' : mtime'[Ask(q).report] <= mtime'[f]} \subseteq Since(q)
    <3> SUFFICES ASSUME NEW f \in Files', now <= mtime'[f] PROVE f \in Since(q)
      BY <1>4, <2>1
    <3>1. f \in ReportIds
      BY DEF Files
    <3>2. f = Ask(r).report
      BY <1>2, <1>3, <1>4, <3>1
    <3> QED BY <1>7, <3>2
  <2>2. CASE q = r
    BY <1>5, <2>1, <2>2
  <2>3. CASE q # r
    <3>1. Written(q)
      BY <1>6, <2>3
    <3>2. ASSUME Ask(q).report \in Files', Ask(q).report # Ask(r).report
          PROVE  {f \in Files' : mtime'[Ask(q).report] <= mtime'[f]} \subseteq Since(q)
      <4>1. Ask(q).report \in Files /\ Ask(q).report \in ReportIds
        BY <1>5, <3>2 DEF Files
      <4> SUFFICES ASSUME NEW f \in Files', mtime'[Ask(q).report] <= mtime'[f], f # Ask(r).report
                   PROVE  f \in Since(q)
        BY <1>7
      <4>2. f \in Files /\ f \in ReportIds
        BY <1>5 DEF Files
      <4>3. mtime[Ask(q).report] <= mtime[f]
        BY <1>4, <3>2, <4>1, <4>2
      <4> QED BY <3>1, <4>1, <4>2, <4>3 DEF Kept, Aging
    <3>3. Ask(q).report \in Files' \/ Cardinality(Since(q)) >= FilesLimit
      BY <1>5, <3>1 DEF Kept, Aging
    <3> QED BY <2>1, <3>2, <3>3
  <2> QED BY <2>2, <2>3
<1>10. Tidy'
  <2> SUFFICES ASSUME InTurn' PROVE Cardinality(Files') <= FilesLimit
    BY DEF Tidy
  <2>1. InTurn
    BY InTurnBefore
  <2>2. Alone(r)
    BY <1>1, <2>1 DEF InTurn
  <2>3. ASSUME NEW q \in Ids PROVE req[q].pc \notin {"trim", "stat", "remove"}
    BY <2>2, BusyAlone
  <2>4. Cardinality(Files) < FilesLimit
    BY <2>1, <2>3 DEF Kept, Tidy
  <2>5. Cardinality(Files') \in Nat /\ Cardinality(Files') <= Cardinality(Files) + 1
    BY <1>5, FilesFinite, OneMoreOrLess
  <2> QED BY <2>4, <2>5, FilesFinite
<1> QED BY <1>8, <1>9, <1>10 DEF Kept

\* The file that is removed is the oldest, unless handlers overlapped.
LEMMA KeptByRemoval ==
  ASSUME TypeOK, Course, Arrivals, Kept, NEW r \in Ids, Moves(r),
         req[r].pc = "remove", req'[r].pc = "answered",
         mtime' = [mtime EXCEPT ![req[r].oldest] = 0]
  PROVE  Kept'
<1>1. req[r].oldest \in ReportIds /\ Asked(r, "report") /\ Written(r)
  BY DEF Course, Written, Asked
<1>2. mtime \in [ReportIds -> Nat]
  BY DEF TypeOK
<1>3. Files' = Files \ {req[r].oldest}
  BY <1>1, <1>2 DEF Files
<1>4. \A f \in Files' : mtime'[f] = mtime[f]
  BY <1>2, <1>3 DEF Files
<1>5. ASSUME NEW q \in Ids, q # r PROVE (Written(q)' <=> Written(q)) /\ req'[q] = req[q]
  BY <1>5 DEF Moves, Written, Asked, Ask
<1>6. ASSUME Alone(r)
      PROVE  /\ req[r].oldest \in Files /\ \A f \in Files : mtime[req[r].oldest] <= mtime[f]
             /\ Cardinality(Files) >= FilesLimit
  <2>1. Chooses(r) /\ req[r].oldest # NoReport
    BY <1>1, <1>6, MechanicAssumption DEF Kept, Choosing
  <2> QED BY <2>1 DEF Chooses
<1>7. Choosing'
  <2> SUFFICES ASSUME NEW q \in Ids, req'[q].pc \in {"stat", "remove"}, Alone(q)
               PROVE  FALSE
    BY ReportsSame DEF Choosing
  <2>1. q # r /\ req'[q] = req[q]
    BY <1>5
  <2> QED BY <2>1, BusyAlone
<1>8. Aging'
  <2> SUFFICES ASSUME NEW q \in Ids, Written(q)', InTurnSince(q)
               PROVE  /\ Ask(q).report \in Files' =>
                           {f \in Files' : mtime'[Ask(q).report] <= mtime'[f]} \subseteq Since(q)
                      /\ Ask(q).report \in Files' \/ Cardinality(Since(q)) >= FilesLimit
    BY ReportsSame DEF Aging
  <2>1. Written(q)
    BY <1>1, <1>5
  <2>2. /\ Ask(q).report \in Files =>
             {f \in Files : mtime[Ask(q).report] <= mtime[f]} \subseteq Since(q)
        /\ Ask(q).report \in Files \/ Cardinality(Since(q)) >= FilesLimit
    BY <2>1 DEF Kept, Aging
  <2>3. ASSUME Ask(q).report \in Files'
        PROVE  {f \in Files' : mtime'[Ask(q).report] <= mtime'[f]} \subseteq Since(q)
    BY <1>3, <1>4, <2>2, <2>3
  <2>4. ASSUME Ask(q).report = req[r].oldest PROVE Cardinality(Since(q)) >= FilesLimit
    <3>1. ~Precedes(r, q)
      BY NotYetBefore DEF Over
    <3>2. Alone(r)
      BY <1>1, <3>1 DEF InTurnSince, Later
    <3>3. Files \in SUBSET Since(q)
      BY <1>6, <2>2, <2>4, <3>2
    <3>4. Cardinality(Files) <= Cardinality(Since(q))
      BY <3>3, SinceFinite, FS_Subset
    <3> QED BY <1>6, <3>2, <3>4, SinceFinite, FilesFinite
  <2> QED BY <1>3, <2>2, <2>3, <2>4
<1>9. Tidy'
  <2> SUFFICES ASSUME InTurn'
               PROVE  Cardinality(Files') < FilesLimit /\ Cardinality(Files') <= FilesLimit
    BY DEF Tidy
  <2>1. InTurn
    BY InTurnBefore
  <2>2. Alone(r)
    BY <1>1, <2>1 DEF InTurn
  <2>3. req[r].oldest \in Files /\ Cardinality(Files) <= FilesLimit
    BY <1>6, <2>1, <2>2 DEF Kept, Tidy
  <2>4. Cardinality(Files') = Cardinality(Files) - 1
    BY <1>3, <2>3, FilesFinite, OneMoreOrLess
  <2> QED BY <2>3, <2>4, FilesFinite
<1> QED BY <1>7, <1>8, <1>9 DEF Kept

------------------------------------------------------------------------------
\* The statements, one by one.

IInv == TypeOK /\ Course /\ Arrivals /\ SignUps /\ Standing /\ Kept

\* What most steps owe: the rest of the invariant follows from the families above.
LEMMA FamiliesKept ==
  ASSUME IInv, NEW r \in Ids, Moves(r) \/ Arrives(r), TypeOK', Course', SignUps', Standing', Kept'
  PROVE  IInv'
BY ArrivalsKept DEF IInv

\* Nothing has been asked yet.
LEMMA InitIInv == Init => IInv
<1> SUFFICES ASSUME Init PROVE IInv
  OBVIOUS
<1>1. \A r \in Ids : req[r] = Idle /\ req[r].pc = "idle" /\ req[r].ask = NoRequest /\ req[r].before = {}
  BY DEF Init, Idle
<1>2. PICK number \in [Taken -> 1..Cardinality(Taken)] :
        /\ IsInjective(number)
        /\ users = [e \in Emails |-> IF e \in Taken THEN number[e] ELSE 0]
  BY DEF Init
<1>3. TypeOK
  <2>1. Idle \in Handling
    BY DEF Idle, Handling, Statuses
  <2>2. users \in [Emails -> Nat]
    BY <1>2
  <2>3. status \in [Rows -> Statuses \cup {Absent}]
    BY DEF Init, Statuses
  <2> QED BY <2>1, <2>2, <2>3 DEF Init, TypeOK
<1>4. Course
  BY <1>1 DEF Course, Ask
<1>5. Arrivals
  BY <1>1 DEF Arrivals
<1>6. SignUps
  <2>1. Keyed
    <3> SUFFICES ASSUME NEW e \in Emails, NEW f \in Emails, users[e] = users[f], users[e] # 0
                 PROVE  e = f
      BY DEF Keyed
    <3>1. e \in Taken /\ f \in Taken /\ number[e] = number[f]
      BY <1>2
    <3> QED BY <1>2, <3>1 DEF IsInjective
  <2>2. SigningUp
    BY <1>1, <1>2 DEF SigningUp, Entered, Coded, Asked
  <2>3. Told
    BY <1>1 DEF Told, Answered
  <2> QED BY <2>1, <2>2, <2>3 DEF SignUps
<1>7. Standing
  BY <1>1 DEF Standing, StatusKept, StatusHeld, Stands, Answered, Filed
<1>8. Kept
  <2>1. Files = {}
    BY DEF Init, Files
  <2>2. Cardinality(Files) = 0 /\ FilesLimit \in Nat \ {0}
    BY <2>1, FS_EmptySet, MechanicAssumption
  <2> QED BY <1>1, <2>2 DEF Kept, Choosing, Aging, Tidy, Written, Asked
<1> QED BY <1>3, <1>4, <1>5, <1>6, <1>7, <1>8 DEF IInv

\* A request that arrives is owed nothing, and changes nothing it was not asked for.
LEMMA ArriveKeeps ==
  ASSUME IInv, NEW r \in Ids, Arrive(r)
  PROVE  IInv'
<1>1. req[r].pc = "idle" /\ UNCHANGED <<tables, rows, mtime>>
  BY DEF Arrive, At
<1>2. PICK asked \in Requests, valid \in BOOLEAN :
        req' = [req EXCEPT ![r] = [Idle EXCEPT
                  !.ask = asked, !.pc = IF valid THEN asked.op ELSE "refused",
                  !.before = {s \in Ids : req[s].pc \in Over}]]
  BY DEF Arrive
<1> DEFINE x == [Idle EXCEPT !.ask = asked, !.pc = IF valid THEN asked.op ELSE "refused",
                             !.before = {s \in Ids : req[s].pc \in Over}]
<1>3. req \in [Ids -> Handling] /\ TypeOK
  BY DEF IInv, TypeOK
<1>4. asked.op \in {"sign_up", "comment", "status", "receive", "report"} /\ asked # NoRequest
  BY AskFields
<1>5. x.number = 0 /\ x.ask = asked /\ x.pc \in {asked.op, "refused"} /\ x.before = {s \in Ids : req[s].pc \in Over}
  BY DEF Idle
<1>6. x \in Handling
  BY <1>4 DEF Idle, Handling, Busy, Over, Statuses
<1>7. req' = [req EXCEPT ![r] = x]
  BY <1>2
<1> HIDE DEF x
<1>8. req' \in [Ids -> Handling] /\ req'[r] = x /\ \A s \in Ids \ {r} : req'[s] = req[s]
  BY <1>3, <1>6, <1>7
<1>9. Arrives(r)
  BY <1>1, <1>5, <1>8 DEF Arrives
<1>10. TypeOK'
  BY <1>1, <1>3, <1>8 DEF TypeOK, tables, rows
<1>11. Course'
  <2>1. InCourse(x)
    BY <1>4, <1>5 DEF InCourse
  <2> QED BY <1>8, <2>1, CourseKept DEF IInv
<1>12. x.pc \in {"sign_up", "comment", "status", "receive", "report", "refused"}
  BY <1>4, <1>5
<1>13. ASSUME NEW q \in Ids, q # r
       PROVE  /\ req'[q] = req[q] /\ Ask(q)' = Ask(q)
              /\ \A op : (Asked(q, op)' <=> Asked(q, op)) /\ (Answered(q, op)' <=> Answered(q, op))
              /\ \A p : Precedes(p, q)' <=> Precedes(p, q)
  BY <1>8, <1>13 DEF Ask, Asked, Answered, Precedes
<1>14. \A op : ~Asked(r, op) /\ ~Answered(r, op)'
  BY <1>1, <1>8, <1>12 DEF Asked, Answered
<1>15. SignUps'
  <2>1. ASSUME NEW q \in Ids, q # r PROVE (Entered(q)' <=> Entered(q)) /\ (Coded(q)' <=> Coded(q))
    BY <1>13, <2>1 DEF Entered, Coded
  <2>2. ~Entered(r)' /\ ~Coded(r)'
    BY <1>8, <1>12 DEF Entered, Coded
  <2>3. users' = users /\ mechanics' = mechanics /\ details' = details
    BY <1>1 DEF tables
  <2>4. ASSUME NEW e \in Emails \ Taken, users[e] # 0
        PROVE  \E q \in Ids : Asked(q, "sign_up")' /\ Ask(q)'.email = e
                                /\ (Entered(q)' \/ req'[q].pc = "failed")
    <3>1. PICK q \in Ids : Asked(q, "sign_up") /\ Ask(q).email = e
                             /\ (Entered(q) \/ req[q].pc = "failed")
      BY <2>4 DEF IInv, SignUps, SigningUp
    <3>2. q # r
      BY <1>14, <3>1
    <3> QED BY <1>13, <2>1, <3>1, <3>2
  <2>5. \A q \in Ids : Entered(q)' => users'[Ask(q)'.email] # 0
    BY <1>13, <2>1, <2>2, <2>3 DEF IInv, SignUps, SigningUp
  <2>6. \A q \in Ids : Coded(q)' => <<Ask(q)'.code, Ask(q)'.email>> \in mechanics'
    BY <1>13, <2>1, <2>2, <2>3 DEF IInv, SignUps, SigningUp
  <2>7. \A p, q \in Ids : p # q /\ Entered(p)' /\ Entered(q)' => Ask(p)'.email # Ask(q)'.email
    BY <1>13, <2>1, <2>2 DEF IInv, SignUps, SigningUp
  <2>8. \A p, q \in Ids : p # q /\ Coded(p)' /\ Coded(q)' => Ask(p)'.code # Ask(q)'.code
    BY <1>13, <2>1, <2>2 DEF IInv, SignUps, SigningUp
  <2>9. SigningUp'
    BY <2>3, <2>4, <2>5, <2>6, <2>7, <2>8 DEF SigningUp
  <2>10. Keyed' /\ Told'
    BY <1>13, <1>14, <2>3 DEF IInv, SignUps, Keyed, Told
  <2> QED BY <2>9, <2>10 DEF SignUps
<1>16. Standing'
  <2>1. ASSUME NEW q \in Ids, Stands(q)' PROVE q # r /\ Stands(q)
    <3>1. q # r
      BY <1>14, <2>1 DEF Stands
    <3>2. ASSUME NEW s \in Ids, Asked(s, "status") \/ Asked(s, "comment") \/ Asked(s, "receive")
          PROVE  s # r
      BY <1>14, <3>2
    <3>3. Answered(q, "status")
      BY <1>13, <2>1, <3>1 DEF Stands
    <3>4. ASSUME NEW s \in Ids \ {q}, Asked(s, "status"), Ask(s).row = Ask(q).row PROVE Precedes(s, q)
      BY <1>13, <2>1, <3>1, <3>2, <3>4 DEF Stands
    <3>5. ASSUME NEW s \in Ids, Asked(s, "comment"), Ask(s).row = Ask(q).row
          PROVE  Precedes(s, q) \/ Precedes(q, s)
      BY <1>13, <2>1, <3>1, <3>2, <3>5 DEF Stands
    <3>6. ASSUME NEW s \in Ids, Asked(s, "receive"), req[s].number = Ask(q).row PROVE Precedes(s, q)
      BY <1>13, <2>1, <3>1, <3>2, <3>6 DEF Stands
    <3> QED BY <3>1, <3>3, <3>4, <3>5, <3>6 DEF Stands
  <2>2. status' = status
    BY <1>1 DEF rows
  <2>3. StatusKept'
    BY <1>13, <2>1, <2>2 DEF IInv, Standing, StatusKept
  <2>4. StatusHeld'
    <3> SUFFICES ASSUME NEW q \in Ids, NEW s \in Ids, Stands(q)', req'[s].pc \in {"add", "store"},
                        Ask(s)'.op = "comment", Ask(s)'.row = Ask(q)'.row
                 PROVE  req'[s].held = Ask(q)'.to
      BY DEF StatusHeld
    <3>1. s # r
      BY <1>8, <1>12
    <3> QED BY <1>13, <2>1, <3>1 DEF IInv, Standing, StatusHeld
  <2>5. Filed'
    <3> SUFFICES ASSUME NEW q \in Ids, req'[q].pc \in {"add", "store"} \/ Answered(q, "status")'
                 PROVE  Exists(Target(q))'
      BY DEF Filed
    <3>1. q # r
      BY <1>8, <1>12 DEF Answered
    <3>2. Exists(Target(q)) /\ Target(q)' = Target(q)
      BY <1>13, <3>1 DEF IInv, Standing, Filed, Target
    <3> QED BY <2>2, <3>2 DEF Exists
  <2> QED BY <2>3, <2>4, <2>5 DEF Standing
<1>17. Kept'
  <2>1. ASSUME NEW q \in Ids, q # r, Alone(q)' PROVE Alone(q)
    <3> SUFFICES ASSUME NEW s \in Ids \ {q}, Asked(s, "report")
                 PROVE  Precedes(q, s) \/ Precedes(s, q)
      BY DEF Alone
    <3>1. s # r
      BY <1>14
    <3> QED BY <1>13, <2>1, <3>1 DEF Alone
  <2>2. ASSUME NEW q \in Ids, q # r
        PROVE  \A s \in Later(q) : s \in Later(q)' /\ s # r /\ Ask(s)' = Ask(s)
    <3> SUFFICES ASSUME NEW s \in Ids, Asked(s, "report"), ~Precedes(s, q)
                 PROVE  Asked(s, "report")' /\ ~Precedes(s, q)' /\ s # r /\ Ask(s)' = Ask(s)
      BY DEF Later
    <3>1. s # r
      BY <1>14
    <3> QED BY <1>13, <2>2, <3>1
  <2>3. ASSUME NEW q \in Ids, q # r
        PROVE  /\ Since(q) \subseteq Since(q)'
               /\ Cardinality(Since(q)) >= FilesLimit => Cardinality(Since(q)') >= FilesLimit
    <3>1. Since(q) \in SUBSET Since(q)'
      BY <2>2, <2>3 DEF Since
    <3>2. IsFiniteSet(Since(q)') /\ Cardinality(Since(q)') \in Nat
      BY SinceFiniteNext
    <3>3. Cardinality(Since(q)) <= Cardinality(Since(q)') /\ Cardinality(Since(q)) \in Nat
      BY <3>1, <3>2, FS_Subset, SinceFinite
    <3> QED BY <3>1, <3>2, <3>3, FilesFinite, <1>3
  <2>4. Files' = Files /\ mtime' = mtime
    BY <1>1 DEF Files
  <2>5. Choosing'
    <3> SUFFICES ASSUME NEW q \in Ids, req'[q].pc \in {"stat", "remove"}, Alone(q)'
                 PROVE  Chooses(q)'
      BY DEF Choosing
    <3>1. q # r
      BY <1>8, <1>12
    <3>2. Chooses(q) /\ req'[q] = req[q]
      BY <1>13, <2>1, <3>1 DEF IInv, Kept, Choosing
    <3> QED BY <2>4, <3>2 DEF Chooses
  <2>6. Aging'
    <3> SUFFICES ASSUME NEW q \in Ids, Written(q)', InTurnSince(q)'
                 PROVE  /\ Ask(q)'.report \in Files =>
                             {f \in Files : mtime[Ask(q)'.report] <= mtime[f]} \subseteq Since(q)'
                        /\ Ask(q)'.report \in Files \/ Cardinality(Since(q)') >= FilesLimit
      BY <2>4 DEF Aging
    <3>1. q # r
      BY <1>8, <1>12 DEF Written
    <3>2. Written(q) /\ Ask(q)' = Ask(q)
      BY <1>13, <3>1 DEF Written
    <3>3. InTurnSince(q)
      <4> SUFFICES ASSUME NEW s \in Later(q) PROVE Alone(s)
        BY DEF InTurnSince
      <4>1. s \in Later(q)' /\ s # r /\ s \in Ids
        BY <2>2, <3>1 DEF Later
      <4>2. Alone(s)'
        BY <4>1 DEF InTurnSince
      <4> QED BY <2>1, <4>1, <4>2
    <3>4. /\ Ask(q).report \in Files =>
               {f \in Files : mtime[Ask(q).report] <= mtime[f]} \subseteq Since(q)
          /\ Ask(q).report \in Files \/ Cardinality(Since(q)) >= FilesLimit
      BY <3>2, <3>3 DEF IInv, Kept, Aging
    <3>5. /\ Since(q) \subseteq Since(q)'
          /\ Cardinality(Since(q)) >= FilesLimit => Cardinality(Since(q)') >= FilesLimit
      BY <2>3, <3>1
    <3> QED BY <3>2, <3>4, <3>5
  <2>7. Tidy'
    <3> SUFFICES ASSUME InTurn'
                 PROVE  /\ Cardinality(Files) <= FilesLimit
                        /\ (\A q \in Ids : req'[q].pc \notin {"trim", "stat", "remove"}) =>
                             Cardinality(Files) < FilesLimit
      BY <2>4 DEF Tidy
    <3>1. InTurn
      <4> SUFFICES ASSUME NEW q \in Ids, Asked(q, "report")
                   PROVE  req[q].pc # "failed" /\ ~req[q].error /\ Alone(q)
        BY DEF InTurn
      <4>1. q # r
        BY <1>14
      <4> QED BY <1>13, <2>1, <4>1 DEF InTurn
    <3>2. \A q \in Ids : req[q].pc \in {"trim", "stat", "remove"} => req'[q] = req[q]
      BY <1>1, <1>13
    <3> QED BY <3>1, <3>2 DEF IInv, Kept, Tidy
  <2> QED BY <2>5, <2>6, <2>7 DEF Kept
<1> QED BY <1>9, <1>10, <1>11, <1>15, <1>16, <1>17, FamiliesKept

\* A statement of a sign-up is nothing to the other two kinds.
LEMMA SignUpStep ==
  ASSUME IInv, NEW r \in Ids, Moves(r), TypeOK', InCourse(req'[r]),
         req[r].ask.op = "sign_up", UNCHANGED <<rows, mtime>>, Course' => SignUps'
  PROVE  IInv'
<1>1. TypeOK /\ Course /\ Arrivals /\ Standing /\ Kept
  BY DEF IInv
<1>2. Course' /\ SignUps'
  BY <1>1, CourseKept DEF Moves
<1>3. Standing'
  BY <1>1, <1>2, StandingStays DEF rows
<1>4. /\ req[r].pc \notin {"trim", "stat", "remove"} /\ ~Written(r)'
      /\ req'[r].pc \notin {"trim", "stat", "remove"}
  <2>1. req'[r].ask.op = "sign_up"
    BY DEF Moves
  <2> QED BY <1>1, <2>1 DEF Course, InCourse, Written, Asked, Ask
<1>5. Kept'
  BY <1>1, <1>2, <1>4, KeptStays
<1> QED BY <1>2, <1>3, <1>5, FamiliesKept

\* One that inserts.
LEMMA SignUpInserts ==
  ASSUME IInv, NEW r \in Ids, Moves(r), TypeOK', InCourse(req'[r]),
         req[r].ask.op = "sign_up", UNCHANGED <<rows, mtime>>, TablesGrow, InsertsOwn(r)
  PROVE  IInv'
<1>1. Course' => SignUps'
  BY SignUpsKept DEF IInv
<1> QED BY <1>1, SignUpStep

\* One that inserts nothing.
LEMMA SignUpGoes ==
  ASSUME IInv, NEW r \in Ids, Moves(r), req' \in [Ids -> Handling], InCourse(req'[r]),
         req[r].ask.op = "sign_up", UNCHANGED <<tables, rows, mtime>>,
         \/ req'[r].pc = "failed"
         \/ req[r].pc \in {"sign_up", "next_id"} /\ req'[r].pc \in {"refused", "next_id", "user"}
         \/ req[r].pc = "next_details" /\ req'[r].pc = "details"
  PROVE  IInv'
<1>1. TypeOK'
  BY DEF IInv, TypeOK, tables, rows
<1>2. Course' => SignUps'
  BY <1>1, SignUpsStay DEF IInv
<1> QED BY <1>1, <1>2, SignUpStep

\* SignUpView.post, the checks
LEMMA SignUpKeeps ==
  ASSUME IInv, NEW r \in Ids, SignUp(r)
  PROVE  IInv'
<1>1. TypeOK /\ req[r].pc = "sign_up" /\ UNCHANGED <<tables, rows, mtime>>
      /\ \E p \in {"refused", "next_id"} : Go(r, p)
  BY DEF IInv, SignUp, At
<1>2. PICK p \in {"refused", "next_id"} : Go(r, p)
  BY <1>1
<1>3. Moves(r) /\ req' \in [Ids -> Handling] /\ req'[r].pc = p
  BY <1>1, <1>2, GoIs DEF Busy, Over
<1>4. req[r].ask.op = "sign_up" /\ req'[r].ask = req[r].ask /\ req[r].ask # NoRequest
  BY <1>1, <1>3 DEF IInv, Course, Ask, Moves
<1>5. InCourse(req'[r])
  BY <1>3, <1>4 DEF InCourse
<1> QED BY <1>1, <1>3, <1>4, <1>5, SignUpGoes

\* the next id, read as the largest and one
LEMMA NextIdKeeps ==
  ASSUME IInv, NEW r \in Ids, NextUserId(r) \/ NextDetailsId(r)
  PROVE  IInv'
<1>1. TypeOK /\ UNCHANGED <<tables, rows, mtime>> /\ req[r] \in Handling
  BY HandlingFields DEF IInv, NextUserId, NextDetailsId
<1>2. PICK p, n : /\ \/ req[r].pc = "next_id" /\ p = "user"
                     \/ req[r].pc = "next_details" /\ p = "details"
                  /\ n \in Nat \ {0}
                  /\ req' = [req EXCEPT ![r].pc = p, ![r].number = n]
  <2>1. CASE NextUserId(r)
    <3>1. {users[e] : e \in Emails} \in SUBSET Nat
      BY <1>1 DEF TypeOK
    <3>2. PICK n \in Next1({users[e] : e \in Emails}) : req' = [req EXCEPT ![r].pc = "user", ![r].number = n]
      BY <2>1 DEF NextUserId
    <3> QED BY <2>1, <3>1, <3>2, NextIsLarger DEF NextUserId, At
  <2>2. CASE NextDetailsId(r)
    <3>1. {d[1] : d \in details} \in SUBSET Nat
      BY <1>1 DEF TypeOK
    <3>2. PICK n \in Next1({d[1] : d \in details}) : req' = [req EXCEPT ![r].pc = "details", ![r].number = n]
      BY <2>2 DEF NextDetailsId
    <3> QED BY <2>2, <3>1, <3>2, NextIsLarger DEF NextDetailsId, At
  <2> QED BY <2>1, <2>2
<1>3. req[r].pc \in Busy /\ p \in Busy /\ n \in Nat
  BY <1>2 DEF Busy
<1>4. Moves(r) /\ req' \in [Ids -> Handling] /\ req'[r].pc = p /\ req'[r].number = n
  <2> DEFINE x == [req[r] EXCEPT !.pc = p, !.number = n]
  <2>1. req' = [req EXCEPT ![r] = x]
    BY <1>1, <1>2 DEF TypeOK
  <2>2. x \in Handling
    BY <1>1, <1>3 DEF Handling
  <2>3. x.ask = req[r].ask /\ x.before = req[r].before /\ x.error = req[r].error
        /\ x.pc = p /\ x.number = n
    BY <1>1 DEF Handling
  <2> HIDE DEF x
  <2> QED BY <1>1, <1>3, <2>1, <2>2, <2>3, BecomesIs
<1>5. req[r].ask.op = "sign_up" /\ req'[r].ask = req[r].ask /\ req[r].ask # NoRequest
  BY <1>2, <1>4 DEF IInv, Course, Ask, Moves
<1>6. InCourse(req'[r])
  BY <1>2, <1>4, <1>5 DEF InCourse
<1> QED BY <1>1, <1>2, <1>4, <1>5, <1>6, SignUpGoes

\* User.objects.create
LEMMA CreateUserKeeps ==
  ASSUME IInv, NEW r \in Ids, CreateUser(r)
  PROVE  IInv'
<1>1. TypeOK /\ req[r].pc = "user" /\ UNCHANGED <<mechanics, details, rows, mtime>>
  BY DEF IInv, CreateUser, At
<1>2. /\ req[r].ask.op = "sign_up" /\ req[r].ask # NoRequest /\ req[r].number \in Nat \ {0}
      /\ Asked(r, "sign_up") /\ Ask(r).email \in Emails
  BY <1>1, HandlingFields, SignUpAsk DEF IInv, Course, Ask, Asked
<1>3. CASE users[Ask(r).email] # 0 \/ \E e \in Emails : users[e] = req[r].number
  <2>1. Go(r, "failed") /\ UNCHANGED users
    BY <1>3 DEF CreateUser
  <2>2. Moves(r) /\ req' \in [Ids -> Handling] /\ req'[r].pc = "failed" /\ req'[r].ask = req[r].ask
    <3>1. TypeOK /\ r \in Ids /\ req[r].pc \in Busy /\ "failed" \in Busy \cup Over /\ Go(r, "failed")
      BY <1>1, <2>1 DEF Busy, Over
    <3> QED BY <3>1, GoIs
  <2>3. InCourse(req'[r])
    BY <1>2, <2>2 DEF InCourse
  <2> QED BY <1>1, <1>2, <2>1, <2>2, <2>3, SignUpGoes DEF tables
<1>4. CASE users[Ask(r).email] = 0 /\ \A e \in Emails : users[e] # req[r].number
  <2>1. Go(r, "mechanic") /\ users' = [users EXCEPT ![Ask(r).email] = req[r].number]
    BY <1>4 DEF CreateUser
  <2>2. Moves(r) /\ req' \in [Ids -> Handling] /\ req'[r].pc = "mechanic" /\ req'[r].ask = req[r].ask
    <3>1. TypeOK /\ r \in Ids /\ req[r].pc \in Busy /\ "mechanic" \in Busy \cup Over /\ Go(r, "mechanic")
      BY <1>1, <2>1 DEF Busy, Over
    <3> QED BY <3>1, GoIs
  <2>3. InCourse(req'[r])
    BY <1>2, <2>2 DEF InCourse
  <2>4. /\ users' \in [Emails -> Nat] /\ users'[Ask(r).email] = req[r].number
        /\ \A e \in Emails : e # Ask(r).email => users'[e] = users[e]
    BY <1>1, <1>2, <2>1 DEF TypeOK
  <2>5. TypeOK'
    BY <1>1, <2>2, <2>4 DEF TypeOK, rows
  <2>6. TablesGrow
    BY <1>1, <1>4, <2>4 DEF TablesGrow, IInv, SignUps, Keyed
  <2>7. Ask(r)' = Ask(r) /\ Entered(r)' /\ ~Coded(r)' /\ ~Answered(r, "sign_up")'
    BY <1>2, <2>2 DEF Entered, Coded, Answered, Asked, Ask
  <2>8. InsertsOwn(r)
    BY <1>2, <1>4, <2>4, <2>7 DEF InsertsOwn
  <2> QED BY <1>1, <1>2, <2>2, <2>3, <2>5, <2>6, <2>8, SignUpInserts
<1> QED BY <1>3, <1>4

\* Mechanic.objects.create
LEMMA CreateMechanicKeeps ==
  ASSUME IInv, NEW r \in Ids, CreateMechanic(r)
  PROVE  IInv'
<1>1. TypeOK /\ req[r].pc = "mechanic" /\ UNCHANGED <<users, details, rows, mtime>>
  BY DEF IInv, CreateMechanic, At
<1>2. /\ req[r].ask.op = "sign_up" /\ req[r].ask # NoRequest
      /\ Asked(r, "sign_up") /\ Ask(r).email \in Emails /\ Ask(r).code \in Codes
  BY <1>1, SignUpAsk DEF IInv, Course, Ask, Asked
<1>3. CASE \E e \in Emails : <<Ask(r).code, e>> \in mechanics
  <2>1. Go(r, "failed") /\ UNCHANGED mechanics
    BY <1>3 DEF CreateMechanic
  <2>2. Moves(r) /\ req' \in [Ids -> Handling] /\ req'[r].pc = "failed" /\ req'[r].ask = req[r].ask
    <3>1. TypeOK /\ r \in Ids /\ req[r].pc \in Busy /\ "failed" \in Busy \cup Over /\ Go(r, "failed")
      BY <1>1, <2>1 DEF Busy, Over
    <3> QED BY <3>1, GoIs
  <2>3. InCourse(req'[r])
    BY <1>2, <2>2 DEF InCourse
  <2> QED BY <1>1, <1>2, <2>1, <2>2, <2>3, SignUpGoes DEF tables
<1>4. CASE \A e \in Emails : <<Ask(r).code, e>> \notin mechanics
  <2>1. Go(r, "next_details") /\ mechanics' = mechanics \cup {<<Ask(r).code, Ask(r).email>>}
    BY <1>4 DEF CreateMechanic
  <2>2. Moves(r) /\ req' \in [Ids -> Handling] /\ req'[r].pc = "next_details" /\ req'[r].ask = req[r].ask
    <3>1. TypeOK /\ r \in Ids /\ req[r].pc \in Busy /\ "next_details" \in Busy \cup Over /\ Go(r, "next_details")
      BY <1>1, <2>1 DEF Busy, Over
    <3> QED BY <3>1, GoIs
  <2>3. InCourse(req'[r])
    BY <1>2, <2>2 DEF InCourse
  <2>4. TypeOK'
    BY <1>1, <1>2, <2>1, <2>2 DEF TypeOK, rows
  <2>5. TablesGrow
    BY <1>1, <2>1 DEF TablesGrow, IInv, SignUps, Keyed
  <2>6. Ask(r)' = Ask(r) /\ Entered(r)' /\ Entered(r) /\ ~Answered(r, "sign_up")'
    BY <1>1, <1>2, <2>2 DEF Entered, Answered, Asked, Ask
  <2>7. users[Ask(r).email] # 0
    BY <2>6 DEF IInv, SignUps, SigningUp
  <2>8. InsertsOwn(r)
    BY <1>1, <1>2, <1>4, <2>1, <2>6, <2>7 DEF InsertsOwn
  <2> QED BY <1>1, <1>2, <2>2, <2>3, <2>4, <2>5, <2>8, SignUpInserts
<1> QED BY <1>3, <1>4

\* UserDetails.objects.create
LEMMA CreateDetailsKeeps ==
  ASSUME IInv, NEW r \in Ids, CreateDetails(r)
  PROVE  IInv'
<1>1. TypeOK /\ req[r].pc = "details" /\ UNCHANGED <<users, mechanics, rows, mtime>>
  BY DEF IInv, CreateDetails, At
<1>2. /\ req[r].ask.op = "sign_up" /\ req[r].ask # NoRequest /\ req[r].number \in Nat
      /\ Asked(r, "sign_up") /\ Ask(r).email \in Emails
  BY <1>1, HandlingFields, SignUpAsk DEF IInv, Course, Ask, Asked
<1>3. CASE \E d \in details : d[1] = req[r].number
  <2>1. Go(r, "failed") /\ UNCHANGED details
    BY <1>3 DEF CreateDetails
  <2>2. Moves(r) /\ req' \in [Ids -> Handling] /\ req'[r].pc = "failed" /\ req'[r].ask = req[r].ask
    <3>1. TypeOK /\ r \in Ids /\ req[r].pc \in Busy /\ "failed" \in Busy \cup Over /\ Go(r, "failed")
      BY <1>1, <2>1 DEF Busy, Over
    <3> QED BY <3>1, GoIs
  <2>3. InCourse(req'[r])
    BY <1>2, <2>2 DEF InCourse
  <2> QED BY <1>1, <1>2, <2>1, <2>2, <2>3, SignUpGoes DEF tables
<1>4. CASE ~(\E d \in details : d[1] = req[r].number)
  <2>1. Go(r, "answered") /\ details' = details \cup {<<req[r].number, Ask(r).email>>}
    BY <1>4 DEF CreateDetails
  <2>2. Moves(r) /\ req' \in [Ids -> Handling] /\ req'[r].pc = "answered" /\ req'[r].ask = req[r].ask
    BY <1>1, <2>1, GoIs DEF Busy, Over, Moves
  <2>3. InCourse(req'[r])
    BY <1>2, <2>2 DEF InCourse
  <2>4. TypeOK'
    BY <1>1, <1>2, <2>1, <2>2 DEF TypeOK, rows
  <2>5. TablesGrow
    BY <1>1, <2>1 DEF TablesGrow, IInv, SignUps, Keyed
  <2>6. Ask(r)' = Ask(r) /\ Entered(r)' /\ Entered(r) /\ Coded(r)
    BY <1>1, <1>2, <2>2 DEF Entered, Coded, Asked, Ask
  <2>7. users[Ask(r).email] # 0 /\ <<Ask(r).code, Ask(r).email>> \in mechanics
    BY <2>6 DEF IInv, SignUps, SigningUp
  <2>8. \E d \in details' : d[2] = Ask(r).email
    <3> DEFINE d == <<req[r].number, Ask(r).email>>
    <3>1. d \in details' /\ d[2] = Ask(r).email
      BY <2>1
    <3> QED BY <3>1
  <2>9. InsertsOwn(r)
    BY <1>1, <1>2, <2>6, <2>7, <2>8 DEF InsertsOwn
  <2> QED BY <1>1, <1>2, <2>2, <2>3, <2>4, <2>5, <2>9, SignUpInserts
<1> QED BY <1>3, <1>4

------------------------------------------------------------------------------
\* The other requests insert into no table.
LEMMA OtherStep ==
  ASSUME IInv, NEW r \in Ids, Moves(r), TypeOK', InCourse(req'[r]), UNCHANGED tables,
         req'[r].pc = "failed" \/ req[r].ask.op # "sign_up", Standing', Kept'
  PROVE  IInv'
<1>1. Course'
  BY CourseKept DEF Moves, IInv
<1>2. SignUps'
  BY <1>1, SignUpsStay DEF IInv
<1> QED BY <1>1, <1>2, FamiliesKept

\* A statement of a comment, of a status or of a new row is nothing to the reports.
LEMMA RowStep ==
  ASSUME IInv, NEW r \in Ids, Moves(r), req' \in [Ids -> Handling], InCourse(req'[r]),
         req[r].ask.op \in {"comment", "status", "receive"}, SavesOwn(r), UNCHANGED <<tables, mtime>>,
         status' \in [Rows -> Statuses \cup {Absent}], comments' \in [Rows -> Nat]
  PROVE  IInv'
<1>1. TypeOK'
  BY DEF IInv, TypeOK, tables
<1>2. Course'
  BY CourseKept DEF Moves, IInv
<1>3. Standing'
  BY <1>2, StandingKept DEF IInv
<1>4. /\ req[r].pc \notin {"trim", "stat", "remove"} /\ ~Written(r)'
      /\ req'[r].pc \notin {"trim", "stat", "remove"}
  <2>1. req'[r].ask.op \in {"comment", "status", "receive"}
    BY DEF Moves
  <2> QED BY <2>1 DEF IInv, Course, InCourse, Written, Asked, Ask
<1>5. Kept'
  BY <1>2, <1>4, KeptStays DEF IInv
<1> QED BY <1>1, <1>3, <1>5, OtherStep

\* ServiceRequest.objects.get
LEMMA ReadRowKeeps ==
  ASSUME IInv, NEW r \in Ids, ReadRow(r)
  PROVE  IInv'
<1>1. /\ TypeOK /\ UNCHANGED <<tables, rows, mtime>> /\ req[r] \in Handling
      /\ req[r].pc \in {"comment", "status"}
  BY HandlingFields DEF IInv, ReadRow, At
<1>2. /\ req[r].ask.op \in {"comment", "status"} /\ req[r].ask # NoRequest
      /\ req[r].pc = req[r].ask.op /\ req[r].ask \in Requests
  BY <1>1, HandlingFields DEF IInv, Course, Ask
<1>3. /\ status' \in [Rows -> Statuses \cup {Absent}] /\ comments' \in [Rows -> Nat]
      /\ status' = status
  BY <1>1 DEF TypeOK, rows
<1>4. CASE ~Exists(Ask(r).row)
  <2>1. Go(r, "failed")
    BY <1>4 DEF ReadRow
  <2>2. Moves(r) /\ req' \in [Ids -> Handling] /\ req'[r].pc = "failed" /\ req'[r].ask = req[r].ask
    <3>1. TypeOK /\ r \in Ids /\ req[r].pc \in Busy /\ "failed" \in Busy \cup Over /\ Go(r, "failed")
      BY <1>1, <2>1 DEF Busy, Over
    <3> QED BY <3>1, GoIs
  <2>3. InCourse(req'[r])
    BY <1>2, <2>2 DEF InCourse
  <2>4. SavesOwn(r)
    BY <1>1, <1>2, <1>3, <2>2 DEF SavesOwn, Answered, Ask
  <2> QED BY <1>1, <1>2, <1>3, <2>2, <2>3, <2>4, RowStep
<1>5. CASE Exists(Ask(r).row)
  <2>1. PICK p \in {"add", "store"}, h \in Statuses :
          /\ req' = [req EXCEPT ![r].pc = p, ![r].held = h]
          /\ Ask(r).op = "comment" => p = "add" /\ h = status[Ask(r).row]
          /\ Ask(r).op = "status" => p = "store" /\ h = Ask(r).to
    <3>1. CASE Ask(r).op = "comment"
      <4>1. status[Ask(r).row] \in Statuses
        BY <1>1, <1>5 DEF TypeOK, Exists
      <4>2. req' = [req EXCEPT ![r].pc = "add", ![r].held = status[Ask(r).row]]
        BY <1>5, <3>1 DEF ReadRow
      <4> QED BY <3>1, <4>1, <4>2
    <3>2. CASE Ask(r).op = "status"
      <4>1. Ask(r).to \in Statuses
        BY <1>2, <3>2, AskFields DEF Ask
      <4>2. req' = [req EXCEPT ![r].pc = "store", ![r].held = Ask(r).to]
        BY <1>5, <3>2 DEF ReadRow
      <4> QED BY <3>2, <4>1, <4>2
    <3> QED BY <1>2, <3>1, <3>2 DEF Ask
  <2>2. req[r].pc \in Busy /\ p \in Busy
    BY <1>1, <2>1 DEF Busy
  <2>3. /\ Moves(r) /\ req' \in [Ids -> Handling] /\ req'[r].pc = p /\ req'[r].held = h
        /\ req'[r].ask = req[r].ask
    <3> DEFINE x == [req[r] EXCEPT !.pc = p, !.held = h]
    <3>1. req' = [req EXCEPT ![r] = x]
      BY <1>1, <2>1 DEF TypeOK
    <3>2. x \in Handling
      BY <1>1, <2>1, <2>2 DEF Handling
    <3>3. x.ask = req[r].ask /\ x.before = req[r].before /\ x.error = req[r].error
          /\ x.pc = p /\ x.held = h
      BY <1>1 DEF Handling
    <3> HIDE DEF x
    <3> QED BY <1>1, <2>2, <3>1, <3>2, <3>3, BecomesIs
  <2>4. Ask(r)' = Ask(r) /\ Target(r)' = Ask(r).row
    BY <1>2, <2>3 DEF Ask, Target
  <2>5. InCourse(req'[r])
    BY <1>2, <2>1, <2>3 DEF InCourse, Ask
  <2>6. SavesOwn(r)
    <3>1. req[r].pc # "store" /\ req'[r].pc \notin {"answered", "failed"}
      BY <1>1, <2>1, <2>3
    <3>2. Ask(r).op = "comment" => req[r].pc = "comment" /\ req'[r].held = status[Ask(r).row]
      BY <1>2, <2>1, <2>3 DEF Ask
    <3>3. Exists(Target(r))'
      BY <1>3, <1>5, <2>4 DEF Exists
    <3>4. Ask(r).op # "receive"
      BY <1>2 DEF Ask
    <3> QED BY <1>3, <3>1, <3>2, <3>3, <3>4 DEF SavesOwn, Answered
  <2> QED BY <1>1, <1>2, <1>3, <2>3, <2>5, <2>6, RowStep
<1> QED BY <1>4, <1>5

\* ServiceRequest.objects.create
LEMMA CreateServiceRequestKeeps ==
  ASSUME IInv, NEW r \in Ids, CreateServiceRequest(r)
  PROVE  IInv'
<1>1. /\ TypeOK /\ UNCHANGED <<tables, comments, mtime>> /\ req[r] \in Handling
      /\ req[r].pc = "receive"
  BY HandlingFields DEF IInv, CreateServiceRequest, At
<1>2. /\ req[r].ask.op = "receive" /\ req[r].ask # NoRequest /\ req[r].number = 0
  BY <1>1 DEF IInv, Course, Ask
<1>3. comments' \in [Rows -> Nat] /\ status \in [Rows -> Statuses \cup {Absent}]
  BY <1>1 DEF TypeOK
<1>4. CASE Go(r, "failed") /\ UNCHANGED status
  <2>1. Moves(r) /\ req' \in [Ids -> Handling] /\ req'[r].pc = "failed" /\ req'[r].ask = req[r].ask
    BY <1>1, <1>4, GoIs DEF Busy, Over, Moves
  <2>2. InCourse(req'[r])
    BY <1>2, <2>1 DEF InCourse
  <2>3. SavesOwn(r)
    BY <1>1, <1>2, <1>4, <2>1 DEF SavesOwn, Answered, Ask
  <2> QED BY <1>1, <1>2, <1>3, <1>4, <2>1, <2>2, <2>3, RowStep
<1>5. CASE \E o \in Rows : /\ ~Exists(o) /\ status' = [status EXCEPT ![o] = "pending"]
                           /\ req' = [req EXCEPT ![r].pc = "store", ![r].number = o,
                                                 ![r].held = "pending"]
  <2>1. PICK o \in Rows : /\ ~Exists(o) /\ status' = [status EXCEPT ![o] = "pending"]
                          /\ req' = [req EXCEPT ![r].pc = "store", ![r].number = o,
                                                ![r].held = "pending"]
    BY <1>5
  <2>2. o \in Nat /\ "pending" \in Statuses /\ "pending" # Absent
    BY MechanicAssumption DEF Statuses, Absent
  <2>3. /\ Moves(r) /\ req' \in [Ids -> Handling] /\ req'[r].pc = "store" /\ req'[r].number = o
        /\ req'[r].ask = req[r].ask
    <3> DEFINE x == [req[r] EXCEPT !.pc = "store", !.number = o, !.held = "pending"]
    <3>1. req' = [req EXCEPT ![r] = x]
      BY <1>1, <2>1 DEF TypeOK
    <3>2. x \in Handling
      BY <1>1, <2>2 DEF Handling, Busy
    <3>3. x.ask = req[r].ask /\ x.before = req[r].before /\ x.error = req[r].error
          /\ x.pc = "store" /\ x.number = o
      BY <1>1 DEF Handling
    <3>4. req[r].pc \in Busy /\ "store" \in Busy
      BY <1>1 DEF Busy
    <3> HIDE DEF x
    <3> QED BY <1>1, <3>1, <3>2, <3>3, <3>4, BecomesIs
  <2>4. InCourse(req'[r])
    BY <1>2, <2>3 DEF InCourse
  <2>5. /\ status' \in [Rows -> Statuses \cup {Absent}] /\ status'[o] = "pending"
        /\ status[o] = Absent /\ \A p \in Rows : p # o => status'[p] = status[p]
    BY <1>3, <2>1, <2>2 DEF Exists
  <2>6. Exists(Target(r))'
    <3>1. Target(r)' = o
      BY <1>2, <2>3 DEF Target, Ask
    <3> QED BY <2>2, <2>5, <3>1 DEF Exists
  <2>7. SavesOwn(r)
    <3>1. \A p \in Rows : status'[p] # status[p] => status[p] = Absent /\ status'[p] # Absent
      BY <2>2, <2>5
    <3> QED BY <1>1, <1>2, <2>3, <2>6, <3>1 DEF SavesOwn, Answered, Ask
  <2> QED BY <1>1, <1>2, <1>3, <2>3, <2>4, <2>5, <2>7, RowStep
<1> QED BY <1>4, <1>5 DEF CreateServiceRequest

\* ServiceComment.objects.create
LEMMA AddCommentKeeps ==
  ASSUME IInv, NEW r \in Ids, AddComment(r)
  PROVE  IInv'
<1>1. TypeOK /\ UNCHANGED <<tables, status, mtime>> /\ req[r].pc = "add" /\ Go(r, "store")
  BY DEF IInv, AddComment, At
<1>2. /\ req[r].ask.op = "comment" /\ req[r].ask # NoRequest /\ Target(r) = Ask(r).row
      /\ Exists(Ask(r).row)
  BY <1>1 DEF IInv, Course, Ask, Standing, Filed, Target
<1>3. status' \in [Rows -> Statuses \cup {Absent}] /\ comments' \in [Rows -> Nat]
  <2>1. /\ Ask(r).row \in Rows /\ comments \in [Rows -> Nat]
        /\ status \in [Rows -> Statuses \cup {Absent}]
    BY <1>1, <1>2 DEF TypeOK, Exists
  <2>2. comments' = [comments EXCEPT ![Ask(r).row] = @ + 1]
    BY DEF AddComment
  <2> QED BY <1>1, <2>1, <2>2
<1>4. /\ Moves(r) /\ req' \in [Ids -> Handling] /\ req'[r].pc = "store"
      /\ req'[r].ask = req[r].ask /\ req'[r].held = req[r].held
  BY <1>1, GoIs DEF Busy, Over, Moves
<1>5. InCourse(req'[r])
  BY <1>2, <1>4 DEF InCourse
<1>6. SavesOwn(r)
  <2>1. Target(r)' = Ask(r).row
    BY <1>2, <1>4 DEF Target, Ask
  <2>2. Exists(Target(r))'
    BY <1>1, <1>2, <2>1 DEF Exists
  <2> QED BY <1>1, <1>2, <1>4, <2>2 DEF SavesOwn, Answered, Ask
<1> QED BY <1>1, <1>2, <1>3, <1>4, <1>5, <1>6, RowStep

\* service_request.save()
LEMMA SaveRowKeeps ==
  ASSUME IInv, NEW r \in Ids, SaveRow(r)
  PROVE  IInv'
<1>1. /\ TypeOK /\ UNCHANGED <<tables, comments, mtime>> /\ req[r].pc = "store"
      /\ Go(r, "answered") /\ req[r].held \in Statuses
  BY HandlingFields DEF IInv, SaveRow, At
<1>2. /\ req[r].ask.op \in {"comment", "status", "receive"} /\ req[r].ask # NoRequest
      /\ Target(r) \in Rows
  BY <1>1 DEF IInv, Course, Ask, Standing, Filed, Exists
<1>3. /\ status' \in [Rows -> Statuses \cup {Absent}] /\ comments' \in [Rows -> Nat]
      /\ status'[Target(r)] = req[r].held
      /\ \A o \in Rows : status'[o] # status[o] => o = Target(r)
  BY <1>1, <1>2 DEF TypeOK, SaveRow
<1>4. /\ Moves(r) /\ req' \in [Ids -> Handling] /\ req'[r].pc = "answered"
      /\ req'[r].ask = req[r].ask /\ req'[r].number = req[r].number
  BY <1>1, GoIs DEF Busy, Over, Moves
<1>5. InCourse(req'[r])
  BY <1>2, <1>4 DEF InCourse
<1>6. SavesOwn(r)
  BY <1>1, <1>3, <1>4 DEF SavesOwn
<1> QED BY <1>1, <1>2, <1>3, <1>4, <1>5, <1>6, RowStep

\* A statement of a report is nothing to the rows and to the tables.
LEMMA ReportStep ==
  ASSUME IInv, NEW r \in Ids, Moves(r), req' \in [Ids -> Handling], InCourse(req'[r]),
         req[r].ask.op = "report", UNCHANGED <<tables, rows>>, mtime' \in [ReportIds -> Nat],
         Course' => Kept'
  PROVE  IInv'
<1>1. TypeOK'
  BY DEF IInv, TypeOK, tables, rows
<1>2. Course'
  BY CourseKept DEF Moves, IInv
<1>3. Standing'
  BY <1>2, StandingStays DEF IInv, rows
<1> QED BY <1>1, <1>2, <1>3, OtherStep

\* GetReportView.get, and the generation of a report
LEMMA GetReportKeeps ==
  ASSUME IInv, NEW r \in Ids, GetReport(r)
  PROVE  IInv'
<1>1. /\ TypeOK /\ UNCHANGED <<tables, rows, mtime>> /\ req[r].pc = "report"
      /\ \E p \in {"write", "refused"} : Go(r, p)
  BY DEF IInv, GetReport, At
<1>2. PICK p \in {"write", "refused"} : Go(r, p)
  BY <1>1
<1>3. req[r].ask.op = "report" /\ req[r].ask # NoRequest
  BY <1>1 DEF IInv, Course, Ask
<1>4. /\ Moves(r) /\ req' \in [Ids -> Handling] /\ req'[r].pc = p
      /\ req'[r].ask = req[r].ask
  BY <1>1, <1>2, GoIs DEF Busy, Over, Moves
<1>5. InCourse(req'[r])
  BY <1>2, <1>3, <1>4 DEF InCourse, Ask
<1>6. ~Written(r)'
  BY <1>2, <1>4 DEF Written
<1>7. Course' => Kept'
  BY <1>1, <1>2, <1>4, <1>6, KeptStays DEF IInv
<1>8. mtime' \in [ReportIds -> Nat]
  BY <1>1 DEF TypeOK
<1> QED BY <1>1, <1>3, <1>4, <1>5, <1>7, <1>8, ReportStep

\* the file of the report
LEMMA WriteReportKeeps ==
  ASSUME IInv, NEW r \in Ids, WriteReport(r)
  PROVE  IInv'
<1>1. TypeOK /\ UNCHANGED <<tables, rows>> /\ req[r].pc = "write" /\ Go(r, "trim")
  BY DEF IInv, WriteReport, At
<1>2. req[r].ask.op = "report" /\ req[r].ask # NoRequest /\ Ask(r).report \in ReportIds
  BY <1>1, HandlingFields, AskFields DEF IInv, Course, Ask
<1>3. /\ Moves(r) /\ req' \in [Ids -> Handling] /\ req'[r].pc = "trim"
      /\ req'[r].ask = req[r].ask
  BY <1>1, GoIs DEF Busy, Over, Moves
<1>4. InCourse(req'[r])
  BY <1>2, <1>3 DEF InCourse
<1>5. PICK now \in Next1({mtime[f] : f \in ReportIds}) : mtime' = [mtime EXCEPT ![Ask(r).report] = now]
  BY DEF WriteReport
<1>6. mtime' \in [ReportIds -> Nat]
  <2>1. mtime \in [ReportIds -> Nat] /\ {mtime[f] : f \in ReportIds} \in SUBSET Nat
    BY <1>1 DEF TypeOK
  <2>2. now \in Nat
    BY <2>1, NextIsLarger
  <2> QED BY <1>5, <2>1, <2>2
<1>7. Kept'
  BY <1>1, <1>2, <1>3, <1>5, KeptByWrite DEF IInv
<1> QED BY <1>1, <1>2, <1>3, <1>4, <1>6, <1>7, ReportStep

\* manage_reports_directory lists the files,
LEMMA ListFilesKeeps ==
  ASSUME IInv, NEW r \in Ids, ListFiles(r)
  PROVE  IInv'
<1>1. /\ TypeOK /\ UNCHANGED <<tables, rows, mtime>> /\ req[r].pc = "trim"
      /\ req[r] \in Handling
  BY HandlingFields DEF IInv, ListFiles, At
<1>2. req[r].ask.op = "report" /\ req[r].ask # NoRequest
  BY <1>1 DEF IInv, Course, Ask
<1>3. mtime' \in [ReportIds -> Nat]
  BY <1>1 DEF TypeOK
<1>4. CASE Cardinality(Files) < FilesLimit
  <2>1. Go(r, "answered")
    BY <1>4 DEF ListFiles
  <2>2. /\ Moves(r) /\ req' \in [Ids -> Handling] /\ req'[r].pc = "answered"
        /\ req'[r].ask = req[r].ask
    BY <1>1, <2>1, GoIs DEF Busy, Over, Moves
  <2>3. InCourse(req'[r])
    BY <1>2, <2>2 DEF InCourse
  <2>4. Written(r)
    BY <1>1, <1>2 DEF Written, Asked, Ask
  <2>5. Course' => Kept'
    BY <1>1, <1>4, <2>2, <2>4, KeptStays DEF IInv
  <2> QED BY <1>1, <1>2, <1>3, <2>2, <2>3, <2>5, ReportStep
<1>5. CASE ~(Cardinality(Files) < FilesLimit)
  <2>1. req' = [req EXCEPT ![r].pc = "stat", ![r].listed = Files, ![r].oldest = NoReport]
    BY <1>5 DEF ListFiles
  <2>2. Files \in SUBSET ReportIds /\ Cardinality(Files) >= FilesLimit
    BY <1>1, <1>5, FilesFinite DEF Files
  <2>3. /\ Moves(r) /\ req' \in [Ids -> Handling] /\ req'[r].pc = "stat"
        /\ req'[r].listed = Files /\ req'[r].oldest = NoReport /\ req'[r].ask = req[r].ask
    <3> DEFINE x == [req[r] EXCEPT !.pc = "stat", !.listed = Files, !.oldest = NoReport]
    <3>1. req' = [req EXCEPT ![r] = x]
      BY <1>1, <2>1 DEF TypeOK
    <3>2. x \in Handling
      BY <1>1, <2>2 DEF Handling, Busy
    <3>3. x.ask = req[r].ask /\ x.before = req[r].before /\ x.error = req[r].error
          /\ x.pc = "stat" /\ x.listed = Files /\ x.oldest = NoReport
      BY <1>1 DEF Handling
    <3>4. req[r].pc \in Busy /\ "stat" \in Busy
      BY <1>1 DEF Busy
    <3> HIDE DEF x
    <3> QED BY <1>1, <3>1, <3>2, <3>3, <3>4, BecomesIs
  <2>4. InCourse(req'[r])
    BY <1>2, <2>3 DEF InCourse
  <2>5. Chooses(r)'
    <3>1. Files' = Files
      BY <1>1 DEF Files
    <3> QED BY <2>2, <2>3, <3>1 DEF Chooses
  <2>6. Kept'
    BY <1>1, <2>3, <2>5, KeptByLooking DEF IInv
  <2> QED BY <1>1, <1>2, <1>3, <2>3, <2>4, <2>6, ReportStep
<1> QED BY <1>4, <1>5

\* looks at one after the other,
LEMMA StatFileKeeps ==
  ASSUME IInv, NEW r \in Ids, StatFile(r)
  PROVE  IInv'
<1>1. /\ TypeOK /\ UNCHANGED <<tables, rows, mtime>> /\ req[r].pc = "stat"
      /\ req[r] \in Handling /\ mtime \in [ReportIds -> Nat]
  BY HandlingFields DEF IInv, StatFile, At, TypeOK
<1>2. req[r].ask.op = "report" /\ req[r].ask # NoRequest
  BY <1>1 DEF IInv, Course, Ask
<1>3. mtime' \in [ReportIds -> Nat]
  BY <1>1
<1>4. PICK f \in req[r].listed :
        LET older == f \in Files /\ (req[r].oldest = NoReport \/ mtime[f] < req[r].age)
        IN  req' = [req EXCEPT ![r].listed = @ \ {f},
                               ![r].oldest = IF older THEN f ELSE @,
                               ![r].age = IF older THEN mtime[f] ELSE @]
  BY DEF StatFile
<1> DEFINE older == f \in Files /\ (req[r].oldest = NoReport \/ mtime[f] < req[r].age)
           o == IF older THEN f ELSE req[r].oldest
           a == IF older THEN mtime[f] ELSE req[r].age
           x == [req[r] EXCEPT !.listed = @ \ {f}, !.oldest = o, !.age = a]
<1>5. req' = [req EXCEPT ![r] = x]
  BY <1>1, <1>4 DEF TypeOK
<1>6. f \in ReportIds /\ o \in ReportIds \cup {NoReport} /\ a \in Nat
  BY <1>1, HandlingFields
<1>7. x \in Handling
  <2> HIDE DEF o, a
  <2> QED BY <1>1, <1>6 DEF Handling
<1>8. /\ x.ask = req[r].ask /\ x.before = req[r].before /\ x.error = req[r].error
      /\ x.pc = "stat" /\ x.listed = req[r].listed \ {f} /\ x.oldest = o /\ x.age = a
  <2> HIDE DEF o, a
  <2> QED BY <1>1 DEF Handling
<1> HIDE DEF x
<1>9. /\ Moves(r) /\ req' \in [Ids -> Handling] /\ req'[r].pc = "stat"
      /\ req'[r].listed = req[r].listed \ {f} /\ req'[r].oldest = o /\ req'[r].age = a
      /\ req'[r].ask = req[r].ask
  <2> HIDE DEF o, a
  <2>1. req[r].pc \in Busy /\ "stat" \in Busy
    BY <1>1 DEF Busy
  <2> QED BY <1>1, <1>5, <1>7, <1>8, <2>1, BecomesIs
<1>10. InCourse(req'[r])
  BY <1>2, <1>9 DEF InCourse
<1>11. ASSUME Alone(r) PROVE Chooses(r)'
  <2>1. Chooses(r) /\ Files' = Files
    BY <1>1, <1>11 DEF IInv, Kept, Choosing, Files
  <2>2. /\ Cardinality(Files) >= FilesLimit /\ req[r].listed \subseteq Files /\ f \in Files
        /\ req[r].oldest = NoReport => req[r].listed = Files
        /\ req[r].oldest # NoReport =>
             /\ req[r].oldest \in Files /\ req[r].age = mtime[req[r].oldest]
             /\ \A g \in Files \ req[r].listed : req[r].age <= mtime[g]
    BY <2>1 DEF Chooses
  <2>3. o # NoReport /\ o \in Files /\ a = mtime[o]
    BY <1>6, <2>2, MechanicAssumption
  <2>4. ASSUME NEW g \in Files \ (req[r].listed \ {f}) PROVE a <= mtime[g]
    <3>1. mtime[g] \in Nat /\ mtime[f] \in Nat /\ req[r].age \in Nat
      BY <1>1, <1>6, HandlingFields DEF Files
    <3>2. CASE g = f
      BY <2>2, <3>1, <3>2
    <3>3. CASE g # f
      <4>1. req[r].oldest # NoReport /\ req[r].age <= mtime[g]
        BY <2>2, <2>4, <3>3
      <4> QED BY <3>1, <4>1
    <3> QED BY <3>2, <3>3
  <2> HIDE DEF o, a
  <2>5. req'[r].listed \subseteq Files /\ req'[r].pc # "remove"
    BY <1>9, <2>2
  <2> QED BY <1>1, <1>9, <2>1, <2>2, <2>3, <2>4, <2>5 DEF Chooses
<1>12. Kept'
  BY <1>1, <1>9, <1>11, KeptByLooking DEF IInv
<1> QED BY <1>1, <1>2, <1>3, <1>9, <1>10, <1>12, ReportStep

\* takes the oldest, if there is one left,
LEMMA FindOldestKeeps ==
  ASSUME IInv, NEW r \in Ids, FindOldest(r)
  PROVE  IInv'
<1>1. /\ TypeOK /\ UNCHANGED <<tables, rows, mtime>> /\ req[r].pc = "stat"
      /\ req[r] \in Handling /\ req[r].listed = {}
  BY HandlingFields DEF IInv, FindOldest, At
<1>2. req[r].ask.op = "report" /\ req[r].ask # NoRequest
  BY <1>1 DEF IInv, Course, Ask
<1>3. mtime' \in [ReportIds -> Nat] /\ Files' = Files
  BY <1>1 DEF TypeOK, Files
<1>4. Written(r)
  BY <1>1, <1>2 DEF Written, Asked, Ask
<1>5. CASE req[r].oldest = NoReport
  <2>1. Go(r, "answered")
    BY <1>5 DEF FindOldest
  <2>2. /\ Moves(r) /\ req' \in [Ids -> Handling] /\ req'[r].pc = "answered"
        /\ req'[r].ask = req[r].ask
    BY <1>1, <2>1, GoIs DEF Busy, Over, Moves
  <2>3. InCourse(req'[r])
    BY <1>2, <2>2 DEF InCourse
  <2>4. ~Alone(r)
    <3> SUFFICES ASSUME Alone(r) PROVE FALSE
      OBVIOUS
    <3>1. Files = {} /\ Cardinality(Files) >= FilesLimit
      BY <1>1, <1>5 DEF IInv, Kept, Choosing, Chooses
    <3> QED BY <3>1, FS_EmptySet, MechanicAssumption
  <2>5. ~InTurn'
    <3>1. Asked(r, "report")' /\ ~Alone(r)'
      BY <1>1, <1>4, <2>2, <2>4, ReportsSame, MovesKeep DEF Written
    <3> QED BY <3>1 DEF InTurn
  <2>6. Course' => Kept'
    BY <1>1, <1>4, <2>2, <2>5, KeptStays DEF IInv
  <2> QED BY <1>1, <1>2, <1>3, <2>2, <2>3, <2>6, ReportStep
<1>6. CASE req[r].oldest # NoReport
  <2>1. Go(r, "remove")
    BY <1>6 DEF FindOldest
  <2>2. /\ Moves(r) /\ req' \in [Ids -> Handling] /\ req'[r].pc = "remove"
        /\ req'[r].ask = req[r].ask /\ req'[r].listed = req[r].listed
        /\ req'[r].oldest = req[r].oldest /\ req'[r].age = req[r].age
    BY <1>1, <2>1, GoIs DEF Busy, Over, Moves
  <2>3. InCourse(req'[r])
    BY <1>1, <1>2, <1>6, <2>2, HandlingFields DEF InCourse
  <2>4. ASSUME Alone(r) PROVE Chooses(r)'
    <3>1. Chooses(r)
      BY <1>1, <2>4 DEF IInv, Kept, Choosing
    <3> QED BY <1>1, <1>3, <2>2, <3>1 DEF Chooses
  <2>5. Kept'
    BY <1>1, <2>2, <2>4, KeptByLooking DEF IInv
  <2> QED BY <1>1, <1>2, <1>3, <2>2, <2>3, <2>5, ReportStep
<1> QED BY <1>5, <1>6

\* and removes it;
LEMMA RemoveOldestKeeps ==
  ASSUME IInv, NEW r \in Ids, RemoveOldest(r)
  PROVE  IInv'
<1>1. /\ TypeOK /\ UNCHANGED <<tables, rows>> /\ req[r].pc = "remove" /\ Go(r, "answered")
      /\ mtime' = [mtime EXCEPT ![req[r].oldest] = 0]
  BY DEF IInv, RemoveOldest, At
<1>2. req[r].ask.op = "report" /\ req[r].ask # NoRequest
  BY <1>1 DEF IInv, Course, Ask
<1>3. /\ Moves(r) /\ req' \in [Ids -> Handling] /\ req'[r].pc = "answered"
      /\ req'[r].ask = req[r].ask
  BY <1>1, GoIs DEF Busy, Over, Moves
<1>4. InCourse(req'[r])
  BY <1>2, <1>3 DEF InCourse
<1>5. mtime' \in [ReportIds -> Nat]
  BY <1>1 DEF TypeOK
<1>6. Kept'
  BY <1>1, <1>3, KeptByRemoval DEF IInv
<1> QED BY <1>1, <1>2, <1>3, <1>4, <1>5, <1>6, ReportStep

\* or gives up.
LEMMA TrimFailsKeeps ==
  ASSUME IInv, NEW r \in Ids, TrimFails(r)
  PROVE  IInv'
<1>1. /\ TypeOK /\ UNCHANGED <<tables, rows, mtime>> /\ req[r].pc \in {"trim", "stat", "remove"}
      /\ req[r] \in Handling
  BY HandlingFields DEF IInv, TrimFails
<1>2. req[r].ask.op = "report" /\ req[r].ask # NoRequest
  BY <1>1 DEF IInv, Course, Ask
<1>3. mtime' \in [ReportIds -> Nat]
  BY <1>1 DEF TypeOK
<1>4. Written(r)
  BY <1>1, <1>2 DEF Written, Asked, Ask
<1>5. /\ Moves(r) /\ req' \in [Ids -> Handling] /\ req'[r].pc = "answered" /\ req'[r].error
      /\ req'[r].ask = req[r].ask
  <2> DEFINE x == [req[r] EXCEPT !.pc = "answered", !.error = TRUE]
  <2>1. req' = [req EXCEPT ![r] = x]
    BY <1>1 DEF TypeOK, TrimFails
  <2>2. x \in Handling
    BY <1>1 DEF Handling, Over
  <2>3. x.ask = req[r].ask /\ x.before = req[r].before /\ x.error = TRUE /\ x.pc = "answered"
    BY <1>1 DEF Handling
  <2>4. req[r].pc \in Busy /\ "answered" \in Over
    BY <1>1 DEF Busy, Over
  <2> HIDE DEF x
  <2> QED BY <1>1, <2>1, <2>2, <2>3, <2>4, BecomesIs
<1>6. InCourse(req'[r])
  BY <1>2, <1>5 DEF InCourse
<1>7. ~InTurn'
  <2>1. Asked(r, "report")'
    BY <1>4, MovesKeep, <1>1, <1>5 DEF Written
  <2> QED BY <1>5, <2>1 DEF InTurn
<1>8. Course' => Kept'
  BY <1>1, <1>4, <1>5, <1>7, KeptStays DEF IInv
<1> QED BY <1>1, <1>2, <1>3, <1>5, <1>6, <1>8, ReportStep

\* A handler that breaks off leaves everything as it is.
LEMMA FailKeeps ==
  ASSUME IInv, NEW r \in Ids, Fail(r)
  PROVE  IInv'
<1>1. TypeOK /\ UNCHANGED <<tables, rows, mtime>> /\ req[r].pc \in Busy /\ Go(r, "failed")
  BY DEF IInv, Fail
<1>2. /\ Moves(r) /\ req' \in [Ids -> Handling] /\ req'[r].pc = "failed"
      /\ req'[r].ask = req[r].ask /\ req'[r].number = req[r].number
  BY <1>1, GoIs DEF Over, Moves
<1>3. req[r].ask # NoRequest
  BY <1>1 DEF IInv, Course, Ask, Busy
<1>4. InCourse(req'[r])
  BY <1>2, <1>3 DEF InCourse
<1>5. TypeOK'
  BY <1>1, <1>2 DEF TypeOK, tables, rows
<1>6. Course'
  BY <1>2, <1>4, CourseKept DEF Moves, IInv
<1>7. Standing'
  BY <1>1, <1>2, <1>6, StandingStays DEF IInv, rows
<1>8. ~Written(r)'
  BY <1>2 DEF Written
<1>9. req[r].pc \in {"trim", "stat", "remove"} => ~InTurn'
  <2> SUFFICES ASSUME req[r].pc \in {"trim", "stat", "remove"} PROVE ~InTurn'
    OBVIOUS
  <2>1. Asked(r, "report")'
    BY <1>2 DEF IInv, Course, Asked, Ask
  <2> QED BY <1>2, <2>1 DEF InTurn
<1>10. Kept'
  BY <1>1, <1>2, <1>6, <1>8, <1>9, KeptStays DEF IInv
<1> QED BY <1>1, <1>2, <1>4, <1>5, <1>7, <1>10, OtherStep

------------------------------------------------------------------------------
\* Every step keeps the inductive invariant.
LEMMA NextIInv == IInv /\ [Next]_vars => IInv'
<1> SUFFICES ASSUME IInv, [Next]_vars PROVE IInv'
  OBVIOUS
<1>1. CASE UNCHANGED vars
  <2>1. UNCHANGED <<users, mechanics, details, status, comments, mtime, req>>
    BY <1>1 DEF vars
  <2>2. (TypeOK' <=> TypeOK) /\ (Course' <=> Course) /\ (Arrivals' <=> Arrivals)
    BY <2>1 DEF TypeOK, Course, Arrivals, Ask
  <2>3. SignUps' <=> SignUps
    BY <2>1 DEF SignUps, SigningUp, Keyed, Told, Entered, Coded, Asked, Answered, Ask
  <2>4. Standing' <=> Standing
    BY <2>1 DEF Standing, StatusKept, StatusHeld, Filed, Exists, Target, Stands, Precedes,
                Asked, Answered, Ask
  <2>5. Files' = Files /\ (\A q : Alone(q)' <=> Alone(q)) /\ (\A q : Later(q)' = Later(q))
    BY <2>1 DEF Files, Later, Alone, Precedes, Asked, Ask
  <2>6. /\ \A q : Since(q)' = Since(q)
        /\ \A q : InTurnSince(q)' <=> InTurnSince(q)
        /\ \A q : Chooses(q)' <=> Chooses(q)
    BY <2>1, <2>5 DEF Since, InTurnSince, Chooses, Ask
  <2>7. (Choosing' <=> Choosing) /\ (Aging' <=> Aging) /\ (Tidy' <=> Tidy)
    BY <2>1, <2>5, <2>6 DEF Choosing, Aging, Tidy, InTurn, Written, Asked, Ask
  <2> QED BY <2>2, <2>3, <2>4, <2>7 DEF IInv, Kept
<1>2. CASE Next
  <2>1. PICK r \in Ids :
          \/ Arrive(r)
          \/ SignUp(r) \/ NextUserId(r) \/ CreateUser(r) \/ CreateMechanic(r)
          \/ NextDetailsId(r) \/ CreateDetails(r)
          \/ ReadRow(r) \/ AddComment(r) \/ CreateServiceRequest(r) \/ SaveRow(r)
          \/ GetReport(r) \/ WriteReport(r) \/ ListFiles(r) \/ StatFile(r)
          \/ FindOldest(r) \/ RemoveOldest(r) \/ TrimFails(r)
          \/ Fail(r)
    BY <1>2 DEF Next
  <2>2. CASE Arrive(r)
    BY <2>2, ArriveKeeps
  <2>3. CASE SignUp(r) \/ NextUserId(r) \/ CreateUser(r) \/ CreateMechanic(r)
             \/ NextDetailsId(r) \/ CreateDetails(r)
    BY <2>3, SignUpKeeps, NextIdKeeps, CreateUserKeeps, CreateMechanicKeeps, CreateDetailsKeeps
  <2>4. CASE ReadRow(r) \/ AddComment(r) \/ CreateServiceRequest(r) \/ SaveRow(r)
    BY <2>4, ReadRowKeeps, AddCommentKeeps, CreateServiceRequestKeeps, SaveRowKeeps
  <2>5. CASE GetReport(r) \/ WriteReport(r) \/ ListFiles(r) \/ StatFile(r)
             \/ FindOldest(r) \/ RemoveOldest(r) \/ TrimFails(r)
    BY <2>5, GetReportKeeps, WriteReportKeeps, ListFilesKeeps, StatFileKeeps,
       FindOldestKeeps, RemoveOldestKeeps, TrimFailsKeeps
  <2>6. CASE Fail(r)
    BY <2>6, FailKeeps
  <2> QED BY <2>1, <2>2, <2>3, <2>4, <2>5, <2>6
<1> QED BY <1>1, <1>2

\* Every state satisfies the inductive invariant.
LEMMA InvariantIInv == Spec => []IInv
<1> QED BY InitIInv, NextIInv, PTL DEF Spec

\* Whoever was told so is a mechanic, with an address and a code that nobody else was
\* given, and half a mechanic is what a failed sign-up leaves, however sign-ups overlap
\* and wherever they break off (SignUpView.post): with all that leads to the promises
\* of the other handlers.
THEOREM MechanicInvariance == Spec => []Inv
<1>1. IInv => Inv
  BY SignedUpFollows DEF IInv, Inv, SignUps, Standing, Kept
<1> QED BY <1>1, InvariantIInv, PTL

\* A status that was answered stays, until another status request, or a save that
\* overlapped, of a comment or of the handler that received the row (ServiceRequestView.put,
\* ServiceCommentView.post, ReceiveReportView.get).
THEOREM StatusStays == Spec => []StatusKept
<1>1. IInv => StatusKept
  BY DEF IInv, Standing
<1> QED BY <1>1, InvariantIInv, PTL

\* The directory of reports stays within its limit while requests for reports neither
\* overlap nor break off; and, whatever earlier ones left behind, it keeps a report that
\* was answered until as many have been asked for as fill it (GetReportView.get,
\* manage_reports_directory).
THEOREM ReportsAreKept == Spec => []ReportsKept
<1>1. ASSUME IInv PROVE DirectoryBounded
  <2> SUFFICES ASSUME InTurn PROVE Cardinality(Files) <= FilesLimit
    BY DEF DirectoryBounded
  <2> QED BY <1>1 DEF IInv, Kept, Tidy
<1>2. ASSUME IInv PROVE ReportOnDisk
  <2>1. \A r \in Ids : Answered(r, "report") => Written(r)
    BY DEF Answered, Written, Asked
  <2> QED BY <1>2, <2>1 DEF ReportOnDisk, IInv, Kept, Aging
<1>3. IInv => ReportsKept
  BY <1>1, <1>2 DEF ReportsKept
<1> QED BY <1>3, InvariantIInv, PTL

------------------------------------------------------------------------------
(* ContactMechanic.  A job is in one place, and where the jobs of a call    *)
(* are says how far it has come.                                           *)
Queued(job) == \E k \in 1..Len(queue) : queue[k] = job

JobsOnce ==
  /\ \A j, k \in 1..Len(queue) : queue[j] = queue[k] => j = k
  /\ \A k \in 1..Len(queue) : queue[k] \notin running

JobsInPlace ==
  \A c \in Calls :
    /\ Queued(<<"contact", c>>) => pc[c] = "queued"
    /\ <<"contact", c>> \in running => pc[c] \in {"auth", "start", "loop", "waiting"}
    /\ Queued(<<"report", c>>) \/ <<"report", c>> \in running \/ <<"answer", c>> \in running =>
         pc[c] = "waiting" /\ reply[c] = "none" /\ ask[c].to = "own"
    /\ ~Queued(<<"answer", c>>)
    /\ <<"answer", c>> \in running => ~Queued(<<"report", c>>) /\ <<"report", c>> \notin running
    /\ reply[c] # "none" => pc[c] = "waiting"

\* what was sent for a call, and what was filed for it
Attempts(c) ==
  /\ pc[c] \in {"idle", "queued", "auth", "start", "refused"} => sent[c] = 0 /\ count[c] = 0
  /\ pc[c] \notin {"idle", "queued", "auth", "start", "refused"} =>
       IF ask[c].repeat THEN ask[c].repeats \in 1..MaxRepeats /\ count[c] <= ask[c].repeats
       ELSE count[c] = 0
  /\ sent[c] <= count[c] + 1
  /\ pc[c] = "loop" => sent[c] <= count[c]

OwnSaidOk(c) == ask[c].to = "own" /\ (pc[c] = "ok" \/ (pc[c] = "waiting" /\ reply[c] = "ok"))
Filing(c) ==
  filed[c] = IF OwnSaidOk(c) \/ <<"answer", c>> \in running THEN missed[c] + 1 ELSE missed[c]

ContactIInv ==
  /\ ContactTypes /\ IsFiniteSet(running)
  /\ JobsOnce /\ JobsInPlace
  /\ \A c \in Calls : Attempts(c) /\ Filing(c)

\* The fields of a call.
LEMMA AskingFields ==
  ASSUME NEW c \in Calls
  PROVE  /\ ask[c].repeat \in BOOLEAN /\ ask[c].repeats \in Int
         /\ ask[c].to \in {"own", "elsewhere", "malformed"} /\ ask[c].known \in BOOLEAN
  BY ContactAssumption DEF Asking

\* What the invariant of the calls says of them.
LEMMA ContactInvFollows == ContactIInv => ContactInv
<1> SUFFICES ASSUME ContactIInv, NEW c \in Calls
             PROVE  /\ sent[c] <= IF ~ask[c].repeat THEN 1
                                  ELSE IF ask[c].repeats \in 1..MaxRepeats THEN ask[c].repeats + 1
                                  ELSE 0
                    /\ filed[c] <= missed[c] + 1
                    /\ pc[c] = "ok" /\ ask[c].to = "own" => filed[c] = missed[c] + 1
                    /\ pc[c] \in {"refused", "not_ok", "no_connection"} => filed[c] = missed[c]
  BY DEF ContactIInv, ContactInv, AttemptsBounded, FiledOncePerAnswer
<1>1. /\ sent[c] \in Nat /\ count[c] \in Nat /\ filed[c] \in Nat /\ missed[c] \in Nat
      /\ MaxRepeats \in Nat
  BY ContactAssumption DEF ContactIInv, ContactTypes
<1>2. Attempts(c) /\ Filing(c)
  BY DEF ContactIInv
<1>3. sent[c] <= IF ~ask[c].repeat THEN 1
                 ELSE IF ask[c].repeats \in 1..MaxRepeats THEN ask[c].repeats + 1 ELSE 0
  BY <1>1, <1>2, AskingFields DEF Attempts
<1>4. /\ filed[c] <= missed[c] + 1
      /\ pc[c] = "ok" /\ ask[c].to = "own" => filed[c] = missed[c] + 1
      /\ pc[c] \in {"refused", "not_ok", "no_connection"} => filed[c] = missed[c]
  <2>1. pc[c] \in {"refused", "ok", "not_ok", "no_connection"} => <<"answer", c>> \notin running
    BY DEF ContactIInv, JobsInPlace
  <2>2. filed[c] = missed[c] \/ filed[c] = missed[c] + 1
    BY <1>2 DEF Filing
  <2> QED BY <1>1, <1>2, <2>1, <2>2 DEF Filing, OwnSaidOk
<1> QED BY <1>3, <1>4

\* No call has been made yet.
LEMMA ContactStarts == ContactInit => ContactIInv
<1> SUFFICES ASSUME ContactInit PROVE ContactIInv
  OBVIOUS
<1>1. ContactTypes /\ IsFiniteSet(running)
  BY FS_EmptySet, ContactAssumption DEF ContactInit, ContactTypes, Ended, Replies
<1>2. JobsOnce /\ JobsInPlace
  BY DEF ContactInit, JobsOnce, JobsInPlace, Queued
<1>3. \A c \in Calls : Attempts(c) /\ Filing(c)
  BY DEF ContactInit, Attempts, Filing, OwnSaidOk
<1> QED BY <1>1, <1>2, <1>3 DEF ContactIInv

\* A step of the call c, which leaves what others sent and filed.
LEMMA OthersStay ==
  ASSUME ContactIInv, NEW c \in Calls,
         \A d \in Calls \ {c} :
           /\ pc'[d] = pc[d] /\ count'[d] = count[d] /\ reply'[d] = reply[d]
           /\ filed'[d] = filed[d] /\ sent'[d] = sent[d] /\ missed'[d] = missed[d]
           /\ <<"answer", d>> \in running' <=> <<"answer", d>> \in running
  PROVE  \A d \in Calls \ {c} : Attempts(d)' /\ Filing(d)'
<1> SUFFICES ASSUME NEW d \in Calls \ {c} PROVE Attempts(d)' /\ Filing(d)'
  OBVIOUS
<1>1. /\ pc'[d] = pc[d] /\ count'[d] = count[d] /\ reply'[d] = reply[d]
      /\ filed'[d] = filed[d] /\ sent'[d] = sent[d] /\ missed'[d] = missed[d]
      /\ Attempts(d) /\ Filing(d)
  BY DEF ContactIInv
<1>2. <<"answer", d>> \in running' <=> <<"answer", d>> \in running
  OBVIOUS
<1> QED BY <1>1, <1>2 DEF Attempts, Filing, OwnSaidOk

\* A call arrives in the queue of the server, where none of its jobs was.
LEMMA CallKeeps ==
  ASSUME ContactIInv, NEW c \in Calls, Call(c)
  PROVE  ContactIInv'
<1> USE DEF Call, Goto
<1> DEFINE job == <<"contact", c>>
<1>1. ContactTypes /\ job \in Job /\ queue \in Seq(Job) /\ running \subseteq Job
  BY DEF ContactIInv, ContactTypes, Job
<1>2. ContactTypes' /\ IsFiniteSet(running)'
  BY <1>1 DEF ContactIInv, ContactTypes, Ended
<1>3. /\ Len(queue') = Len(queue) + 1 /\ Len(queue) \in Nat
      /\ \A k \in 1..Len(queue) : queue'[k] = queue[k]
      /\ queue'[Len(queue) + 1] = job
  BY <1>1
<1>4. ~Queued(job) /\ job \notin running
  BY <1>1 DEF ContactIInv, JobsInPlace
<1>5. JobsOnce'
  <2>1. /\ \A k \in 1..Len(queue) : queue[k] # job /\ queue[k] \notin running
        /\ \A j, k \in 1..Len(queue) : queue[j] = queue[k] => j = k
    BY <1>4 DEF ContactIInv, JobsOnce, Queued
  <2>2. running' = running
    OBVIOUS
  <2>3. \A k \in 1..Len(queue') : k \in 1..Len(queue) \/ k = Len(queue) + 1
    BY <1>3
  <2> HIDE DEF job, Call
  <2>4. \A j, k \in 1..Len(queue') : queue'[j] = queue'[k] => j = k
    BY <1>3, <2>1, <2>3
  <2>5. \A k \in 1..Len(queue') : queue'[k] \notin running'
    BY <1>3, <1>4, <2>1, <2>2, <2>3
  <2> QED BY <2>4, <2>5 DEF JobsOnce
<1>6. \A j : Queued(j)' => Queued(j) \/ j = job
  BY <1>3 DEF Queued
<1>7. JobsInPlace'
  BY <1>1, <1>4, <1>6 DEF ContactIInv, JobsInPlace, ContactTypes
<1>8. Attempts(c)' /\ Filing(c)'
  BY <1>1 DEF ContactIInv, Attempts, Filing, OwnSaidOk, ContactTypes
<1>9. \A d \in Calls \ {c} : Attempts(d)' /\ Filing(d)'
  BY <1>1, OthersStay DEF ContactTypes
<1> QED BY <1>2, <1>5, <1>7, <1>8, <1>9 DEF ContactIInv

\* A thread takes the first job, which was nowhere else.
LEMMA TakeKeeps ==
  ASSUME ContactIInv, Take
  PROVE  ContactIInv'
<1> DEFINE job == Head(queue)
<1>1. ContactTypes /\ queue \in Seq(Job) /\ running \subseteq Job
  BY DEF ContactIInv, ContactTypes
<1>2. /\ queue # <<>> /\ Cardinality(running) < Threads
      /\ queue' = Tail(queue) /\ running' = running \cup {job}
      /\ IF job[1] = "contact" THEN pc' = [pc EXCEPT ![job[2]] = "auth"] ELSE UNCHANGED pc
      /\ UNCHANGED <<count, reply, filed, sent, missed>>
  BY DEF Take, Goto
<1>3. /\ Len(queue) \in Nat \ {0} /\ Len(queue') = Len(queue) - 1
      /\ \A k \in 1..Len(queue') : k + 1 \in 1..Len(queue) /\ queue'[k] = queue[k + 1]
      /\ 1 \in 1..Len(queue) /\ job = queue[1] /\ job \in Job
  BY <1>1, <1>2
<1>4. job \notin running /\ Queued(job)
  BY <1>3 DEF ContactIInv, JobsOnce, Queued
<1>5. PICK c \in Calls : job \in {<<"contact", c>>, <<"report", c>>}
  <2>1. PICK c \in Calls : job \in {<<"contact", c>>, <<"report", c>>, <<"answer", c>>}
    BY <1>3 DEF Job
  <2>2. job # <<"answer", c>>
    BY <1>4 DEF ContactIInv, JobsInPlace
  <2> QED BY <2>1, <2>2
<1> HIDE DEF job
<1>6. /\ job = <<"contact", c>> => pc[c] = "queued" /\ pc' = [pc EXCEPT ![c] = "auth"]
      /\ job = <<"report", c>> => UNCHANGED pc
  <2>1. CASE job = <<"contact", c>>
    <3>1. job[1] = "contact" /\ job[2] = c /\ "contact" # "report"
      BY <2>1
    <3>2. pc[c] = "queued"
      BY <1>4, <2>1 DEF ContactIInv, JobsInPlace
    <3> QED BY <1>2, <2>1, <3>1, <3>2
  <2>2. CASE job = <<"report", c>>
    <3>1. job[1] = "report"
      BY <2>2
    <3> QED BY <1>2, <2>2, <3>1
  <2> QED BY <1>5, <2>1, <2>2
<1>7. IsFiniteSet(running') /\ Cardinality(running') <= Threads
  <2>1. IsFiniteSet(running) /\ Threads \in Nat /\ Cardinality(running) \in Nat
    BY FS_CardinalityType, ContactAssumption DEF ContactIInv
  <2>2. IsFiniteSet(running \cup {job}) /\ Cardinality(running \cup {job}) = Cardinality(running) + 1
    BY <1>4, <2>1, FS_AddElement
  <2> QED BY <1>2, <2>1, <2>2
<1>8. queue' \in Seq(Job) /\ pc' \in [Calls -> {"idle", "queued", "auth", "start", "loop", "waiting"} \cup Ended]
  <2>1. queue' \in Seq(Job)
    BY <1>1, <1>2
  <2>2. pc' \in [Calls -> {"idle", "queued", "auth", "start", "loop", "waiting"} \cup Ended]
    BY <1>1, <1>5, <1>6 DEF ContactTypes
  <2> QED BY <2>1, <2>2
<1>9. ContactTypes'
  BY <1>1, <1>2, <1>3, <1>7, <1>8 DEF ContactTypes
<1>10. JobsOnce'
  <2>1. \A j, k \in 1..Len(queue') : queue'[j] = queue'[k] => j = k
    BY <1>3 DEF ContactIInv, JobsOnce
  <2>2. \A k \in 1..Len(queue') : queue'[k] \notin running /\ queue'[k] # job
    <3>1. /\ \A j, k \in 1..Len(queue) : queue[j] = queue[k] => j = k
          /\ \A k \in 1..Len(queue) : queue[k] \notin running
      BY DEF ContactIInv, JobsOnce
    <3> QED BY <1>3, <3>1
  <2> QED BY <1>2, <2>1, <2>2 DEF JobsOnce
<1>11. \A j : (Queued(j)' => Queued(j) /\ j # job) /\ (j \in running' => j \in running \/ j = job)
  <2> SUFFICES ASSUME NEW j, Queued(j)' PROVE Queued(j) /\ j # job
    BY <1>2
  <2>1. PICK k \in 1..Len(queue') : queue'[k] = j
    BY DEF Queued
  <2> QED BY <1>3, <2>1 DEF Queued, ContactIInv, JobsOnce
<1>12. JobsInPlace'
  <2> SUFFICES ASSUME NEW d \in Calls
               PROVE  /\ Queued(<<"contact", d>>)' => pc'[d] = "queued"
                      /\ <<"contact", d>> \in running' => pc'[d] \in {"auth", "start", "loop", "waiting"}
                      /\ Queued(<<"report", d>>)' \/ <<"report", d>> \in running' \/ <<"answer", d>> \in running' =>
                           pc'[d] = "waiting" /\ reply'[d] = "none" /\ ask[d].to = "own"
                      /\ ~Queued(<<"answer", d>>)'
                      /\ <<"answer", d>> \in running' => ~Queued(<<"report", d>>)' /\ <<"report", d>> \notin running'
                      /\ reply'[d] # "none" => pc'[d] = "waiting"
    BY DEF JobsInPlace
  <2>0. JobsInPlace /\ reply' = reply /\ pc \in [Calls -> {"idle", "queued", "auth", "start", "loop", "waiting"} \cup Ended]
    BY <1>1, <1>2 DEF ContactIInv, ContactTypes
  <2>1. CASE job = <<"contact", c>> /\ d = c
    <3>1. pc[d] = "queued" /\ pc'[d] = "auth" /\ reply[d] = "none"
      BY <1>6, <2>0, <2>1 DEF JobsInPlace
    <3>2. ~Queued(<<"contact", d>>)'
      BY <1>11, <2>1
    <3>3. ~Queued(<<"report", d>>)' /\ <<"report", d>> \notin running'
      <4>1. ~Queued(<<"report", d>>) /\ <<"report", d>> \notin running
        BY <2>0, <3>1 DEF JobsInPlace
      <4>2. <<"report", d>> # job
        BY <2>1
      <4> QED BY <1>11, <4>1, <4>2
    <3>4. ~Queued(<<"answer", d>>)' /\ <<"answer", d>> \notin running'
      <4>1. ~Queued(<<"answer", d>>) /\ <<"answer", d>> \notin running /\ <<"answer", d>> # job
        BY <2>0, <2>1, <3>1 DEF JobsInPlace
      <4> QED BY <1>11, <4>1
    <3> QED BY <2>0, <3>1, <3>2, <3>3, <3>4
  <2>2. CASE job = <<"contact", c>> /\ d # c
    <3>1. pc'[d] = pc[d]
      BY <1>6, <2>0, <2>2
    <3>2. <<"contact", d>> # job /\ <<"report", d>> # job /\ <<"answer", d>> # job
      BY <2>2
    <3> QED BY <1>11, <2>0, <3>1, <3>2 DEF JobsInPlace
  <2>3. CASE job = <<"report", c>>
    <3>1. pc'[d] = pc[d] /\ <<"contact", d>> # job /\ <<"answer", d>> # job
      BY <1>6, <2>3
    <3>2. <<"report", d>> = job => Queued(<<"report", d>>)
      BY <1>4
    <3> QED BY <1>11, <2>0, <3>1, <3>2 DEF JobsInPlace
  <2> QED BY <1>5, <2>1, <2>2, <2>3
<1>13. \A d \in Calls : Attempts(d)' /\ Filing(d)'
  <2> SUFFICES ASSUME NEW d \in Calls PROVE Attempts(d)' /\ Filing(d)'
    OBVIOUS
  <2>1. Attempts(d) /\ Filing(d)
    BY DEF ContactIInv
  <2>2. pc'[d] = pc[d] \/ (pc[d] = "queued" /\ pc'[d] = "auth")
    BY <1>1, <1>5, <1>6 DEF ContactTypes
  <2>3. <<"answer", d>> # job
    BY <1>5
  <2>4. <<"answer", d>> \in running' <=> <<"answer", d>> \in running
    BY <1>2, <2>3
  <2> QED BY <1>2, <2>1, <2>2, <2>4 DEF Attempts, Filing, OwnSaidOk
<1> QED BY <1>7, <1>9, <1>10, <1>12, <1>13 DEF ContactIInv

\* A handler that keeps its thread or returns, and leaves the queue alone.
LEMMA HandlerJobs ==
  ASSUME ContactIInv, NEW c \in Calls, NEW p \in {"start", "loop", "waiting"} \cup Ended,
         pc[c] \in {"auth", "start", "loop", "waiting"}, pc' = [pc EXCEPT ![c] = p],
         \/ running' = running /\ p \in {"start", "loop", "waiting"}
         \/ running' = running \ {<<"contact", c>>}
  PROVE  /\ pc' \in [Calls -> {"idle", "queued", "auth", "start", "loop", "waiting"} \cup Ended]
         /\ running' \subseteq running /\ IsFiniteSet(running')
         /\ Cardinality(running') <= Threads
         /\ pc'[c] = p /\ \A d \in Calls \ {c} : pc'[d] = pc[d]
         /\ ~Queued(<<"contact", c>>)
         /\ <<"contact", c>> \in running' => p \in {"start", "loop", "waiting"}
         /\ \A d \in Calls : /\ <<"report", d>> \in running' <=> <<"report", d>> \in running
                            /\ <<"answer", d>> \in running' <=> <<"answer", d>> \in running
<1>1. ContactTypes /\ IsFiniteSet(running) /\ JobsInPlace /\ Threads \in Nat
  BY ContactAssumption DEF ContactIInv
<1>2. running' \subseteq running
  OBVIOUS
<1>3. IsFiniteSet(running') /\ Cardinality(running') <= Cardinality(running)
  BY <1>1, <1>2, FS_Subset
<1>4. Cardinality(running') \in Nat /\ Cardinality(running) \in Nat
  BY <1>1, <1>3, FS_CardinalityType
<1>5. Cardinality(running') <= Threads
  BY <1>1, <1>3, <1>4 DEF ContactTypes
<1>6. ~Queued(<<"contact", c>>)
  BY <1>1 DEF JobsInPlace
<1>7. \A d \in Calls : /\ <<"report", d>> \in running' <=> <<"report", d>> \in running
                       /\ <<"answer", d>> \in running' <=> <<"answer", d>> \in running
  OBVIOUS
<1> QED BY <1>1, <1>2, <1>3, <1>5, <1>6, <1>7 DEF ContactTypes

\* The handler refuses the call, knows who calls, or enters the loop.
LEMMA StartKeeps ==
  ASSUME ContactIInv, NEW c \in Calls, Authenticate(c) \/ Start(c)
  PROVE  ContactIInv'
<1>1. ContactTypes /\ JobsInPlace /\ JobsOnce
  BY DEF ContactIInv
<1>2. /\ pc[c] \in {"auth", "start"} /\ UNCHANGED <<count, queue, reply, filed, sent, missed>>
      /\ \/ pc' = [pc EXCEPT ![c] = "refused"] /\ running' = running \ {<<"contact", c>>}
         \/ /\ ask[c].repeat => ask[c].repeats \in 1..MaxRepeats
            /\ pc' = [pc EXCEPT ![c] = "loop"] /\ running' = running
         \/ pc' = [pc EXCEPT ![c] = "start"] /\ running' = running
  BY DEF Authenticate, Start, End, Goto
<1>3. PICK p \in {"refused", "start", "loop"} :
        /\ pc' = [pc EXCEPT ![c] = p]
        /\ \/ running' = running /\ p \in {"start", "loop", "waiting"}
           \/ running' = running \ {<<"contact", c>>}
  BY <1>2
<1>4. p \in {"start", "loop", "waiting"} \cup Ended
  BY DEF Ended
<1>5. /\ pc' \in [Calls -> {"idle", "queued", "auth", "start", "loop", "waiting"} \cup Ended]
      /\ running' \subseteq running /\ IsFiniteSet(running')
      /\ Cardinality(running') <= Threads
      /\ pc'[c] = p /\ \A d \in Calls \ {c} : pc'[d] = pc[d]
      /\ ~Queued(<<"contact", c>>)
      /\ <<"contact", c>> \in running' => p \in {"start", "loop", "waiting"}
      /\ \A d \in Calls : /\ <<"report", d>> \in running' <=> <<"report", d>> \in running
                         /\ <<"answer", d>> \in running' <=> <<"answer", d>> \in running
  BY <1>2, <1>3, <1>4, HandlerJobs
<1>6. ContactTypes' /\ JobsOnce'
  BY <1>1, <1>2, <1>5 DEF ContactTypes, JobsOnce
<1>7. \A j : Queued(j)' <=> Queued(j)
  BY <1>2 DEF Queued
<1>8. JobsInPlace'
  BY <1>1, <1>2, <1>5, <1>7 DEF JobsInPlace
<1>9. Attempts(c)' /\ Filing(c)'
  <2>1. Attempts(c) /\ Filing(c) /\ reply[c] = "none" /\ count[c] = 0 /\ sent[c] = 0
    BY <1>1, <1>2 DEF ContactIInv, Attempts, JobsInPlace
  <2>2. MaxRepeats \in Nat /\ pc'[c] = p /\ (p = "loop" /\ ask[c].repeat => ask[c].repeats \in 1..MaxRepeats)
    BY <1>1, <1>2, <1>5, ContactAssumption DEF ContactTypes
  <2> QED BY <1>2, <2>1, <2>2 DEF Attempts, Filing, OwnSaidOk
<1>10. \A d \in Calls \ {c} : Attempts(d)' /\ Filing(d)'
  BY <1>2, <1>5, OthersStay
<1> QED BY <1>5, <1>6, <1>8, <1>9, <1>10 DEF ContactIInv

\* The server's own queue gets the request of a call that has none in it.
LEMMA SendQueues ==
  ASSUME ContactIInv, NEW c \in Calls, pc[c] = "loop", running' = running,
         queue' = Append(queue, <<"report", c>>)
  PROVE  /\ queue' \in Seq(Job) /\ JobsOnce'
         /\ \A j : Queued(j)' => Queued(j) \/ j = <<"report", c>>
<1> DEFINE job == <<"report", c>>
<1>1. job \in Job /\ queue \in Seq(Job)
  BY DEF ContactIInv, ContactTypes, Job
<1>2. ~Queued(job) /\ job \notin running
  BY DEF ContactIInv, JobsInPlace
<1> HIDE DEF job
<1>3. /\ Len(queue') = Len(queue) + 1 /\ Len(queue) \in Nat
      /\ \A k \in 1..Len(queue) : queue'[k] = queue[k]
      /\ queue'[Len(queue) + 1] = job /\ queue' \in Seq(Job)
  BY <1>1 DEF job
<1>4. JobsOnce'
  <2>1. JobsOnce /\ \A k \in 1..Len(queue) : queue[k] # job
    BY <1>2 DEF ContactIInv, Queued
  <2>2. ASSUME NEW j \in 1..Len(queue'), NEW k \in 1..Len(queue'), queue'[j] = queue'[k]
        PROVE  j = k
    <3>1. j \in 1..Len(queue) \/ j = Len(queue) + 1
      BY <1>3
    <3>2. k \in 1..Len(queue) \/ k = Len(queue) + 1
      BY <1>3
    <3>3. CASE j \in 1..Len(queue) /\ k \in 1..Len(queue)
      <4>1. queue[j] = queue[k]
        BY <1>3, <2>2, <3>3
      <4> QED BY <2>1, <3>3, <4>1 DEF JobsOnce
    <3>4. CASE j = Len(queue) + 1 /\ k \in 1..Len(queue)
      BY <1>3, <2>1, <2>2, <3>4
    <3>5. CASE j \in 1..Len(queue) /\ k = Len(queue) + 1
      BY <1>3, <2>1, <2>2, <3>5
    <3> QED BY <3>1, <3>2, <3>3, <3>4, <3>5
  <2>3. \A k \in 1..Len(queue') : queue'[k] \notin running
    BY <1>2, <1>3, <2>1 DEF JobsOnce
  <2> QED BY <2>2, <2>3 DEF JobsOnce
<1>5. \A j : Queued(j)' => Queued(j) \/ j = job
  BY <1>3 DEF Queued
<1> QED BY <1>3, <1>4, <1>5 DEF job

\* requests.get goes to the own server, to another one or nowhere.
LEMMA SendKeeps ==
  ASSUME ContactIInv, NEW c \in Calls, Send(c)
  PROVE  ContactIInv'
<1>1. ContactTypes /\ JobsInPlace /\ JobsOnce /\ Attempts(c) /\ Filing(c)
  BY DEF ContactIInv
<1>2. pc[c] = "loop" /\ reply[c] = "none" /\ UNCHANGED <<count, filed, missed>>
  BY <1>1 DEF Send, JobsInPlace
<1>3. CASE ask[c].to = "malformed"
  <2>1. /\ pc' = [pc EXCEPT ![c] = "not_ok"] /\ running' = running \ {<<"contact", c>>}
        /\ UNCHANGED <<queue, reply, sent>>
    BY <1>3 DEF Send, End, Goto
  <2>2. "not_ok" \in {"start", "loop", "waiting"} \cup Ended
    BY DEF Ended
  <2>3. /\ pc' \in [Calls -> {"idle", "queued", "auth", "start", "loop", "waiting"} \cup Ended]
        /\ running' \subseteq running /\ IsFiniteSet(running')
        /\ Cardinality(running') <= Threads
        /\ pc'[c] = "not_ok" /\ \A d \in Calls \ {c} : pc'[d] = pc[d]
        /\ ~Queued(<<"contact", c>>)
        /\ <<"contact", c>> \in running' => "not_ok" \in {"start", "loop", "waiting"}
        /\ \A d \in Calls : /\ <<"report", d>> \in running' <=> <<"report", d>> \in running
                           /\ <<"answer", d>> \in running' <=> <<"answer", d>> \in running
    BY <1>2, <2>1, <2>2, HandlerJobs
  <2>4. ContactTypes' /\ JobsOnce'
    BY <1>1, <1>2, <2>1, <2>3 DEF ContactTypes, JobsOnce
  <2>5. \A j : Queued(j)' <=> Queued(j)
    BY <2>1 DEF Queued
  <2>6. JobsInPlace'
    BY <1>1, <1>2, <2>1, <2>3, <2>5 DEF JobsInPlace
  <2>7. Attempts(c)' /\ Filing(c)'
    BY <1>1, <1>2, <1>3, <2>1, <2>3 DEF Attempts, Filing, OwnSaidOk
  <2>8. \A d \in Calls \ {c} : Attempts(d)' /\ Filing(d)'
    BY <1>2, <2>1, <2>3, OthersStay
  <2> QED BY <2>3, <2>4, <2>6, <2>7, <2>8 DEF ContactIInv
<1>4. CASE ask[c].to # "malformed"
  <2>1. /\ pc' = [pc EXCEPT ![c] = "waiting"] /\ running' = running
        /\ sent' = [sent EXCEPT ![c] = @ + 1]
        /\ \/ reply' = [reply EXCEPT ![c] = "no_connection"] /\ queue' = queue
           \/ /\ queue' = IF ask[c].to = "own" THEN Append(queue, <<"report", c>>) ELSE queue
              /\ reply' = reply
    BY <1>4 DEF Send, Goto
  <2>2. /\ pc' \in [Calls -> {"idle", "queued", "auth", "start", "loop", "waiting"} \cup Ended]
        /\ pc'[c] = "waiting" /\ \A d \in Calls \ {c} : pc'[d] = pc[d]
        /\ sent' \in [Calls -> Nat] /\ sent'[c] = sent[c] + 1
        /\ \A d \in Calls \ {c} : sent'[d] = sent[d]
    BY <1>1, <2>1 DEF ContactTypes
  <2>3. /\ reply' \in [Calls -> {"none"} \cup Replies]
        /\ reply'[c] \in {"none", "no_connection"}
        /\ \A d \in Calls \ {c} : reply'[d] = reply[d]
    BY <1>1, <1>2, <2>1 DEF ContactTypes, Replies
  <2>4. queue' \in Seq(Job) /\ JobsOnce' /\ JobsInPlace'
    <3>1. CASE queue' = queue
      <4>1. queue' \in Seq(Job) /\ JobsOnce'
        BY <1>1, <2>1, <3>1 DEF ContactTypes, JobsOnce
      <4>2. \A j : Queued(j)' <=> Queued(j)
        BY <3>1 DEF Queued
      <4>3. /\ reply'[c] # "none" => pc'[c] = "waiting"
            /\ pc[c] # "queued" /\ ~Queued(<<"report", c>>) /\ <<"report", c>> \notin running
            /\ ~Queued(<<"answer", c>>) /\ <<"answer", c>> \notin running
        BY <1>1, <1>2, <2>2 DEF JobsInPlace
      <4>4. running' = running
        BY <2>1
      <4>5. ASSUME NEW d \in Calls, d # c
            PROVE  pc'[d] = pc[d] /\ reply'[d] = reply[d]
        BY <2>2, <2>3, <4>5
      <4>6. JobsInPlace'
        <5> SUFFICES ASSUME NEW d \in Calls
                     PROVE  /\ Queued(<<"contact", d>>)' => pc'[d] = "queued"
                            /\ <<"contact", d>> \in running' =>
                                 pc'[d] \in {"auth", "start", "loop", "waiting"}
                            /\ (\/ Queued(<<"report", d>>)' \/ <<"report", d>> \in running'
                                \/ <<"answer", d>> \in running') =>
                                 pc'[d] = "waiting" /\ reply'[d] = "none" /\ ask[d].to = "own"
                            /\ ~Queued(<<"answer", d>>)'
                            /\ <<"answer", d>> \in running' =>
                                 ~Queued(<<"report", d>>)' /\ <<"report", d>> \notin running'
                            /\ reply'[d] # "none" => pc'[d] = "waiting"
          BY DEF JobsInPlace
        <5>1. CASE d = c
          BY <1>1, <2>2, <4>2, <4>3, <4>4, <5>1 DEF JobsInPlace
        <5>2. CASE d # c
          BY <1>1, <4>2, <4>4, <4>5, <5>2 DEF JobsInPlace
        <5> QED BY <5>1, <5>2
      <4> QED BY <4>1, <4>6
    <3>2. CASE queue' # queue
      <4>1. queue' = Append(queue, <<"report", c>>) /\ reply' = reply /\ ask[c].to = "own"
        BY <2>1, <3>2
      <4>2. /\ queue' \in Seq(Job) /\ JobsOnce'
            /\ \A j : Queued(j)' => Queued(j) \/ j = <<"report", c>>
        BY <1>2, <2>1, <4>1, SendQueues
      <4>3. \A d \in Calls : /\ <<"contact", d>> # <<"report", c>> /\ <<"answer", d>> # <<"report", c>>
                            /\ <<"report", d>> = <<"report", c>> => d = c
        OBVIOUS
      <4>5. <<"answer", c>> \notin running /\ <<"report", c>> \notin running
        BY <1>1, <1>2 DEF JobsInPlace
      <4>4. JobsInPlace'
        BY <4>5, <1>1, <1>2, <2>1, <2>2, <4>1, <4>2, <4>3 DEF JobsInPlace
      <4> QED BY <4>2, <4>4
    <3> QED BY <3>1, <3>2
  <2>5. ContactTypes'
    BY <1>1, <1>2, <2>1, <2>2, <2>3, <2>4 DEF ContactTypes
  <2>6. Attempts(c)' /\ Filing(c)'
    <3>1. sent[c] \in Nat /\ count[c] \in Nat
      BY <1>1 DEF ContactTypes
    <3>2. Attempts(c)'
      <4>1. /\ sent[c] <= count[c] /\ count'[c] = count[c] /\ pc'[c] = "waiting" /\ sent'[c] = sent[c] + 1
            /\ IF ask[c].repeat THEN ask[c].repeats \in 1..MaxRepeats /\ count[c] <= ask[c].repeats
               ELSE count[c] = 0
        BY <1>1, <1>2, <2>2 DEF Attempts
      <4>2. sent'[c] <= count'[c] + 1
        BY <3>1, <4>1
      <4> QED BY <4>1, <4>2 DEF Attempts
    <3>3. Filing(c)'
      <4>1. <<"answer", c>> \notin running /\ running' = running
        BY <1>1, <1>2, <2>1 DEF JobsInPlace
      <4> QED BY <1>1, <1>2, <2>2, <2>3, <4>1 DEF Filing, OwnSaidOk
    <3> QED BY <3>2, <3>3
  <2>7. \A d \in Calls \ {c} : Attempts(d)' /\ Filing(d)'
    BY <1>2, <2>1, <2>2, <2>3, OthersStay
  <2> QED BY <2>1, <2>4, <2>5, <2>6, <2>7 DEF ContactIInv
<1> QED BY <1>3, <1>4

\* The own server has no row to make, or makes one and has still to answer.
LEMMA ReceiveReportKeeps ==
  ASSUME ContactIInv, NEW c \in Calls, ReceiveReport(c)
  PROVE  ContactIInv'
<1> DEFINE job == <<"report", c>>
           next == <<"answer", c>>
<1>1. ContactTypes /\ JobsInPlace /\ JobsOnce /\ Attempts(c) /\ Filing(c) /\ IsFiniteSet(running)
  BY DEF ContactIInv
<1>2. /\ job \in running /\ UNCHANGED <<pc, count, queue, sent, missed>>
      /\ \/ /\ running' = running \ {job} /\ filed' = filed
            /\ \E r \in {"not_ok", "no_connection"} : reply' = [reply EXCEPT ![c] = r]
         \/ /\ running' = (running \ {job}) \cup {next} /\ reply' = reply
            /\ filed' = [filed EXCEPT ![c] = @ + 1]
  BY DEF ReceiveReport
<1>3. /\ pc[c] = "waiting" /\ reply[c] = "none" /\ ask[c].to = "own"
      /\ next \notin running /\ ~Queued(next) /\ next \in Job
  BY <1>1, <1>2 DEF JobsInPlace, Job
<1>4. ~Queued(job)
  BY <1>1, <1>2 DEF JobsOnce, Queued
<1>5. /\ reply' \in [Calls -> {"none"} \cup Replies] /\ filed' \in [Calls -> Nat]
      /\ \A d \in Calls \ {c} : reply'[d] = reply[d] /\ filed'[d] = filed[d]
      /\ \/ running' = running \ {job} /\ filed'[c] = filed[c] /\ reply'[c] \in {"not_ok", "no_connection"}
         \/ running' = (running \ {job}) \cup {next} /\ filed'[c] = filed[c] + 1 /\ reply'[c] = "none"
  <2>1. reply \in [Calls -> {"none"} \cup Replies] /\ filed \in [Calls -> Nat]
    BY <1>1 DEF ContactTypes
  <2>2. CASE /\ running' = running \ {job} /\ filed' = filed
             /\ \E r \in {"not_ok", "no_connection"} : reply' = [reply EXCEPT ![c] = r]
    BY <2>1, <2>2 DEF Replies
  <2>3. CASE /\ running' = (running \ {job}) \cup {next} /\ reply' = reply
             /\ filed' = [filed EXCEPT ![c] = @ + 1]
    BY <1>3, <2>1, <2>3
  <2> QED BY <1>2, <2>2, <2>3
<1>6. IsFiniteSet(running') /\ Cardinality(running') <= Threads
  <2>1. Threads \in Nat /\ Cardinality(running) \in Nat /\ Cardinality(running) <= Threads
    BY <1>1, ContactAssumption, FS_CardinalityType DEF ContactTypes
  <2>2. IsFiniteSet(running \ {job}) /\ Cardinality(running \ {job}) = Cardinality(running) - 1
    BY <1>1, <1>2, FS_RemoveElement
  <2>3. /\ IsFiniteSet((running \ {job}) \cup {next})
        /\ Cardinality((running \ {job}) \cup {next}) = Cardinality(running \ {job}) + 1
    BY <1>3, <2>2, FS_AddElement
  <2>4. running' = running \ {job} \/ running' = (running \ {job}) \cup {next}
    BY <1>5
  <2> HIDE DEF job, next
  <2> QED BY <2>1, <2>2, <2>3, <2>4
<1>7. \A j : (Queued(j)' <=> Queued(j)) /\ (j \in running' => (j \in running /\ j # job) \/ (j = next /\ reply'[c] = "none"))
  BY <1>5, <1>2 DEF Queued
<1>8. ContactTypes'
  <2>1. running' \subseteq Job
    BY <1>1, <1>3, <1>5 DEF ContactTypes
  <2> QED BY <1>1, <1>2, <1>5, <1>6, <2>1 DEF ContactTypes
<1>9. JobsOnce'
  <2>1. \A k \in 1..Len(queue) : queue[k] # next /\ queue[k] \notin running
    BY <1>1, <1>3 DEF JobsOnce, Queued
  <2>2. \A k \in 1..Len(queue) : queue[k] \notin running'
    BY <1>7, <2>1
  <2> QED BY <1>1, <1>2, <2>2 DEF JobsOnce
<1>10. JobsInPlace'
  <2> SUFFICES ASSUME NEW d \in Calls
               PROVE  /\ Queued(<<"contact", d>>)' => pc'[d] = "queued"
                      /\ <<"contact", d>> \in running' => pc'[d] \in {"auth", "start", "loop", "waiting"}
                      /\ Queued(<<"report", d>>)' \/ <<"report", d>> \in running' \/ <<"answer", d>> \in running' =>
                           pc'[d] = "waiting" /\ reply'[d] = "none" /\ ask[d].to = "own"
                      /\ ~Queued(<<"answer", d>>)'
                      /\ <<"answer", d>> \in running' => ~Queued(<<"report", d>>)' /\ <<"report", d>> \notin running'
                      /\ reply'[d] # "none" => pc'[d] = "waiting"
    BY DEF JobsInPlace
  <2>1. pc'[d] = pc[d] /\ <<"contact", d>> # next /\ <<"report", d>> # next
    BY <1>2
  <2>2. CASE d = c
    BY <1>1, <1>3, <1>4, <1>5, <1>7, <2>1, <2>2 DEF JobsInPlace
  <2>3. CASE d # c
    <3>1. <<"answer", d>> # next /\ reply'[d] = reply[d]
      BY <1>5, <2>3
    <3> QED BY <1>1, <1>7, <2>1, <3>1 DEF JobsInPlace
  <2> QED BY <2>2, <2>3
<1>11. Attempts(c)' /\ Filing(c)'
  <2>1. filed[c] \in Nat /\ missed[c] \in Nat /\ filed[c] = missed[c] /\ missed'[c] = missed[c]
    BY <1>1, <1>2, <1>3 DEF ContactTypes, Filing, OwnSaidOk
  <2>2. Attempts(c)'
    BY <1>1, <1>2 DEF Attempts
  <2>3. next \in running' <=> running' = (running \ {job}) \cup {next}
    BY <1>3, <1>5
  <2>4. Filing(c)'
    BY <1>2, <1>3, <1>5, <2>1, <2>3 DEF Filing, OwnSaidOk
  <2> QED BY <2>2, <2>4
<1>12. \A d \in Calls \ {c} : Attempts(d)' /\ Filing(d)'
  <2>1. \A d \in Calls \ {c} : <<"answer", d>> \in running' <=> <<"answer", d>> \in running
    BY <1>5
  <2> QED BY <1>2, <1>5, <2>1, OthersStay
<1> QED BY <1>6, <1>8, <1>9, <1>10, <1>11, <1>12 DEF ContactIInv

\* The row is there, and the answer arrives or does not.
LEMMA AnswerReportKeeps ==
  ASSUME ContactIInv, NEW c \in Calls, AnswerReport(c)
  PROVE  ContactIInv'
<1> DEFINE job == <<"answer", c>>
<1>1. ContactTypes /\ JobsInPlace /\ JobsOnce /\ Attempts(c) /\ Filing(c) /\ IsFiniteSet(running)
  BY DEF ContactIInv
<1>2. /\ job \in running /\ running' = running \ {job}
      /\ UNCHANGED <<pc, count, queue, filed, sent>>
  BY DEF AnswerReport
<1>3. /\ pc[c] = "waiting" /\ reply[c] = "none" /\ ask[c].to = "own"
      /\ ~Queued(<<"report", c>>) /\ <<"report", c>> \notin running
  BY <1>1, <1>2 DEF JobsInPlace
<1>4. PICK r \in {"ok", "not_ok", "no_connection"} :
        /\ reply' = [reply EXCEPT ![c] = r]
        /\ missed' = [missed EXCEPT ![c] = IF r = "ok" THEN @ ELSE @ + 1]
  BY DEF AnswerReport
<1>5. /\ reply' \in [Calls -> {"none"} \cup Replies] /\ missed' \in [Calls -> Nat]
      /\ reply'[c] = r /\ missed'[c] = IF r = "ok" THEN missed[c] ELSE missed[c] + 1
      /\ \A d \in Calls \ {c} : reply'[d] = reply[d] /\ missed'[d] = missed[d]
  BY <1>1, <1>4 DEF ContactTypes, Replies
<1>6. IsFiniteSet(running') /\ Cardinality(running') <= Threads
  <2>1. IsFiniteSet(running') /\ Cardinality(running') <= Cardinality(running)
    BY <1>1, <1>2, FS_Subset
  <2>2. Cardinality(running) \in Nat /\ Cardinality(running') \in Nat /\ Threads \in Nat
    BY <1>1, <2>1, FS_CardinalityType, ContactAssumption
  <2> QED BY <1>1, <2>1, <2>2 DEF ContactTypes
<1>7. ContactTypes' /\ JobsOnce'
  BY <1>1, <1>2, <1>5, <1>6 DEF ContactTypes, JobsOnce
<1>8. \A j : (Queued(j)' <=> Queued(j)) /\ (j \in running' <=> j \in running /\ j # job)
  BY <1>2 DEF Queued
<1>9. JobsInPlace'
  <2> SUFFICES ASSUME NEW d \in Calls
               PROVE  /\ Queued(<<"contact", d>>)' => pc'[d] = "queued"
                      /\ <<"contact", d>> \in running' => pc'[d] \in {"auth", "start", "loop", "waiting"}
                      /\ Queued(<<"report", d>>)' \/ <<"report", d>> \in running' \/ <<"answer", d>> \in running' =>
                           pc'[d] = "waiting" /\ reply'[d] = "none" /\ ask[d].to = "own"
                      /\ ~Queued(<<"answer", d>>)'
                      /\ <<"answer", d>> \in running' => ~Queued(<<"report", d>>)' /\ <<"report", d>> \notin running'
                      /\ reply'[d] # "none" => pc'[d] = "waiting"
    BY DEF JobsInPlace
  <2>1. CASE d = c
    BY <1>1, <1>2, <1>3, <1>8, <2>1 DEF JobsInPlace
  <2>2. CASE d # c
    BY <1>1, <1>2, <1>5, <1>8, <2>2 DEF JobsInPlace
  <2> QED BY <2>1, <2>2
<1>10. Attempts(c)' /\ Filing(c)'
  <2>1. filed[c] \in Nat /\ missed[c] \in Nat /\ filed[c] = missed[c] + 1 /\ filed'[c] = filed[c]
    BY <1>1, <1>2 DEF ContactTypes, Filing
  <2>2. Attempts(c)'
    BY <1>1, <1>2 DEF Attempts
  <2>3. Filing(c)'
    BY <1>2, <1>3, <1>5, <2>1 DEF Filing, OwnSaidOk
  <2> QED BY <2>2, <2>3
<1>11. \A d \in Calls \ {c} : Attempts(d)' /\ Filing(d)'
  <2>1. \A d \in Calls \ {c} : <<"answer", d>> \in running' <=> <<"answer", d>> \in running
    BY <1>2
  <2> QED BY <1>2, <1>5, <2>1, OthersStay
<1> QED BY <1>6, <1>7, <1>9, <1>10, <1>11 DEF ContactIInv

\* Another server files it, or not.
LEMMA ElsewhereKeeps ==
  ASSUME ContactIInv, NEW c \in Calls, Elsewhere(c)
  PROVE  ContactIInv'
<1>1. ContactTypes /\ JobsInPlace /\ JobsOnce /\ Attempts(c) /\ Filing(c)
  BY DEF ContactIInv
<1>2. /\ pc[c] = "waiting" /\ ask[c].to = "elsewhere"
      /\ UNCHANGED <<pc, count, queue, running, filed, sent, missed>>
      /\ \E r \in Replies : reply' = [reply EXCEPT ![c] = r]
  BY DEF Elsewhere
<1>3. /\ reply' \in [Calls -> {"none"} \cup Replies]
      /\ \A d \in Calls \ {c} : reply'[d] = reply[d]
  BY <1>1, <1>2 DEF ContactTypes
<1>4. ContactTypes' /\ JobsOnce' /\ IsFiniteSet(running)'
  BY <1>1, <1>2, <1>3 DEF ContactIInv, ContactTypes, JobsOnce
<1>5. \A j : Queued(j)' <=> Queued(j)
  BY <1>2 DEF Queued
<1>6. JobsInPlace'
  BY <1>1, <1>2, <1>3, <1>5 DEF JobsInPlace
<1>7. Attempts(c)' /\ Filing(c)'
  BY <1>1, <1>2 DEF Attempts, Filing, OwnSaidOk
<1>8. \A d \in Calls \ {c} : Attempts(d)' /\ Filing(d)'
  BY <1>2, <1>3, OthersStay
<1> QED BY <1>4, <1>6, <1>7, <1>8 DEF ContactIInv

\* The answer ends the call or starts the next attempt, as long as any is left.
LEMMA LoopKeeps ==
  ASSUME ContactIInv, NEW c \in Calls, Loop(c)
  PROVE  ContactIInv'
<1>1. ContactTypes /\ JobsInPlace /\ JobsOnce /\ Attempts(c) /\ Filing(c)
  BY DEF ContactIInv
<1> DEFINE Ending == IF reply[c] = "raises" THEN "not_ok" ELSE reply[c]
<1>2. /\ pc[c] = "waiting" /\ reply[c] # "none" /\ reply' = [reply EXCEPT ![c] = "none"]
      /\ UNCHANGED <<queue, filed, sent, missed>>
      /\ \/ /\ reply[c] # "ok" /\ ask[c].repeat /\ count[c] # ask[c].repeats
            /\ pc' = [pc EXCEPT ![c] = "loop"] /\ count' = [count EXCEPT ![c] = @ + 1]
            /\ running' = running
         \/ /\ pc' = [pc EXCEPT ![c] = Ending] /\ count' = count
            /\ running' = running \ {<<"contact", c>>}
  BY DEF Loop, End, Goto
<1>3. PICK p \in {"loop", Ending} :
        /\ pc' = [pc EXCEPT ![c] = p]
        /\ \/ /\ running' = running /\ p = "loop" /\ count' = [count EXCEPT ![c] = @ + 1]
              /\ reply[c] # "ok" /\ ask[c].repeat /\ count[c] # ask[c].repeats
           \/ running' = running \ {<<"contact", c>>} /\ count' = count /\ p = Ending
  BY <1>2
<1>4. Ending \in {"ok", "not_ok", "no_connection"} /\ (Ending = "ok" => reply[c] = "ok") /\ p \in {"start", "loop", "waiting"} \cup Ended
  BY <1>1, <1>2, <1>3 DEF Ended, ContactTypes, Replies
<1>5. /\ pc' \in [Calls -> {"idle", "queued", "auth", "start", "loop", "waiting"} \cup Ended]
      /\ running' \subseteq running /\ IsFiniteSet(running')
      /\ Cardinality(running') <= Threads
      /\ pc'[c] = p /\ \A d \in Calls \ {c} : pc'[d] = pc[d]
      /\ ~Queued(<<"contact", c>>)
      /\ <<"contact", c>> \in running' => p \in {"start", "loop", "waiting"}
      /\ \A d \in Calls : /\ <<"report", d>> \in running' <=> <<"report", d>> \in running
                         /\ <<"answer", d>> \in running' <=> <<"answer", d>> \in running
  BY <1>2, <1>3, <1>4, HandlerJobs
<1>6. /\ reply' \in [Calls -> {"none"} \cup Replies]
      /\ reply'[c] = "none" /\ \A d \in Calls \ {c} : reply'[d] = reply[d]
      /\ count' \in [Calls -> Nat] /\ \A d \in Calls \ {c} : count'[d] = count[d]
  <2>1. /\ reply' \in [Calls -> {"none"} \cup Replies]
        /\ reply'[c] = "none" /\ \A d \in Calls \ {c} : reply'[d] = reply[d]
    BY <1>1, <1>2 DEF ContactTypes
  <2>2. count' = count \/ count' = [count EXCEPT ![c] = @ + 1]
    BY <1>3
  <2>3. count \in [Calls -> Nat] /\ count[c] + 1 \in Nat
    BY <1>1 DEF ContactTypes
  <2> QED BY <2>1, <2>2, <2>3
<1>7. ContactTypes' /\ JobsOnce'
  BY <1>1, <1>2, <1>5, <1>6 DEF ContactTypes, JobsOnce
<1>8. \A j : Queued(j)' <=> Queued(j)
  BY <1>2 DEF Queued
<1>9. ~Queued(<<"report", c>>) /\ <<"report", c>> \notin running
  BY <1>1, <1>2 DEF JobsInPlace
<1>10. JobsInPlace'
  <2> SUFFICES ASSUME NEW d \in Calls
               PROVE  /\ Queued(<<"contact", d>>)' => pc'[d] = "queued"
                      /\ <<"contact", d>> \in running' => pc'[d] \in {"auth", "start", "loop", "waiting"}
                      /\ Queued(<<"report", d>>)' \/ <<"report", d>> \in running' \/ <<"answer", d>> \in running' =>
                           pc'[d] = "waiting" /\ reply'[d] = "none" /\ ask[d].to = "own"
                      /\ ~Queued(<<"answer", d>>)'
                      /\ <<"answer", d>> \in running' => ~Queued(<<"report", d>>)' /\ <<"report", d>> \notin running'
                      /\ reply'[d] # "none" => pc'[d] = "waiting"
    BY DEF JobsInPlace
  <2>1. CASE d = c
    <3>1. ~Queued(<<"answer", c>>) /\ (<<"answer", c>> \notin running)
      BY <1>1, <1>2 DEF JobsInPlace
    <3> QED BY <1>5, <1>6, <1>8, <1>9, <2>1, <3>1
  <2>2. CASE d # c
    BY <1>1, <1>5, <1>6, <1>8, <2>2 DEF JobsInPlace
  <2> QED BY <2>1, <2>2
<1>11. Attempts(c)'
  <2>1. /\ sent[c] \in Nat /\ count[c] \in Nat /\ ask[c].repeats \in Int /\ MaxRepeats \in Nat
        /\ pc'[c] = p /\ sent'[c] = sent[c] /\ sent[c] <= count[c] + 1
    BY <1>1, <1>2, <1>5, AskingFields, ContactAssumption DEF ContactTypes, Attempts
  <2>2. IF ask[c].repeat THEN ask[c].repeats \in 1..MaxRepeats /\ count[c] <= ask[c].repeats
        ELSE count[c] = 0
    BY <1>1, <1>2 DEF Attempts
  <2>3. CASE /\ p = "loop" /\ count' = [count EXCEPT ![c] = @ + 1]
             /\ ask[c].repeat /\ count[c] # ask[c].repeats
    <3>1. count'[c] = count[c] + 1
      BY <1>1, <2>3 DEF ContactTypes
    <3>2. count[c] <= ask[c].repeats /\ count[c] # ask[c].repeats
      BY <2>2, <2>3
    <3>3. count[c] + 1 <= ask[c].repeats
      BY <2>1, <3>2
    <3> QED BY <2>1, <2>2, <2>3, <3>1, <3>3 DEF Attempts
  <2>4. CASE count' = count /\ p = Ending
    BY <1>4, <2>1, <2>2, <2>4 DEF Attempts
  <2> QED BY <1>3, <2>3, <2>4
<1>12. Filing(c)'
  BY <1>1, <1>2, <1>3, <1>4, <1>5, <1>6 DEF Filing, OwnSaidOk
<1>13. \A d \in Calls \ {c} : Attempts(d)' /\ Filing(d)'
  BY <1>2, <1>5, <1>6, OthersStay
<1> QED BY <1>5, <1>7, <1>10, <1>11, <1>12, <1>13 DEF ContactIInv

\* So every step keeps the invariant of the calls.
LEMMA ContactSteps == ContactIInv /\ [ContactNext]_contact => ContactIInv'
<1> SUFFICES ASSUME ContactIInv, [ContactNext]_contact PROVE ContactIInv'
  OBVIOUS
<1>1. CASE Take
  BY <1>1, TakeKeeps
<1>2. ASSUME NEW c \in Calls, Call(c) \/ Authenticate(c) \/ Elsewhere(c) \/ Steps(c)
      PROVE  ContactIInv'
  BY <1>2, CallKeeps, StartKeeps, SendKeeps, ReceiveReportKeeps, AnswerReportKeeps, ElsewhereKeeps,
     LoopKeeps DEF Steps
<1>3. CASE UNCHANGED contact
  BY <1>3 DEF contact, ContactIInv, ContactTypes, JobsOnce, JobsInPlace, Queued, Attempts, Filing, OwnSaidOk
<1> QED BY <1>1, <1>2, <1>3 DEF ContactNext

\* Whatever is lost, raises or answers, the requests of a call are bounded, and a
\* problem is filed once more only for a row whose 200 did not arrive, for any
\* number of threads and calls (ContactMechanicView.post, ReceiveReportView.get).
THEOREM ContactKeepsCount == ContactSpec => []ContactInv
<1>1. ContactSpec => []ContactIInv
  BY ContactStarts, ContactSteps, PTL DEF ContactSpec
<1> QED BY <1>1, ContactInvFollows, PTL

------------------------------------------------------------------------------
(* Seed.  First about numbers: a set of them that is not empty has a least  *)
(* one, and a largest one when it is finite.                               *)
LEMMA LeastOne ==
  ASSUME NEW T, T \subseteq Nat, T # {}
  PROVE  \E m \in T : \A n \in T : m <= n
<1> DEFINE R == OpToRel(<, Nat)
<1>1. IsWellFoundedOn(R, Nat)
  BY NatLessThanWellFounded
<1>2. \A m, n \in Nat : m < n => <<m, n>> \in R
  BY DEF OpToRel
<1> HIDE DEF R
<1>3. PICK m \in T : \A n \in T : ~(<<n, m>> \in R)
  BY <1>1, WFMin
<1>4. ASSUME NEW n \in T PROVE m <= n
  <2>1. m \in Nat /\ n \in Nat /\ ~(<<n, m>> \in R)
    BY <1>3
  <2>2. ~(n < m)
    BY <1>2, <2>1
  <2> QED BY <2>1, <2>2
<1> QED BY <1>4

HasLargest(T) == \E m \in T : \A n \in T : n <= m

\* and a finite one has a largest, which Max is
LEMMA LargestOne ==
  ASSUME NEW S, S \subseteq Nat, S # {}, IsFiniteSet(S)
  PROVE  /\ Max(S) \in S /\ \A n \in S : n <= Max(S)
         /\ 1 + Max(S) \in Nat \ {0} /\ 1 + Max(S) \notin S
<1> DEFINE Bad(T) == T \in SUBSET S /\ T # {} /\ ~HasLargest(T)
           B == {n \in Nat : \E T \in SUBSET S : Bad(T) /\ Cardinality(T) = n}
<1>1. \A T \in SUBSET S : IsFiniteSet(T) /\ Cardinality(T) \in Nat
  BY FS_Subset, FS_CardinalityType
<1>2. ASSUME B # {} PROVE FALSE
  <2>1. PICK n \in B : \A m \in B : n <= m
    BY <1>2, LeastOne
  <2>2. PICK T \in SUBSET S : Bad(T) /\ Cardinality(T) = n
    BY <2>1
  <2>3. PICK x \in T : TRUE
    BY <2>2
  <2>4. CASE T \ {x} = {}
    <3>1. T = {x} /\ x \in Nat
      BY <2>3, <2>4
    <3>2. HasLargest(T)
      BY <3>1 DEF HasLargest
    <3> QED BY <2>2, <3>2
  <2>5. CASE T \ {x} # {}
    <3>1. T \ {x} \in SUBSET S /\ Cardinality(T \ {x}) = n - 1 /\ n - 1 \in Nat
      <4>1. T \ {x} \in SUBSET S /\ Cardinality(T \ {x}) = n - 1
        BY <1>1, <2>2, <2>3, FS_RemoveElement
      <4> QED BY <1>1, <4>1
    <3>2. ~Bad(T \ {x})
      BY <2>1, <3>1
    <3>3. PICK m \in T \ {x} : \A k \in T \ {x} : k <= m
      BY <2>5, <3>1, <3>2 DEF HasLargest
    <3>4. m \in Nat /\ x \in Nat /\ \A k \in T : k = x \/ k <= m
      BY <2>3, <3>3
    <3>5. \E l \in T : \A k \in T : k <= l
      <4>1. CASE x <= m
        BY <3>3, <3>4, <4>1
      <4>2. CASE m <= x
        <5>1. \A k \in T : k <= x
          BY <3>4, <4>2
        <5> QED BY <2>3, <5>1
      <4> QED BY <3>4, <4>1, <4>2
    <3> QED BY <2>2, <3>5 DEF HasLargest
  <2> QED BY <2>4, <2>5
<1>3. HasLargest(S)
  <2>1. ~Bad(S)
    BY <1>1, <1>2
  <2> QED BY <2>1
<1>4. \E m \in S : \A n \in S : m >= n
  BY <1>3 DEF HasLargest
<1>5. Max(S) \in S /\ \A n \in S : Max(S) >= n
  BY <1>4 DEF Max
<1>6. Max(S) \in Nat
  BY <1>5
<1> QED BY <1>5, <1>6

------------------------------------------------------------------------------
Registered == {e \in Addresses : user[e] # 0}
Ordered == {e \in Addresses : orders[e] > 0}

\* who is known: ids are keys, and whoever is a mechanic or has details is a user
People ==
  /\ IsFiniteSet(Registered)
  /\ \A e, f \in Addresses : user[e] # 0 /\ user[e] = user[f] => e = f
  /\ \A row \in mechanic : row[2] \in Registered
  /\ \A e \in Addresses : profile[e] # 0 => user[e] # 0
  /\ \A row \in mechanic :
       profile[row[2]] # 0 \/ row[2] \in torn \/ (stage = "details" /\ Due = row[2])

\* where a loop over the mechanics is
InRound ==
  /\ stage \in {"mechanic", "details"} => at <= Len(Mechanics)
  /\ stage = "mechanic" => user[Due] # 0
  /\ stage = "details" => <<CodeOf[Due], Due>> \in mechanic

\* a round of reports makes one more at most
Reported ==
  /\ stage = "report" => at <= Reports + 1 /\ reports + 2 <= Reports + at
  /\ reports < 2 * Reports
  /\ \A n \in RangeOf(Catalogue) : product[n] <= 1

\* whose a seeded code is: the seeded mechanic's, or a visitor's who took it first
Filled(m) == \E e \in Visitors \cup {m} : <<CodeOf[m], e>> \in mechanic
Hired ==
  \A row \in mechanic :
    row[2] \in Visitors \/ \E m \in RangeOf(Mechanics) : row = <<CodeOf[m], m>>

\* whom an order is still to be made for has none
ToServe ==
  /\ stage # "order" => todo = <<>>
  /\ \A j, k \in 1..Len(todo) : todo[j] = todo[k] => j = k
  /\ \A k \in 1..Len(todo) : orders[todo[k]] = 0
  /\ \A e \in Addresses : orders[e] <= 1
  /\ IsFiniteSet(Ordered) /\ Cardinality(Ordered) + Len(todo) <= Orders

\* of the users that were fetched all have an order, but for those it is still to be
\* made for, unless the making of orders was broken off
Making ==
  /\ Ordered \subseteq wanted
  /\ \A k \in 1..Len(todo) : todo[k] \in wanted
  /\ broken \/ \A e \in wanted : e \in Ordered \/ \E k \in 1..Len(todo) : todo[k] = e
  /\ stage = "order" => ~broken

\* what a start in which nothing failed has done when it is at a function
Stocked ==
  /\ stage = "products" => \A k \in 1..Len(Catalogue) : k < at => product[Catalogue[k]] = 1
  /\ clean /\ stage \notin {"down", "ping", "products"} =>
       \A n \in RangeOf(Catalogue) : product[n] = 1
Staffed ==
  /\ stage \in {"user", "mechanic", "details"} =>
       \A k \in 1..Len(Mechanics) : k < at => Filled(Mechanics[k])
  /\ clean /\ stage \in {"reports", "report", "orders", "order", "serving"} =>
       \A m \in RangeOf(Mechanics) : Filled(m)
Served ==
  /\ stage = "report" /\ clean => at <= reports + 1
  /\ clean /\ stage \in {"orders", "order", "serving"} => reports + placed["report"] >= Reports
  /\ clean /\ stage = "order" => todo # <<>> \/ Ordered # {}
  /\ clean /\ stage = "serving" => placed["order"] > 0 \/ Ordered # {}

SeedIInv ==
  /\ SeedTypes /\ People /\ Hired /\ InRound /\ Reported /\ ToServe /\ Making
  /\ Stocked /\ Staffed /\ Served

Rank(e) == Cardinality({f \in Registered : user[f] < user[e]})

\* A rank is a number below the number of users, and grows with the id.
LEMMA RankType ==
  ASSUME SeedTypes, People, NEW e \in Registered
  PROVE  /\ IsFiniteSet({f \in Registered : user[f] < user[e]})
         /\ Rank(e) \in Nat /\ Rank(e) <= Cardinality(Registered) - 1
         /\ e \in Addresses /\ user[e] \in Nat \ {0}
<1> DEFINE Below == {f \in Registered : user[f] < user[e]}
<1>1. IsFiniteSet(Registered) /\ Cardinality(Registered) \in Nat
  BY FS_CardinalityType DEF People
<1>2. e \in Addresses /\ user[e] \in Nat \ {0}
  BY DEF SeedTypes, Registered
<1>3. Below \in SUBSET (Registered \ {e})
  BY <1>2
<1>4. IsFiniteSet(Registered \ {e}) /\ Cardinality(Registered \ {e}) = Cardinality(Registered) - 1
  BY <1>1, FS_RemoveElement
<1>5. IsFiniteSet(Below) /\ Cardinality(Below) <= Cardinality(Registered) - 1
  BY <1>3, <1>4, FS_Subset
<1>6. Cardinality(Below) \in Nat
  BY <1>5, FS_CardinalityType
<1> QED BY <1>2, <1>5, <1>6 DEF Rank

\* ids in their order have ranks in their order,
LEMMA RankGrows ==
  ASSUME SeedTypes, People, NEW e \in Registered, NEW g \in Registered, user[e] < user[g]
  PROVE  Rank(e) < Rank(g)
<1> DEFINE Below(x) == {f \in Registered : user[f] < user[x]}
<1>1. IsFiniteSet(Below(e)) /\ IsFiniteSet(Below(g)) /\ user[e] \in Nat /\ user[g] \in Nat
  BY RankType
<1>2. \A f \in Registered : user[f] \in Nat
  BY RankType
<1>3. Below(e) \in SUBSET Below(g) /\ e \in Below(g) /\ e \notin Below(e)
  BY <1>1, <1>2
<1>4. Cardinality(Below(e)) <= Cardinality(Below(g)) /\ Cardinality(Below(g)) # Cardinality(Below(e))
  BY <1>1, <1>3, FS_Subset
<1>5. Rank(e) = Cardinality(Below(e)) /\ Rank(g) = Cardinality(Below(g))
  BY DEF Rank
<1>6. Rank(e) \in Nat /\ Rank(g) \in Nat
  BY RankType
<1> HIDE DEF Below
<1> QED BY <1>4, <1>5, <1>6

\* and so no two users have the same.
LEMMA RankIsOwn ==
  ASSUME SeedTypes, People, NEW e \in Registered, NEW g \in Registered, Rank(e) = Rank(g)
  PROVE  e = g
<1>1. /\ Rank(e) \in Nat /\ Rank(g) \in Nat /\ e \in Addresses /\ g \in Addresses
      /\ user[e] \in Nat \ {0} /\ user[g] \in Nat \ {0}
  BY RankType
<1>2. ~(Rank(e) < Rank(g)) /\ ~(Rank(g) < Rank(e))
  BY <1>1
<1>3. ~(user[e] < user[g])
  BY <1>2, RankGrows
<1>4. ~(user[g] < user[e])
  BY <1>2, RankGrows
<1>5. user[e] = user[g]
  BY <1>1, <1>3, <1>4
<1> QED BY <1>1, <1>5 DEF People

\* The users have the ranks from none on, each once.
LEMMA RanksAreFilled ==
  ASSUME SeedTypes, People
  PROVE  /\ Cardinality(Registered) \in Nat
         /\ \A k \in 1..Cardinality(Registered) : \E e \in Registered : Rank(e) = k - 1
<1> DEFINE n == Cardinality(Registered)
           f == [e \in Registered |-> Rank(e)]
<1>1. IsFiniteSet(Registered) /\ n \in Nat
  BY FS_CardinalityType DEF People
<1>2. \A e \in Registered : Rank(e) \in Nat /\ Rank(e) <= n - 1
  BY RankType
<1>3. \A e, g \in Registered : Rank(e) = Rank(g) => e = g
  BY RankIsOwn
<1> HIDE DEF n
<1>4. \A e \in Registered : Rank(e) \in 0..(n - 1)
  BY <1>1, <1>2
<1>5. f \in Injection(Registered, 0..(n - 1))
  BY <1>3, <1>4 DEF Injection, IsInjective
<1>6. IsFiniteSet(0..(n - 1)) /\ Cardinality(0..(n - 1)) = n
  BY <1>1, FS_Interval
<1>7. Cardinality(Registered) = Cardinality(0..(n - 1))
  BY <1>6 DEF n
<1>8. f \in Surjection(Registered, 0..(n - 1))
  BY <1>5, <1>6, <1>7, FS_Injection
<1>9. \A k \in 0..(n - 1) : \E e \in Registered : Rank(e) = k
  BY <1>8 DEF Surjection
<1>10. \A k \in 1..n : k - 1 \in 0..(n - 1)
  BY <1>1
<1>11. \A k \in 1..n : \E e \in Registered : Rank(e) = k - 1
  BY <1>9, <1>10
<1> QED BY <1>1, <1>11 DEF n

\* The first users are different ones, and as many as orders may be made.
LEMMA FirstUsersAre ==
  ASSUME SeedTypes, People
  PROVE  /\ FirstUsers \in Seq(Addresses) /\ Len(FirstUsers) <= Orders
         /\ \A k \in 1..Len(FirstUsers) : FirstUsers[k] \in Registered
         /\ \A j, k \in 1..Len(FirstUsers) : FirstUsers[j] = FirstUsers[k] => j = k
         /\ Registered # {} => FirstUsers # <<>>
<1> DEFINE n == Cardinality(Registered)
           m == IF n < Orders THEN n ELSE Orders
           of(k) == CHOOSE e \in Registered : Rank(e) = k - 1
<1>1. FirstUsers = [k \in 1..m |-> of(k)]
  BY DEF FirstUsers, Registered, Rank
<1>2. n \in Nat /\ Orders \in Nat \ {0} /\ m \in Nat /\ m <= n /\ m <= Orders
  BY RanksAreFilled, SeedAssumption
<1>3. \A k \in 1..m : of(k) \in Registered /\ Rank(of(k)) = k - 1
  <2> SUFFICES ASSUME NEW k \in 1..m PROVE of(k) \in Registered /\ Rank(of(k)) = k - 1
    OBVIOUS
  <2>1. \E e \in Registered : Rank(e) = k - 1
    BY <1>2, RanksAreFilled
  <2> QED BY <2>1
<1> HIDE DEF of
<1>4. \A k \in 1..m : of(k) \in Addresses
  BY <1>3 DEF Registered
<1>5. FirstUsers \in Seq(Addresses) /\ Len(FirstUsers) = m
  BY <1>1, <1>2, <1>4
<1>6. \A k \in 1..m : FirstUsers[k] = of(k)
  BY <1>1
<1>7. \A j, k \in 1..m : of(j) = of(k) => j = k
  <2> SUFFICES ASSUME NEW j \in 1..m, NEW k \in 1..m, of(j) = of(k) PROVE j = k
    OBVIOUS
  <2>1. j - 1 = k - 1
    BY <1>3
  <2> QED BY <1>2, <2>1
<1>8. Registered # {} => m # 0
  <2>1. IsFiniteSet(Registered)
    BY DEF People
  <2>2. Registered # {} => n # 0
    BY <2>1, FS_EmptySet
  <2> QED BY <1>2, <2>2
<1>9. Registered # {} => FirstUsers # <<>>
  BY <1>5, <1>8
<1> QED BY <1>2, <1>3, <1>5, <1>6, <1>7, <1>9

\* What the invariant of the seeding says of the tables.
LEMMA SeedInvFollows == SeedIInv => SeedInv /\ BootCompletes
<1> SUFFICES ASSUME SeedIInv PROVE SeedInv /\ BootCompletes
  OBVIOUS
<1>1. SeedTypes /\ People /\ Reported /\ ToServe /\ Making /\ Stocked /\ Staffed /\ Served
  BY DEF SeedIInv
<1>2. {e \in Addresses : orders[e] > 0} = Ordered
  BY DEF Ordered
<1>3. Cardinality(Ordered) <= Orders
  <2>1. Cardinality(Ordered) \in Nat /\ Len(todo) \in Nat /\ Orders \in Nat
    BY <1>1, FS_CardinalityType, SeedAssumption DEF ToServe, SeedTypes
  <2> QED BY <1>1, <2>1 DEF ToServe
<1>4. NothingTwice
  BY <1>1, <1>2, <1>3 DEF NothingTwice, Reported, ToServe
<1>5. SeedInv
  BY <1>1, <1>4 DEF SeedInv, People
<1>6. ASSUME stage = "serving", Ordered # {} PROVE wanted # {} /\ (broken \/ \A e \in wanted : orders[e] = 1)
  <2>1. todo = <<>> /\ wanted \subseteq Addresses /\ Len(todo) = 0
    BY <1>1, <1>6 DEF ToServe, SeedTypes
  <2>2. wanted # {}
    BY <1>1, <1>6 DEF Making
  <2>3. ASSUME ~broken, NEW e \in wanted PROVE orders[e] = 1
    <3>1. e \in Ordered
      BY <1>1, <2>1, <2>3 DEF Making
    <3>2. orders[e] \in Nat /\ orders[e] > 0 /\ orders[e] <= 1
      BY <1>1, <2>1, <2>3, <3>1 DEF Ordered, SeedTypes, ToServe
    <3> QED BY <3>2
  <2> QED BY <2>2, <2>3
<1>7. BootCompletes
  <2>1. ASSUME stage = "serving", clean
        PROVE  placed["order"] > 0 \/ (wanted # {} /\ (broken \/ \A e \in wanted : orders[e] = 1))
    <3>1. placed["order"] > 0 \/ Ordered # {}
      BY <1>1, <2>1 DEF Served
    <3> QED BY <1>6, <2>1, <3>1
  <2>2. ASSUME stage = "serving", clean
        PROVE  /\ \A n \in RangeOf(Catalogue) : product[n] = 1
               /\ \A m \in RangeOf(Mechanics) : Filled(m)
               /\ reports + placed["report"] >= Reports
    BY <1>1, <2>2 DEF Stocked, Staffed, Served
  <2> QED BY <1>1, <2>1, <2>2 DEF BootCompletes, People, Filled
<1> QED BY <1>5, <1>7

\* The tables hold only what the identity service put there.
LEMMA SeedStarts == SeedInit => SeedIInv
<1> SUFFICES ASSUME SeedInit PROVE SeedIInv
  OBVIOUS
<1> DEFINE At0(e) == {0} \cup {k \in 1..Len(Early) : Early[k] = e}
<1>1. Len(Early) \in Nat /\ \A k \in 1..Len(Early) : Early[k] \in Customers
  BY SeedAssumption
<1>2. \A e \in Addresses : Max(At0(e)) \in At0(e) /\ Max(At0(e)) \in Nat
  <2> SUFFICES ASSUME NEW e \in Addresses PROVE Max(At0(e)) \in At0(e) /\ Max(At0(e)) \in Nat
    OBVIOUS
  <2>1. At0(e) \in SUBSET (0..Len(Early)) /\ At0(e) # {} /\ At0(e) \subseteq Nat
    BY <1>1
  <2>2. IsFiniteSet(0..Len(Early))
    BY <1>1, FS_Interval
  <2>3. IsFiniteSet(At0(e))
    BY <2>1, <2>2, FS_Subset
  <2>4. Max(At0(e)) \in At0(e)
    BY <2>1, <2>3, LargestOne
  <2> QED BY <2>1, <2>4
<1>3. user = [e \in Addresses |-> Max(At0(e))]
  BY DEF SeedInit
<1> HIDE DEF At0
<1>4. user \in [Addresses -> Nat] /\ \A e \in Addresses : user[e] \in At0(e)
  BY <1>2, <1>3
<1>5. \A e \in Addresses : user[e] # 0 => user[e] \in 1..Len(Early) /\ Early[user[e]] = e
  BY <1>4 DEF At0
<1>6. SeedTypes
  <2>1. /\ stage = "down" /\ at = 1 /\ todo = <<>> /\ profile = user /\ mechanic = {}
        /\ product = [n \in RangeOf(Catalogue) |-> 0] /\ orders = [e \in Addresses |-> 0]
        /\ sequence = [t \in {"user", "details"} |-> Len(Early)]
        /\ placed = [t \in {"report", "order"} |-> 0]
        /\ reports = 0 /\ boots = 0 /\ ended = "never" /\ clean = TRUE /\ torn = {}
        /\ wanted = {} /\ broken = FALSE
    BY DEF SeedInit
  <2>2. /\ stage \in {"down"} /\ at \in Nat \ {0} /\ todo \in Seq(Addresses) /\ boots \in 0..MaxBoots
        /\ product \in [RangeOf(Catalogue) -> Nat] /\ orders \in [Addresses -> Nat]
        /\ placed \in [{"report", "order"} -> Nat] /\ reports \in Nat
    BY <2>1, SeedAssumption
  <2>3. {user, profile} \subseteq [Addresses -> Nat] /\ sequence \in [{"user", "details"} -> Nat]
    BY <1>1, <1>4, <2>1
  <2>4. /\ mechanic \subseteq MechanicCodes \X Addresses /\ torn \subseteq RangeOf(Mechanics)
        /\ wanted \subseteq Addresses /\ ended \in {"never", "killed", "exit"}
    BY <2>1
  <2>5. clean \in BOOLEAN /\ broken \in BOOLEAN
    BY <2>1
  <2> QED BY <2>2, <2>3, <2>4, <2>5 DEF SeedTypes
<1>7. IsFiniteSet(Registered)
  <2>1. IsFiniteSet(1..Len(Early))
    BY <1>1, FS_Interval
  <2> DEFINE f == [k \in 1..Len(Early) |-> Early[k]]
             T == {Early[k] : k \in 1..Len(Early)}
  <2>2. f \in Surjection(1..Len(Early), T)
    BY DEF Surjection
  <2>3. IsFiniteSet(T)
    BY <2>1, <2>2, FS_Surjection
  <2>4. Registered \in SUBSET T
    BY <1>5 DEF Registered
  <2> QED BY <2>3, <2>4, FS_Subset
<1>8. People
  <2>1. \A e, f \in Addresses : user[e] # 0 /\ user[e] = user[f] => e = f
    BY <1>5
  <2>2. mechanic = {} /\ profile = user
    BY DEF SeedInit
  <2> QED BY <1>7, <2>1, <2>2 DEF People
<1>9. ToServe
  <2>1. Ordered = {} /\ todo = <<>> /\ \A e \in Addresses : orders[e] = 0
    BY DEF Ordered, SeedInit
  <2>2. IsFiniteSet(Ordered) /\ Cardinality(Ordered) = 0 /\ Len(todo) = 0
    BY <2>1, FS_EmptySet
  <2> QED BY <2>1, <2>2, SeedAssumption DEF ToServe
<1>10. InRound /\ Reported /\ Stocked /\ Staffed /\ Served
  BY SeedAssumption DEF SeedInit, InRound, Reported, Stocked, Staffed, Served
<1>11. Hired /\ Making
  <2>1. Ordered = {} /\ todo = <<>> /\ wanted = {} /\ mechanic = {} /\ stage = "down" /\ Len(todo) = 0
    BY DEF Ordered, SeedInit
  <2> QED BY <2>1 DEF Hired, Making
<1> QED BY <1>6, <1>8, <1>9, <1>10, <1>11 DEF SeedIInv

------------------------------------------------------------------------------
(* What a step that is about something else leaves.                        *)
LEMMA PeopleStay ==
  ASSUME People, Hired, user' = user, profile' = profile, mechanic' = mechanic, torn \subseteq torn',
         stage = "details" => Due \in torn' \/ (stage' = "details" /\ at' = at)
  PROVE  People' /\ Hired'
<1>1. Registered' = Registered
  BY DEF Registered
<1>2. \A row \in mechanic :
       profile[row[2]] # 0 \/ row[2] \in torn' \/ (stage' = "details" /\ Due' = row[2])
  BY DEF People, Due
<1>3. Hired'
  BY DEF Hired
<1> QED BY <1>1, <1>2, <1>3 DEF People

\* What is left to do stays,
LEMMA ToServeStays ==
  ASSUME ToServe, Making, round' = round, orders' = orders,
         stage' = stage \/ (stage # "order" /\ stage' # "order")
  PROVE  ToServe' /\ Making'
<1>1. Ordered' = Ordered /\ todo' = todo /\ wanted' = wanted /\ broken' = broken
  BY DEF Ordered, round
<1> QED BY <1>1 DEF ToServe, Making

\* or is broken off.
LEMMA ToServeEnds ==
  ASSUME ToServe, Making, SeedTypes, orders' = orders, wanted' = wanted,
         todo' = <<>>, broken' = (broken \/ stage = "order"), stage' # "order"
  PROVE  ToServe' /\ Making'
<1>1. Ordered' = Ordered
  BY DEF Ordered
<1>2. Cardinality(Ordered) \in Nat /\ Len(todo) \in Nat /\ Orders \in Nat /\ Len(todo') = 0
  BY FS_CardinalityType, SeedAssumption DEF ToServe, SeedTypes
<1>3. Cardinality(Ordered) + 0 <= Orders
  BY <1>2 DEF ToServe
<1>4. ToServe'
  BY <1>1, <1>2, <1>3 DEF ToServe
<1>5. ASSUME ~broken' PROVE \A e \in wanted : e \in Ordered
  <2>1. ~broken /\ stage # "order"
    BY <1>5
  <2>2. Len(todo) = 0
    BY <2>1 DEF ToServe
  <2> QED BY <2>1, <2>2 DEF Making
<1>6. Ordered' \subseteq wanted' /\ \A k \in 1..Len(todo') : todo'[k] \in wanted'
  BY <1>1, <1>2 DEF Making
<1>7. broken' \/ \A e \in wanted' : e \in Ordered' \/ \E k \in 1..Len(todo') : todo'[k] = e
  BY <1>1, <1>5
<1>8. Making'
  BY <1>6, <1>7 DEF Making
<1> QED BY <1>4, <1>8

\* A start, a failure or the end of one: nothing was seeded, and no loop is entered.
LEMMA RestartKeeps ==
  ASSUME SeedIInv, SeedTypes', user' = user, profile' = profile, mechanic' = mechanic,
         UNCHANGED goods, at' = 1, todo' = <<>>, torn \subseteq torn', wanted' = wanted,
         broken' = (broken \/ stage = "order"),
         stage = "details" => Due \in torn',
         stage' \in {"down", "ping", "products", "user", "reports", "orders", "serving"},
         clean' => stage' \in {"down", "ping", "products"}
  PROVE  SeedIInv'
<1>1. People' /\ Hired'
  BY PeopleStay DEF SeedIInv
<1>2. ToServe' /\ Making'
  BY ToServeEnds DEF SeedIInv, goods
<1>3. InRound' /\ Reported' /\ Stocked' /\ Staffed' /\ Served'
  BY DEF SeedIInv, InRound, Reported, Stocked, Staffed, Filled, Served, goods
<1> QED BY <1>1, <1>2, <1>3 DEF SeedIInv

\* The mechanic that is due is on the list.
LEMMA DueIsThere ==
  ASSUME SeedTypes, at <= Len(Mechanics)
  PROVE  /\ at \in 1..Len(Mechanics) /\ Len(Mechanics) \in Nat
         /\ Due \in RangeOf(Mechanics) /\ Due \in Addresses
<1>1. at \in Nat \ {0} /\ Len(Mechanics) \in Nat
  BY SeedAssumption DEF SeedTypes
<1> QED BY <1>1 DEF Due, RangeOf, Addresses

\* Who is torn is a mechanic of the list.
LEMMA TornTyped ==
  ASSUME SeedIInv, torn' = IF stage = "details" THEN torn \cup {Due} ELSE torn
  PROVE  /\ torn' \subseteq RangeOf(Mechanics) /\ torn \subseteq torn'
         /\ stage = "details" => Due \in torn'
<1>1. CASE stage = "details"
  <2>1. Due \in RangeOf(Mechanics)
    BY <1>1, DueIsThere DEF SeedIInv, InRound
  <2> QED BY <1>1, <2>1 DEF SeedIInv, SeedTypes
<1> QED BY <1>1 DEF SeedIInv, SeedTypes

\* The container starts on the tables as they are.
LEMMA BootKeeps ==
  ASSUME SeedIInv, Boot
  PROVE  SeedIInv'
<1>1. /\ stage = "down" /\ boots < MaxBoots /\ stage' = "ping" /\ at' = 1 /\ boots' = boots + 1
      /\ clean' = TRUE /\ UNCHANGED <<round, people, goods, ended, torn>>
  BY DEF Boot, Enter
<1>2. SeedTypes' /\ todo' = <<>> /\ wanted' = wanted /\ broken' = (broken \/ stage = "order")
  <2>1. boots \in Nat /\ boots' \in 0..MaxBoots
    BY <1>1, SeedAssumption DEF SeedIInv, SeedTypes
  <2>2. SeedTypes /\ todo = <<>> /\ todo' = todo /\ wanted' = wanted /\ broken' = broken
    BY <1>1 DEF SeedIInv, ToServe, round
  <2>3. clean' \in BOOLEAN /\ broken' = (broken \/ stage = "order")
    BY <1>1, <2>2 DEF SeedTypes
  <2>4. SeedTypes'
    <3>1. /\ boots' \in 0..MaxBoots /\ broken' = broken /\ clean' = TRUE /\ ended' = ended
          /\ torn' = torn /\ todo' = todo /\ wanted' = wanted /\ stage' = "ping" /\ at' = 1
          /\ UNCHANGED <<product, reports, orders, placed>>
          /\ UNCHANGED <<user, profile, mechanic, sequence>>
      BY <1>1, <2>1, <2>2 DEF people, goods
    <3> QED BY <2>2, <3>1 DEF SeedTypes
  <2> QED BY <2>2, <2>3, <2>4
<1> QED BY <1>1, <1>2, RestartKeeps DEF people

\* The command waits for the identity server, or exits without it.
LEMMA PingKeeps ==
  ASSUME SeedIInv, Ping
  PROVE  SeedIInv'
<1>1. /\ stage = "ping" /\ stage' \in {"products", "down"} /\ at' = 1 /\ ended' \in {ended, "exit"}
      /\ UNCHANGED <<round, people, goods, boots, clean, torn>>
  BY DEF Ping, Enter
<1>2. SeedTypes' /\ todo' = <<>> /\ wanted' = wanted /\ broken' = (broken \/ stage = "order")
  <2>1. SeedTypes /\ todo = <<>> /\ todo' = todo /\ wanted' = wanted /\ broken' = broken
    BY <1>1 DEF SeedIInv, ToServe, round
  <2>2. broken' = (broken \/ stage = "order")
    BY <1>1, <2>1 DEF SeedTypes
  <2>3. SeedTypes'
    BY <1>1, <2>1 DEF SeedTypes, people, goods
  <2> QED BY <2>1, <2>2, <2>3
<1> QED BY <1>1, <1>2, RestartKeeps DEF people

\* The container is killed: what was inserted stays.
LEMMA KillKeeps ==
  ASSUME SeedIInv, Kill
  PROVE  SeedIInv'
<1>1. /\ stage' = "down" /\ at' = 1 /\ ended' = "killed" /\ todo' = <<>>
      /\ torn' = IF stage = "details" THEN torn \cup {Due} ELSE torn
      /\ broken' = (broken \/ stage = "order")
      /\ UNCHANGED <<people, goods, boots, clean, wanted>>
  BY DEF Kill, Enter
<1>2. /\ torn' \subseteq RangeOf(Mechanics) /\ torn \subseteq torn'
      /\ stage = "details" => Due \in torn'
  BY <1>1, TornTyped
<1>3. SeedTypes'
  BY <1>1, <1>2 DEF SeedIInv, SeedTypes, people, goods
<1> QED BY <1>1, <1>2, <1>3, RestartKeeps DEF people

\* A function that is given up, whatever id it has taken in vain.
LEMMA GiveUpKeeps ==
  ASSUME SeedIInv, GiveUp, todo' = <<>>, user' = user, profile' = profile, mechanic' = mechanic,
         wanted' = wanted, sequence' \in [{"user", "details"} -> Nat], UNCHANGED <<goods, boots>>,
         stage \in {"products", "user", "mechanic", "details", "reports", "orders", "order"}
  PROVE  SeedIInv'
<1>1. /\ stage' \in {"user", "reports", "orders", "serving"} /\ at' = 1 /\ clean' = FALSE
      /\ torn' = IF stage = "details" THEN torn \cup {Due} ELSE torn
      /\ ended' = ended /\ broken' = (broken \/ stage = "order")
  <2>1. NextFunction \in {"user", "reports", "orders", "serving"}
    BY DEF NextFunction
  <2> QED BY <2>1 DEF GiveUp, Enter
<1>2. /\ torn' \subseteq RangeOf(Mechanics) /\ torn \subseteq torn'
      /\ stage = "details" => Due \in torn'
  BY <1>1, TornTyped
<1>3. SeedTypes'
  <2>1. SeedTypes /\ boots' = boots /\ product' = product /\ reports' = reports
        /\ orders' = orders /\ placed' = placed
    BY DEF SeedIInv, goods
  <2>2. todo' \in Seq(Addresses)
    OBVIOUS
  <2>3. /\ user' \in [Addresses -> Nat] /\ profile' \in [Addresses -> Nat] /\ mechanic' \subseteq MechanicCodes \X Addresses
        /\ product' \in [RangeOf(Catalogue) -> Nat] /\ orders' \in [Addresses -> Nat]
        /\ reports' \in Nat /\ placed' \in [{"report", "order"} -> Nat] /\ boots' \in 0..MaxBoots
        /\ wanted' \subseteq Addresses /\ broken' \in BOOLEAN
    BY <1>1, <2>1 DEF SeedTypes
  <2>4. ended' \in {"never", "killed", "exit"} /\ clean' \in BOOLEAN /\ at' \in Nat \ {0}
    <3>1. ended' = ended /\ ended \in {"never", "killed", "exit"}
      BY <1>1, <2>1 DEF SeedTypes
    <3>2. clean' \in BOOLEAN
      BY <1>1
    <3>3. at' \in Nat \ {0}
      BY <1>1
    <3> QED BY <3>1, <3>2, <3>3
  <2>5. stage' \in {"user", "reports", "orders", "serving"} /\ torn' \subseteq RangeOf(Mechanics)
    BY <1>1, <1>2
  <2> QED BY <2>2, <2>3, <2>4, <2>5 DEF SeedTypes
<1> QED BY <1>1, <1>2, <1>3, RestartKeeps DEF goods

\* A statement fails: its function is given up and handle goes on.
LEMMA RaiseKeeps ==
  ASSUME SeedIInv, Raise
  PROVE  SeedIInv'
<1>1. sequence' = sequence /\ sequence \in [{"user", "details"} -> Nat]
  BY DEF Raise, people, SeedIInv, SeedTypes
<1> QED BY <1>1, GiveUpKeeps DEF Raise, people

\* A product is inserted unless one has its name.
LEMMA CreateProductKeeps ==
  ASSUME SeedIInv, CreateProduct
  PROVE  SeedIInv'
<1>1. /\ SeedTypes /\ stage = "products" /\ Len(Catalogue) \in Nat /\ at \in Nat \ {0}
      /\ UNCHANGED <<round, people, reports, orders, placed, boots, ended, clean, torn>>
  <2>1. SeedTypes
    BY DEF SeedIInv
  <2>2. at \in Nat \ {0}
    BY <2>1 DEF SeedTypes
  <2>3. Len(Catalogue) \in Nat
    BY SeedAssumption
  <2> QED BY <2>1, <2>2, <2>3 DEF CreateProduct
<1>2. /\ stage' \in {"user", "products"} /\ at' \in Nat \ {0}
      /\ stage' = "user" => at > Len(Catalogue) /\ at' = 1 /\ product' = product
      /\ stage' = "products" => /\ at <= Len(Catalogue) /\ at' = at + 1
                               /\ product' = [product EXCEPT ![Catalogue[at]] = IF @ > 0 THEN @ ELSE @ + 1]
  BY <1>1 DEF CreateProduct, Enter, Round
<1>3. People' /\ Hired'
  BY <1>1, PeopleStay DEF SeedIInv, people
<1>4. ToServe' /\ Making'
  BY <1>1, <1>2, ToServeStays DEF SeedIInv
<1>5. /\ \A n \in RangeOf(Catalogue) : product[n] \in Nat /\ product[n] <= 1
      /\ \A k \in 1..Len(Catalogue) : Catalogue[k] \in RangeOf(Catalogue)
      /\ \A n \in RangeOf(Catalogue) : \E k \in 1..Len(Catalogue) : Catalogue[k] = n
      /\ \A k \in 1..Len(Catalogue) : k < at => product[Catalogue[k]] = 1
  BY <1>1 DEF SeedIInv, SeedTypes, Reported, Stocked, RangeOf
<1>6. CASE stage' = "user"
  <2>1. \A n \in RangeOf(Catalogue) : product[n] = 1
    <3> SUFFICES ASSUME NEW n \in RangeOf(Catalogue) PROVE product[n] = 1
      OBVIOUS
    <3>1. PICK k \in 1..Len(Catalogue) : Catalogue[k] = n
      BY <1>5
    <3>2. k < at
      BY <1>1, <1>2, <1>6
    <3> QED BY <1>5, <3>1, <3>2
  <2>2. SeedTypes'
    BY <1>1, <1>2, <1>6 DEF SeedTypes, round, people
  <2>3. InRound' /\ Reported' /\ Stocked' /\ Staffed' /\ Served'
    BY <1>1, <1>2, <1>6, <2>1 DEF SeedIInv, InRound, Reported, Stocked, Staffed, Filled, Served
  <2> QED BY <1>3, <1>4, <2>2, <2>3 DEF SeedIInv
<1>7. CASE stage' = "products"
  <2>1. at \in 1..Len(Catalogue)
    BY <1>1, <1>2, <1>7
  <2>2. /\ product' \in [RangeOf(Catalogue) -> Nat] /\ product'[Catalogue[at]] = 1
        /\ \A n \in RangeOf(Catalogue) : n # Catalogue[at] => product'[n] = product[n]
    <3>1. product \in [RangeOf(Catalogue) -> Nat] /\ Catalogue[at] \in RangeOf(Catalogue)
      BY <1>1, <1>5, <2>1 DEF SeedTypes
    <3>2. product[Catalogue[at]] \in Nat /\ product[Catalogue[at]] <= 1
      BY <1>5, <3>1
    <3>3. (IF product[Catalogue[at]] > 0 THEN product[Catalogue[at]] ELSE product[Catalogue[at]] + 1) = 1
      BY <3>2
    <3>4. product' = [product EXCEPT ![Catalogue[at]] = 1]
      BY <1>2, <1>7, <3>3
    <3> QED BY <3>1, <3>4
  <2>3. \A n \in RangeOf(Catalogue) : product'[n] <= 1
    BY <1>5, <2>2
  <2>4. \A k \in 1..Len(Catalogue) : k < at + 1 => product'[Catalogue[k]] = 1
    <3> SUFFICES ASSUME NEW k \in 1..Len(Catalogue), k < at + 1 PROVE product'[Catalogue[k]] = 1
      OBVIOUS
    <3>1. CASE k = at
      BY <2>2, <3>1
    <3>2. CASE k < at
      BY <1>5, <2>2, <3>2
    <3> QED BY <1>1, <3>1, <3>2
  <2>5. SeedTypes'
    BY <1>1, <1>2, <1>7, <2>2 DEF SeedTypes, round, people
  <2>6. InRound' /\ Reported' /\ Stocked' /\ Staffed' /\ Served'
    BY <1>1, <1>2, <1>7, <2>3, <2>4 DEF SeedIInv, InRound, Reported, Stocked, Staffed, Filled, Served
  <2> QED BY <1>3, <1>4, <2>5, <2>6 DEF SeedIInv
<1> QED BY <1>2, <1>6, <1>7

\* A new id, of a user or of details.
LEMMA SequenceTyped ==
  ASSUME SeedTypes, NEW table \in {"user", "details"}, NEW n, NextId(table, n)
  PROVE  /\ n \in Nat \ {0} /\ sequence[table] + 1 \in Nat
         /\ sequence' \in [{"user", "details"} -> Nat]
<1>1. sequence[table] \in Nat
  BY DEF SeedTypes
<1>2. n = sequence[table] + 1 \/ n = 1
  BY DEF NextId
<1>3. sequence' = sequence \/ sequence' = [sequence EXCEPT ![table] = n]
  BY DEF NextId
<1>4. n \in Nat \ {0}
  BY <1>1, <1>2
<1> QED BY <1>1, <1>3, <1>4 DEF SeedTypes

\* One more user, with an id nobody has, and perhaps with details.
LEMMA OneMoreUser ==
  ASSUME SeedTypes, People, NEW e \in Addresses, NEW n \in Nat \ {0}, user[e] = 0,
         \A f \in Addresses : user[f] # n, user' = [user EXCEPT ![e] = n],
         profile' \in [Addresses -> Nat], \A f \in Addresses \ {e} : profile'[f] = profile[f],
         \A row \in mechanic' : row \in mechanic \/ (row[2] = e /\ profile'[e] # 0),
         mechanic \subseteq mechanic', torn' = torn, stage # "details"
  PROVE  People' /\ user' \in [Addresses -> Nat]
<1>1. user \in [Addresses -> Nat] /\ mechanic \subseteq MechanicCodes \X Addresses
  BY DEF SeedTypes
<1>2. user' \in [Addresses -> Nat] /\ user'[e] = n /\ \A f \in Addresses \ {e} : user'[f] = user[f]
  BY <1>1
<1>3. Registered' = Registered \cup {e}
  BY <1>2 DEF Registered
<1>4. IsFiniteSet(Registered')
  BY <1>3, FS_AddElement DEF People
<1>5. \A f, g \in Addresses : user'[f] # 0 /\ user'[f] = user'[g] => f = g
  BY <1>2 DEF People
<1>6. \A row \in mechanic' : row[2] \in Registered'
  BY <1>3 DEF People
<1>7. \A f \in Addresses : profile'[f] # 0 => user'[f] # 0
  BY <1>2 DEF People
<1>8. \A row \in mechanic' : profile'[row[2]] # 0 \/ row[2] \in torn'
  <2> SUFFICES ASSUME NEW row \in mechanic' PROVE profile'[row[2]] # 0 \/ row[2] \in torn'
    OBVIOUS
  <2>1. CASE row[2] = e
    <3>1. row \notin mechanic
      BY <2>1 DEF People, Registered
    <3> QED BY <2>1, <3>1
  <2>2. CASE row[2] # e
    <3>1. row \in mechanic /\ row[2] \in Addresses
      BY <1>1, <2>2
    <3> QED BY <2>2, <3>1 DEF People
  <2> QED BY <2>1, <2>2
<1> QED BY <1>2, <1>4, <1>5, <1>6, <1>7, <1>8 DEF People

\* A mechanic gets a user unless the address has one,
LEMMA SeedUserKeeps ==
  ASSUME SeedIInv, SeedUser
  PROVE  SeedIInv'
<1>1. /\ SeedTypes /\ People /\ Hired /\ stage = "user" /\ Len(Mechanics) \in Nat /\ at \in Nat \ {0}
      /\ todo = <<>> /\ todo' = <<>> /\ wanted' = wanted /\ UNCHANGED <<round, profile, mechanic, goods, boots>>
  <2>1. SeedTypes /\ People /\ Hired /\ ToServe
    BY DEF SeedIInv
  <2>2. at \in Nat \ {0}
    BY <2>1 DEF SeedTypes
  <2>3. Len(Mechanics) \in Nat
    BY SeedAssumption
  <2>4. stage = "user" /\ UNCHANGED <<round, profile, mechanic, goods, boots>>
    BY DEF SeedUser
  <2>5. todo = <<>>
    BY <2>1, <2>4 DEF ToServe
  <2> QED BY <2>1, <2>2, <2>3, <2>4, <2>5 DEF round
<1>2. ASSUME stage' \in {"reports", "mechanic"} PROVE ToServe' /\ Making'
  BY <1>1, <1>2, ToServeStays DEF SeedIInv, goods
<1>3. CASE at > Len(Mechanics)
  <2>1. /\ stage' = "reports" /\ at' = 1 /\ UNCHANGED <<user, sequence, ended, clean, torn>>
    BY <1>3 DEF SeedUser, Enter
  <2>2. SeedTypes'
    BY <1>1, <2>1 DEF SeedTypes, round, goods
  <2>3. People' /\ Hired'
    BY <1>1, <2>1, PeopleStay
  <2>4. \A m \in RangeOf(Mechanics) : Filled(m)
    <3>1. \A k \in 1..Len(Mechanics) : Filled(Mechanics[k])
      BY <1>1, <1>3 DEF SeedIInv, Staffed
    <3> QED BY <3>1 DEF RangeOf
  <2>5. InRound' /\ Reported' /\ Stocked' /\ Staffed' /\ Served'
    BY <1>1, <2>1, <2>4 DEF SeedIInv, InRound, Reported, Stocked, Staffed, Filled, Served, goods
  <2> QED BY <1>2, <2>1, <2>2, <2>3, <2>5 DEF SeedIInv
<1>4. CASE at <= Len(Mechanics) /\ user[Due] # 0
  <2>1. /\ stage' = "mechanic" /\ UNCHANGED <<at, user, sequence, ended, clean, torn>>
    BY <1>1, <1>4 DEF SeedUser
  <2>2. SeedTypes'
    BY <1>1, <2>1 DEF SeedTypes, round, goods
  <2>3. People' /\ Hired'
    BY <1>1, <2>1, PeopleStay
  <2>4. InRound' /\ Reported' /\ Stocked' /\ Staffed' /\ Served'
    BY <1>1, <1>4, <2>1 DEF SeedIInv, InRound, Reported, Stocked, Staffed, Filled, Served, goods, Due
  <2> QED BY <1>2, <2>1, <2>2, <2>3, <2>4 DEF SeedIInv
<1>5. CASE at <= Len(Mechanics) /\ user[Due] = 0
  <2>1. PICK n : /\ NextId("user", n)
                 /\ IF \E e \in Addresses : user[e] = n THEN GiveUp /\ UNCHANGED user
                    ELSE /\ user' = [user EXCEPT ![Due] = n] /\ stage' = "mechanic"
                         /\ UNCHANGED <<at, ended, clean, torn>>
    BY <1>1, <1>5 DEF SeedUser
  <2>2. n \in Nat \ {0} /\ sequence' \in [{"user", "details"} -> Nat]
    BY <1>1, <2>1, SequenceTyped
  <2>3. CASE \E e \in Addresses : user[e] = n
    <3>1. GiveUp /\ user' = user
      BY <2>1, <2>3
    <3> QED BY <1>1, <2>2, <3>1, GiveUpKeeps
  <2>4. CASE ~\E e \in Addresses : user[e] = n
    <3>1. /\ user' = [user EXCEPT ![Due] = n] /\ stage' = "mechanic"
          /\ UNCHANGED <<at, ended, clean, torn>>
      BY <2>1, <2>4
    <3>2. Due \in Addresses
      BY <1>1, <1>5, DueIsThere
    <3>3. profile \in [Addresses -> Nat]
      BY <1>1, <1>5 DEF People, Registered, SeedTypes
    <3>4. People' /\ user' \in [Addresses -> Nat]
      <4>1. \A row \in mechanic' : row \in mechanic
        BY <1>1
      <4> QED BY <1>1, <1>5, <2>2, <2>4, <3>1, <3>2, <3>3, <4>1, OneMoreUser
    <3>5. user'[Due] = n
      BY <1>1, <3>1, <3>2 DEF SeedTypes
    <3>6. SeedTypes'
      BY <1>1, <2>2, <3>1, <3>4 DEF SeedTypes, round, goods
    <3>7. InRound' /\ Reported' /\ Stocked' /\ Staffed' /\ Served'
      BY <1>1, <1>5, <2>2, <3>1, <3>5 DEF SeedIInv, InRound, Reported, Stocked, Staffed, Filled, Served, goods, Due
    <3>8. Hired'
      BY <1>1 DEF Hired
    <3> QED BY <1>2, <3>1, <3>4, <3>6, <3>7, <3>8 DEF SeedIInv
  <2> QED BY <2>3, <2>4
<1>6. user[Due] # 0 \/ user[Due] = 0
  OBVIOUS
<1> QED BY <1>1, <1>3, <1>4, <1>5, <1>6

\* The next round of the loop over the mechanics.
LEMMA NextRound ==
  ASSUME SeedIInv, stage \in {"mechanic", "details"}, Filled(Due), stage' = "user", at' = at + 1,
         mechanic' = mechanic
  PROVE  Staffed'
<1>1. at \in Nat /\ Len(Mechanics) \in Nat
  BY SeedAssumption DEF SeedIInv, SeedTypes
<1>2. \A k \in 1..Len(Mechanics) : k < at + 1 => Filled(Mechanics[k])
  <2> SUFFICES ASSUME NEW k \in 1..Len(Mechanics), k < at + 1 PROVE Filled(Mechanics[k])
    OBVIOUS
  <2>1. CASE k = at
    BY <2>1 DEF Due
  <2>2. CASE k < at
    BY <2>2 DEF SeedIInv, Staffed
  <2> QED BY <1>1, <2>1, <2>2
<1> QED BY <1>2 DEF Staffed, Filled

\* then the row of a mechanic,
LEMMA SeedMechanicKeeps ==
  ASSUME SeedIInv, SeedMechanic
  PROVE  SeedIInv'
<1>1. /\ SeedTypes /\ People /\ Hired /\ stage = "mechanic" /\ at \in Nat \ {0} /\ user[Due] # 0
      /\ UNCHANGED <<round, user, profile, sequence, goods, boots, ended, clean, torn>>
  BY DEF SeedMechanic, SeedIInv, SeedTypes, InRound
<1>2. at <= Len(Mechanics) /\ Due \in Addresses
  BY <1>1, DueIsThere DEF SeedIInv, InRound
<1>3. ToServe' /\ Making'
  <2>1. stage' \in {"user", "details"}
    BY DEF SeedMechanic, Round
  <2> QED BY <1>1, <2>1, ToServeStays DEF SeedIInv, goods
<1>4. CASE InUse(CodeOf[Due])
  <2>1. stage' = "user" /\ at' = at + 1 /\ mechanic' = mechanic
    BY <1>4 DEF SeedMechanic, Round
  <2>6. Filled(Due)
    <3>1. Due \in RangeOf(Mechanics)
      BY <1>1, <1>2, DueIsThere
    <3>2. PICK e \in Addresses : <<CodeOf[Due], e>> \in mechanic
      BY <1>4 DEF InUse
    <3>3. e \in Visitors \/ \E m \in RangeOf(Mechanics) : CodeOf[Due] = CodeOf[m] /\ e = m
      BY <1>1, <3>2 DEF Hired
    <3>4. e \in Visitors \/ e = Due
      BY <3>1, <3>3, SeedAssumption
    <3> QED BY <3>2, <3>4 DEF Filled
  <2>2. SeedTypes'
    BY <1>1, <2>1 DEF SeedTypes, round, goods
  <2>3. People' /\ Hired'
    BY <1>1, <2>1, PeopleStay
  <2>4. Staffed'
    BY <1>1, <2>1, <2>6, NextRound
  <2>5. InRound' /\ Reported' /\ Stocked' /\ Served'
    BY <1>1, <2>1 DEF SeedIInv, InRound, Reported, Stocked, Served, goods
  <2> QED BY <1>3, <2>2, <2>3, <2>4, <2>5 DEF SeedIInv
<1>5. CASE ~InUse(CodeOf[Due])
  <2>1. /\ stage' = "details" /\ at' = at /\ Due' = Due
        /\ mechanic' = mechanic \cup {<<CodeOf[Due], Due>>}
    BY <1>5 DEF SeedMechanic, Due
  <2>6. Due \in RangeOf(Mechanics) /\ CodeOf[Due] \in MechanicCodes
    <3>1. Due \in RangeOf(Mechanics)
      BY <1>1, <1>2, DueIsThere
    <3> QED BY <3>1, SeedAssumption
  <2>2. SeedTypes'
    <3>1. mechanic' \subseteq MechanicCodes \X Addresses
      BY <1>1, <1>2, <2>1, <2>6 DEF SeedTypes
    <3> QED BY <1>1, <2>1, <3>1 DEF SeedTypes, round, goods
  <2>3. People' /\ Hired'
    <3>1. Registered' = Registered /\ Due \in Registered
      BY <1>1, <1>2 DEF Registered
    <3>2. \A row \in mechanic' : row \in mechanic \/ row = <<CodeOf[Due], Due>>
      BY <2>1
    <3>3. \A row \in mechanic' : profile[row[2]] # 0 \/ row[2] \in torn \/ Due' = row[2]
      BY <1>1, <2>1, <3>2 DEF People
    <3>4. \A row \in mechanic' : row[2] \in Registered
      BY <1>1, <3>1, <3>2 DEF People
    <3>5. People'
      BY <1>1, <2>1, <3>1, <3>3, <3>4 DEF People
    <3>6. Hired'
      BY <1>1, <2>6, <3>2 DEF Hired
    <3> QED BY <3>5, <3>6
  <2>4. Staffed'
    <3>1. \A k \in 1..Len(Mechanics) : k < at => Filled(Mechanics[k])
      BY <1>1 DEF SeedIInv, Staffed
    <3> QED BY <2>1, <3>1 DEF Staffed, Filled
  <2>5. InRound' /\ Reported' /\ Stocked' /\ Served'
    BY <1>1, <1>2, <2>1 DEF SeedIInv, InRound, Reported, Stocked, Served, goods
  <2> QED BY <1>3, <2>2, <2>3, <2>4, <2>5 DEF SeedIInv
<1> QED BY <1>4, <1>5

\* then the details.
LEMMA SeedDetailsKeeps ==
  ASSUME SeedIInv, SeedDetails
  PROVE  SeedIInv'
<1>1. /\ SeedTypes /\ People /\ Hired /\ stage = "details" /\ at \in Nat \ {0}
      /\ <<CodeOf[Due], Due>> \in mechanic /\ todo = <<>> /\ todo' = <<>> /\ wanted' = wanted
      /\ UNCHANGED <<round, user, mechanic, goods, boots>>
  BY DEF SeedDetails, SeedIInv, SeedTypes, InRound, ToServe, round
<1>2. at <= Len(Mechanics) /\ Due \in Addresses
  BY <1>1, DueIsThere DEF SeedIInv, InRound
<1>3. PICK n : /\ NextId("details", n)
               /\ IF \E e \in Addresses : profile[e] = n THEN GiveUp /\ UNCHANGED profile
                  ELSE Round("user") /\ profile' = [profile EXCEPT ![Due] = n]
                       /\ UNCHANGED <<ended, clean, torn>>
  BY DEF SeedDetails
<1>4. n \in Nat \ {0} /\ sequence' \in [{"user", "details"} -> Nat]
  BY <1>1, <1>3, SequenceTyped
<1>5. CASE \E e \in Addresses : profile[e] = n
  <2>1. GiveUp /\ profile' = profile
    BY <1>3, <1>5
  <2> QED BY <1>1, <1>4, <2>1, GiveUpKeeps
<1>6. CASE ~\E e \in Addresses : profile[e] = n
  <2>1. /\ stage' = "user" /\ at' = at + 1 /\ profile' = [profile EXCEPT ![Due] = n]
        /\ UNCHANGED <<ended, clean, torn>>
    BY <1>3, <1>6 DEF Round
  <2>2. /\ profile' \in [Addresses -> Nat] /\ profile'[Due] = n
        /\ \A e \in Addresses \ {Due} : profile'[e] = profile[e]
    BY <1>1, <1>2, <1>4, <2>1 DEF SeedTypes
  <2>3. SeedTypes'
    <3>1. at' \in Nat \ {0} /\ todo' = todo /\ wanted' = wanted /\ broken' = broken
      BY <1>1, <2>1 DEF round
    <3>2. /\ stage' = "user" /\ user' = user /\ mechanic' = mechanic /\ UNCHANGED <<ended, clean, torn, boots>>
          /\ UNCHANGED <<product, reports, orders, placed>>
      BY <1>1, <2>1 DEF goods
    <3> QED BY <1>1, <1>4, <2>2, <3>1, <3>2 DEF SeedTypes
  <2>4. People' /\ Hired'
    <3>1. Registered' = Registered /\ Due \in Registered
      BY <1>1 DEF Registered, People
    <3>2. \A e \in Addresses : profile'[e] # 0 => user[e] # 0
      BY <2>2, <3>1 DEF People, Registered, SeedIInv
    <3>3. \A row \in mechanic : profile'[row[2]] # 0 \/ row[2] \in torn
      <4> SUFFICES ASSUME NEW row \in mechanic PROVE profile'[row[2]] # 0 \/ row[2] \in torn
        OBVIOUS
      <4>1. CASE row[2] = Due
        BY <1>4, <2>2, <4>1
      <4>2. CASE row[2] # Due
        <5>1. row[2] \in Addresses
          BY <1>1 DEF SeedTypes
        <5> QED BY <1>1, <2>2, <4>2, <5>1 DEF People
      <4> QED BY <4>1, <4>2
    <3>4. Hired'
      BY <1>1 DEF Hired
    <3>5. \A row \in mechanic : row[2] \in Registered
      BY <1>1 DEF People
    <3> QED BY <1>1, <2>1, <3>1, <3>2, <3>3, <3>4, <3>5 DEF People
  <2>5. Staffed'
    <3>1. Filled(Due)
      BY <1>1 DEF Filled
    <3> QED BY <1>1, <2>1, <3>1, NextRound
  <2>6. ToServe' /\ Making'
    BY <1>1, <2>1, ToServeStays DEF SeedIInv, goods
  <2>7. InRound' /\ Reported' /\ Stocked' /\ Served'
    BY <1>1, <2>1 DEF SeedIInv, InRound, Reported, Stocked, Served, goods
  <2> QED BY <2>3, <2>4, <2>5, <2>6, <2>7 DEF SeedIInv
<1> QED BY <1>5, <1>6

\* Reports are made when there are too few,
LEMMA CreateReportsKeeps ==
  ASSUME SeedIInv, CreateReports
  PROVE  SeedIInv'
<1>1. /\ SeedTypes /\ People /\ Hired /\ stage = "reports" /\ at' = 1
      /\ stage' = IF reports + placed["report"] >= Reports THEN "orders" ELSE "report"
      /\ UNCHANGED <<round, people, goods, boots, ended, clean, torn>>
  BY DEF CreateReports, SeedIInv, Enter
<1>2. reports \in Nat /\ placed["report"] \in Nat /\ Reports \in Nat \ {0}
  BY <1>1, SeedAssumption DEF SeedTypes
<1>3. SeedTypes'
  BY <1>1 DEF SeedTypes, round, goods, people
<1>4. People' /\ Hired'
  BY <1>1, PeopleStay DEF people
<1>5. ToServe' /\ Making'
  BY <1>1, ToServeStays DEF SeedIInv, goods
<1>6. InRound' /\ Stocked' /\ Staffed'
  BY <1>1 DEF SeedIInv, InRound, Stocked, Staffed, Filled, goods, people
<1>7. Reported' /\ Served'
  <2>1. CASE reports + placed["report"] >= Reports
    BY <1>1, <1>2, <2>1 DEF SeedIInv, Reported, Served, goods
  <2>2. CASE ~(reports + placed["report"] >= Reports)
    <3>1. reports + 2 <= Reports + 1 /\ 1 <= Reports + 1 /\ 1 <= reports + 1
      BY <1>2, <2>2
    <3> QED BY <1>1, <2>2, <3>1 DEF SeedIInv, Reported, Served, goods
  <2> QED BY <2>1, <2>2
<1> QED BY <1>3, <1>4, <1>5, <1>6, <1>7 DEF SeedIInv

\* one after the other.
LEMMA CreateReportKeeps ==
  ASSUME SeedIInv, CreateReport
  PROVE  SeedIInv'
<1>1. /\ SeedTypes /\ People /\ Hired /\ stage = "report" /\ reports \in Nat /\ at \in Nat \ {0}
      /\ placed["report"] \in Nat /\ Reports \in Nat \ {0} /\ clean \in BOOLEAN
      /\ stage' \in {"report", "orders"}
      /\ UNCHANGED <<round, people, product, orders, placed, boots, ended, torn>>
  BY SeedAssumption DEF CreateReport, SeedIInv, SeedTypes, Enter, Round
<1>2. /\ at <= Reports + 1 /\ reports + 2 <= Reports + at /\ reports < 2 * Reports
      /\ clean => at <= reports + 1
  BY <1>1 DEF SeedIInv, Reported, Served
<1>3. People' /\ Hired'
  BY <1>1, PeopleStay DEF people
<1>4. ToServe' /\ Making'
  BY <1>1, ToServeStays DEF SeedIInv
<1>5. CASE at > Reports
  <2>1. stage' = "orders" /\ at' = 1 /\ reports' = reports /\ clean' = clean
    BY <1>5 DEF CreateReport, Enter
  <2>2. SeedTypes'
    BY <1>1, <2>1 DEF SeedTypes, round, people
  <2>3. clean => reports + placed["report"] >= Reports
    BY <1>1, <1>2, <1>5
  <2>4. Served'
    BY <1>1, <2>1, <2>3 DEF Served
  <2>5. InRound' /\ Reported' /\ Stocked' /\ Staffed'
    BY <1>1, <2>1 DEF SeedIInv, InRound, Reported, Stocked, Staffed, Filled, people
  <2> QED BY <1>3, <1>4, <2>2, <2>4, <2>5 DEF SeedIInv
<1>6. CASE ~(at > Reports)
  <2>1. /\ stage' = "report" /\ at' = at + 1
        /\ \/ reports' = reports /\ clean' = FALSE
           \/ reports' = reports + 1 /\ clean' = clean
    BY <1>6 DEF CreateReport, Round
  <2>2. /\ at' <= Reports + 1 /\ reports' + 2 <= Reports + at' /\ reports' < 2 * Reports
        /\ reports' \in Nat /\ at' \in Nat \ {0}
    BY <1>1, <1>2, <1>6, <2>1
  <2>3. clean' => clean /\ at' <= reports' + 1
    <3>1. CASE clean' = FALSE
      BY <3>1
    <3>2. CASE reports' = reports + 1 /\ clean' = clean
      <4> SUFFICES ASSUME clean PROVE at' <= reports' + 1
        BY <3>2
      <4>1. at <= reports + 1
        BY <1>2
      <4> QED BY <1>1, <2>1, <3>2, <4>1
    <3> QED BY <2>1, <3>1, <3>2
  <2>4. clean' \in BOOLEAN
    BY <1>1, <2>1
  <2>5. SeedTypes'
    BY <1>1, <2>1, <2>2, <2>4 DEF SeedTypes, round, people
  <2>6. InRound' /\ Reported'
    BY <1>1, <2>1, <2>2 DEF SeedIInv, InRound, Reported
  <2>7. Stocked' /\ Staffed' /\ Served'
    BY <1>1, <2>1, <2>3 DEF SeedIInv, Stocked, Staffed, Filled, Served, people
  <2> QED BY <1>3, <1>4, <2>5, <2>6, <2>7 DEF SeedIInv
<1> QED BY <1>5, <1>6

\* Orders are made for the first users unless there is any,
LEMMA CreateOrdersKeeps ==
  ASSUME SeedIInv, CreateOrders
  PROVE  SeedIInv'
<1>1. /\ SeedTypes /\ People /\ Hired /\ stage = "orders" /\ at' = 1 /\ todo = <<>>
      /\ UNCHANGED <<people, goods, boots, ended, clean, torn>>
  BY DEF CreateOrders, SeedIInv, Enter, ToServe
<1>2. People' /\ Hired'
  BY <1>1, PeopleStay DEF people
<1>3. CASE placed["order"] > 0 \/ \E e \in Addresses : orders[e] > 0
  <2>1. stage' = "serving" /\ todo' = todo /\ wanted' = wanted /\ broken' = broken
    BY <1>3 DEF CreateOrders, Enter, round
  <2>2. placed["order"] > 0 \/ Ordered # {}
    BY <1>3 DEF Ordered
  <2>3. SeedTypes'
    BY <1>1, <2>1 DEF SeedTypes, round, goods, people
  <2>4. ToServe' /\ Making'
    BY <1>1, <2>1, ToServeStays DEF round, SeedIInv, goods
  <2>5. Ordered' = Ordered
    BY <1>1 DEF Ordered, goods
  <2>6. InRound' /\ Reported' /\ Stocked' /\ Staffed' /\ Served'
    BY <1>1, <2>1, <2>2, <2>5 DEF SeedIInv, InRound, Reported, Stocked, Staffed, Filled, Served, goods, people
  <2> QED BY <1>2, <2>3, <2>4, <2>6 DEF SeedIInv
<1>4. CASE ~(placed["order"] > 0 \/ \E e \in Addresses : orders[e] > 0)
  <2>1. /\ stage' = "order" /\ todo' = FirstUsers
        /\ wanted' = RangeOf(FirstUsers) /\ broken' = FALSE
    BY <1>4 DEF CreateOrders, Enter
  <2>2. /\ FirstUsers \in Seq(Addresses) /\ Len(FirstUsers) <= Orders
        /\ \A k \in 1..Len(FirstUsers) : FirstUsers[k] \in Registered
        /\ \A j, k \in 1..Len(FirstUsers) : FirstUsers[j] = FirstUsers[k] => j = k
        /\ Registered # {} => FirstUsers # <<>>
    BY <1>1, FirstUsersAre
  <2> HIDE DEF FirstUsers
  <2>3. \A e \in Addresses : orders[e] = 0
    BY <1>1, <1>4 DEF SeedTypes
  <2>4. Ordered' = {} /\ IsFiniteSet(Ordered') /\ Cardinality(Ordered') = 0
    <3>1. Ordered' = {}
      BY <1>1, <2>3 DEF Ordered, goods
    <3> QED BY <3>1, FS_EmptySet
  <2>5. SeedTypes'
    <3>1. RangeOf(FirstUsers) \subseteq Addresses
      BY <2>2 DEF RangeOf
    <3>2. wanted' \subseteq Addresses /\ broken' \in BOOLEAN /\ todo' \in Seq(Addresses)
      BY <2>1, <2>2, <3>1
    <3> QED BY <1>1, <2>1, <3>2 DEF SeedTypes, goods, people
  <2>6. ToServe' /\ Making'
    <3>1. \A k \in 1..Len(FirstUsers) : FirstUsers[k] \in Addresses
      BY <2>2 DEF Registered
    <3>2. Len(FirstUsers) \in Nat /\ Orders \in Nat /\ 0 + Len(FirstUsers) <= Orders
      BY <2>2, SeedAssumption
    <3>3. orders' = orders
      BY <1>1 DEF goods
    <3>4. ToServe'
      BY <2>1, <2>2, <2>3, <2>4, <3>1, <3>2, <3>3 DEF ToServe
    <3>5. Making'
      BY <2>1, <2>4 DEF Making, RangeOf
    <3> QED BY <3>4, <3>5
  <2>7. clean => FirstUsers # <<>>
    <3> SUFFICES ASSUME clean PROVE Registered # {}
      BY <2>2
    <3>1. \A m \in RangeOf(Mechanics) : Filled(m)
      BY <1>1 DEF SeedIInv, Staffed
    <3>2. Len(Mechanics) \in Nat /\ Len(Mechanics) # 0
      BY SeedAssumption
    <3>3. Mechanics[1] \in RangeOf(Mechanics)
      BY <3>2 DEF RangeOf
    <3>4. \E e : <<CodeOf[Mechanics[1]], e>> \in mechanic
      BY <3>1, <3>3 DEF Filled
    <3> QED BY <1>1, <3>4 DEF People
  <2>8. InRound' /\ Reported' /\ Stocked' /\ Staffed'
    BY <1>1, <2>1 DEF SeedIInv, InRound, Reported, Stocked, Staffed, Filled, goods, people
  <2>9. Served'
    BY <1>1, <2>1, <2>7 DEF SeedIInv, Served, goods
  <2> QED BY <1>2, <2>5, <2>6, <2>8, <2>9 DEF SeedIInv
<1> QED BY <1>3, <1>4

\* one for each.
LEMMA CreateOrderKeeps ==
  ASSUME SeedIInv, CreateOrder
  PROVE  SeedIInv'
<1>1. /\ SeedTypes /\ People /\ Hired /\ ToServe /\ Making /\ stage = "order"
      /\ UNCHANGED <<people, product, reports, placed, boots, wanted>>
  BY DEF CreateOrder, SeedIInv
<1>2. CASE todo = <<>>
  <2>1. stage' = "serving" /\ at' = 1 /\ UNCHANGED <<todo, orders, broken, ended, clean, torn>>
    BY <1>2 DEF CreateOrder, Enter
  <2>2. SeedTypes'
    BY <1>1, <2>1 DEF SeedTypes, round, people
  <2>3. People' /\ Hired'
    BY <1>1, <2>1, PeopleStay DEF people
  <2>4. ToServe' /\ Making'
    <3>1. broken' = broken /\ ~broken /\ Ordered' = Ordered /\ todo' = todo /\ wanted' = wanted
      BY <1>1, <2>1 DEF Making, Ordered
    <3> QED BY <1>1, <1>2, <2>1, <3>1 DEF ToServe, Making
  <2>5. Ordered' = Ordered
    BY <2>1 DEF Ordered
  <2>6. InRound' /\ Reported' /\ Stocked' /\ Staffed' /\ Served'
    BY <1>1, <1>2, <2>1, <2>5 DEF SeedIInv, InRound, Reported, Stocked, Staffed, Filled, Served, people
  <2> QED BY <2>2, <2>3, <2>4, <2>6 DEF SeedIInv
<1>3. CASE todo # <<>> /\ product[Catalogue[1]] = 0
  <2>1. GiveUp /\ todo' = <<>> /\ orders' = orders
    BY <1>3 DEF CreateOrder
  <2>2. sequence' = sequence /\ sequence \in [{"user", "details"} -> Nat]
    BY <1>1 DEF people, SeedTypes
  <2>3. user' = user /\ profile' = profile /\ mechanic' = mechanic /\ UNCHANGED <<goods, boots>>
    BY <1>1, <2>1 DEF people, goods
  <2> QED BY <1>1, <2>1, <2>2, <2>3, GiveUpKeeps
<1>4. CASE todo # <<>> /\ product[Catalogue[1]] # 0
  <2> DEFINE e == Head(todo)
  <2>1. /\ orders' = [orders EXCEPT ![e] = @ + 1] /\ todo' = Tail(todo)
        /\ UNCHANGED <<stage, at, broken, ended, clean, torn>>
    BY <1>4 DEF CreateOrder
  <2>2. /\ Len(todo) \in Nat \ {0} /\ Len(todo') = Len(todo) - 1 /\ todo' \in Seq(Addresses)
        /\ \A k \in 1..Len(todo') : k + 1 \in 1..Len(todo) /\ todo'[k] = todo[k + 1]
        /\ 1 \in 1..Len(todo) /\ e = todo[1] /\ e \in Addresses
    BY <1>1, <1>4, <2>1 DEF SeedTypes
  <2>3. orders[e] = 0
    BY <1>1, <2>2 DEF ToServe
  <2> HIDE DEF e
  <2>4. /\ orders' \in [Addresses -> Nat] /\ orders'[e] = 1
        /\ \A f \in Addresses \ {e} : orders'[f] = orders[f]
    BY <1>1, <2>1, <2>2, <2>3 DEF SeedTypes
  <2>5. Ordered' = Ordered \cup {e} /\ e \notin Ordered
    BY <2>2, <2>3, <2>4 DEF Ordered
  <2>6. IsFiniteSet(Ordered') /\ Cardinality(Ordered') = Cardinality(Ordered) + 1 /\ Cardinality(Ordered) \in Nat
    <3>1. IsFiniteSet(Ordered)
      BY <1>1 DEF ToServe
    <3> QED BY <2>5, <3>1, FS_AddElement, FS_CardinalityType
  <2>7. Cardinality(Ordered') + Len(todo') <= Orders
    <3>1. Cardinality(Ordered) + Len(todo) <= Orders
      BY <1>1 DEF ToServe
    <3> QED BY <2>2, <2>6, <3>1
  <2>8. \A j, k \in 1..Len(todo') : todo'[j] = todo'[k] => j = k
    <3> SUFFICES ASSUME NEW j \in 1..Len(todo'), NEW k \in 1..Len(todo'), todo'[j] = todo'[k]
                 PROVE  j = k
      OBVIOUS
    <3>1. j + 1 = k + 1
      BY <1>1, <2>2 DEF ToServe
    <3> QED BY <2>2, <3>1
  <2>9. \A k \in 1..Len(todo') : orders'[todo'[k]] = 0
    <3> SUFFICES ASSUME NEW k \in 1..Len(todo') PROVE orders'[todo'[k]] = 0
      OBVIOUS
    <3>1. k + 1 \in 1..Len(todo) /\ todo'[k] = todo[k + 1] /\ k + 1 # 1
      BY <2>2
    <3>2. todo[k + 1] # e /\ todo[k + 1] \in Addresses /\ orders[todo[k + 1]] = 0
      BY <1>1, <2>2, <3>1 DEF ToServe, SeedTypes
    <3> QED BY <2>4, <3>1, <3>2
  <2>10. \A f \in Addresses : orders'[f] <= 1
    BY <1>1, <2>2, <2>4 DEF ToServe
  <2>16. ToServe'
    BY <1>1, <2>1, <2>6, <2>7, <2>8, <2>9, <2>10 DEF ToServe
  <2>17. Making'
    <3>1. wanted' = wanted /\ broken' = broken /\ stage' = stage /\ ~broken /\ e \in wanted
      BY <1>1, <2>1, <2>2 DEF Making
    <3>2. \A k \in 1..Len(todo') : todo'[k] \in wanted
      BY <1>1, <2>2 DEF Making
    <3>3. \A f \in wanted : f \in Ordered' \/ \E k \in 1..Len(todo') : todo'[k] = f
      <4> SUFFICES ASSUME NEW f \in wanted, f \notin Ordered' PROVE \E k \in 1..Len(todo') : todo'[k] = f
        OBVIOUS
      <4>1. PICK k \in 1..Len(todo) : todo[k] = f
        BY <1>1, <2>5, <3>1 DEF Making
      <4>2. k # 1
        BY <2>2, <2>5, <4>1
      <4>3. k - 1 \in 1..Len(todo') /\ todo'[k - 1] = todo[(k - 1) + 1] /\ (k - 1) + 1 = k
        BY <2>2, <4>2
      <4> QED BY <4>1, <4>3
    <3> QED BY <1>1, <2>5, <3>1, <3>2, <3>3 DEF Making
  <2>11. ToServe' /\ Making'
    BY <2>16, <2>17
  <2>12. People' /\ Hired'
    BY <1>1, <2>1, PeopleStay DEF people
  <2>13. SeedTypes'
    BY <1>1, <2>1, <2>2, <2>4 DEF SeedTypes, round, people
  <2>14. InRound' /\ Reported' /\ Stocked' /\ Staffed'
    BY <1>1, <2>1 DEF SeedIInv, InRound, Reported, Stocked, Staffed, Filled, people
  <2>15. Served'
    BY <1>1, <2>1, <2>5 DEF SeedIInv, Served
  <2> QED BY <2>11, <2>12, <2>13, <2>14, <2>15 DEF SeedIInv
<1> QED BY <1>2, <1>3, <1>4

\* The identity service signs somebody up, with ids of its own sequence.
LEMMA SignUpElsewhereKeeps ==
  ASSUME SeedIInv, NEW e \in Customers, SignUpElsewhere(e)
  PROVE  SeedIInv'
<1>1. /\ SeedTypes /\ People /\ Hired /\ e \in Addresses /\ user[e] = 0
      /\ UNCHANGED <<stage, at, round, mechanic, goods, boots, ended, clean, torn>>
  BY DEF SignUpElsewhere, SeedIInv, Addresses
<1>2. /\ sequence' = [t \in {"user", "details"} |-> sequence[t] + 1]
      /\ sequence' \in [{"user", "details"} -> Nat]
      /\ sequence'["user"] \in Nat \ {0} /\ sequence'["details"] \in Nat \ {0}
  <2>1. sequence' = [t \in {"user", "details"} |-> sequence[t] + 1]
    BY DEF SignUpElsewhere
  <2>2. \A t \in {"user", "details"} : sequence[t] + 1 \in Nat \ {0}
    BY <1>1 DEF SeedTypes
  <2> QED BY <2>1, <2>2
<1>3. CASE user' = user /\ profile' = profile
  <2>1. SeedTypes'
    BY <1>1, <1>2, <1>3 DEF SeedTypes, round, goods
  <2>2. People' /\ Hired'
    BY <1>1, <1>3, PeopleStay
  <2>3. InRound' /\ Reported' /\ Stocked' /\ Served'
    BY <1>1, <1>3 DEF SeedIInv, InRound, Reported, Stocked, Served, goods, Due, Ordered, round
  <2>4. Staffed' /\ ToServe' /\ Making'
    BY <1>1, ToServeStays DEF SeedIInv, Staffed, Filled, goods
  <2> QED BY <2>1, <2>2, <2>3, <2>4 DEF SeedIInv
<1>4. CASE ~(user' = user /\ profile' = profile)
  <2> DEFINE n == sequence'["user"]
             d == sequence'["details"]
  <2>1. /\ \A f \in Addresses : user[f] # n
        /\ user' = [user EXCEPT ![e] = n] /\ profile' = [profile EXCEPT ![e] = d]
    BY <1>4 DEF SignUpElsewhere
  <2>2. n \in Nat \ {0} /\ d \in Nat \ {0}
    BY <1>2
  <2> HIDE DEF n, d
  <2>3. /\ user' \in [Addresses -> Nat] /\ profile' \in [Addresses -> Nat]
        /\ user'[e] = n /\ profile'[e] = d
        /\ \A f \in Addresses \ {e} : user'[f] = user[f] /\ profile'[f] = profile[f]
    BY <1>1, <2>1, <2>2 DEF SeedTypes
  <2>4. SeedTypes'
    BY <1>1, <1>2, <2>3 DEF SeedTypes, round, goods
  <2>5. People' /\ Hired'
    <3>1. Registered' = Registered \cup {e}
      BY <1>1, <2>2, <2>3 DEF Registered
    <3>2. IsFiniteSet(Registered')
      BY <1>1, <3>1, FS_AddElement DEF People
    <3>3. \A f, g \in Addresses : user'[f] # 0 /\ user'[f] = user'[g] => f = g
      BY <1>1, <2>1, <2>3 DEF People
    <3>4. \A row \in mechanic' : row[2] \in Registered'
      BY <1>1, <3>1 DEF People
    <3>5. \A f \in Addresses : profile'[f] # 0 => user'[f] # 0
      BY <1>1, <2>2, <2>3 DEF People
    <3>6. \A row \in mechanic : row[2] # e /\ row[2] \in Addresses
      BY <1>1 DEF People, Registered
    <3>7. \A row \in mechanic' :
             profile'[row[2]] # 0 \/ row[2] \in torn' \/ (stage' = "details" /\ Due' = row[2])
      BY <1>1, <2>3, <3>6 DEF People, Due
    <3>8. Hired'
      BY <1>1 DEF Hired
    <3> QED BY <3>2, <3>3, <3>4, <3>5, <3>7, <3>8 DEF People
  <2>6. InRound'
    <3>1. stage = "mechanic" => user'[Due] # 0
      <4> SUFFICES ASSUME stage = "mechanic" PROVE user'[Due] # 0
        OBVIOUS
      <4>1. Due \in Addresses /\ user[Due] # 0
        BY <1>1, DueIsThere DEF SeedIInv, InRound
      <4> QED BY <2>2, <2>3, <4>1
    <3> QED BY <1>1, <3>1 DEF SeedIInv, InRound, Due
  <2>7. Reported' /\ Stocked' /\ Served'
    BY <1>1 DEF SeedIInv, Reported, Stocked, Served, goods, Ordered, round
  <2>8. Staffed' /\ ToServe' /\ Making'
    BY <1>1, ToServeStays DEF SeedIInv, Staffed, Filled, goods
  <2> QED BY <2>4, <2>5, <2>6, <2>7, <2>8 DEF SeedIInv
<1> QED BY <1>3, <1>4

\* The ids of the users there are have a largest, and the one after it is free.
LEMMA NextIsFree ==
  ASSUME SeedTypes, People, NEW e \in Addresses, NEW column \in {user, profile}
  PROVE  /\ 1 + Max({column[f] : f \in Addresses}) \in Nat \ {0}
         /\ \A f \in Addresses : column[f] # 1 + Max({column[g] : g \in Addresses})
<1> DEFINE S == {column[f] : f \in Addresses}
           T == {column[f] : f \in Registered}
           g == [f \in Registered |-> column[f]]
<1>1. column \in [Addresses -> Nat] /\ \A f \in Addresses : column[f] # 0 => user[f] # 0
  BY DEF SeedTypes, People
<1>2. g \in Surjection(Registered, T)
  BY DEF Surjection
<1>3. IsFiniteSet(T \cup {0})
  <2>1. IsFiniteSet(T)
    BY <1>2, FS_Surjection DEF People
  <2> QED BY <2>1, FS_AddElement
<1>4. S \in SUBSET (T \cup {0})
  BY <1>1 DEF Registered
<1>5. IsFiniteSet(S) /\ S # {} /\ S \subseteq Nat
  <2>1. IsFiniteSet(S)
    BY <1>3, <1>4, FS_Subset
  <2>2. column[e] \in S /\ S \subseteq Nat
    BY <1>1
  <2> QED BY <2>1, <2>2
<1>6. 1 + Max(S) \in Nat \ {0} /\ 1 + Max(S) \notin S
  <2> HIDE DEF S
  <2> QED BY <1>5, LargestOne
<1> QED BY <1>6

\* The mechanic's page signs somebody up, with the next ids.
LEMMA SignUpHereKeeps ==
  ASSUME SeedIInv, NEW e \in Visitors, NEW code \in MechanicCodes, SignUpHere(e, code)
  PROVE  SeedIInv'
<1> DEFINE n == 1 + Max({user[f] : f \in Addresses})
           d == 1 + Max({profile[f] : f \in Addresses})
<1>1. /\ SeedTypes /\ People /\ Hired /\ e \in Addresses /\ user[e] = 0 /\ stage = "serving"
      /\ user' = [user EXCEPT ![e] = n] /\ profile' = [profile EXCEPT ![e] = d]
      /\ mechanic' = mechanic \cup {<<code, e>>}
      /\ UNCHANGED <<stage, at, round, sequence, goods, boots, ended, clean, torn>>
  BY DEF SignUpHere, SeedIInv, Addresses
<1>2. n \in Nat \ {0} /\ \A f \in Addresses : user[f] # n
  BY <1>1, NextIsFree
<1>3. d \in Nat \ {0}
  BY <1>1, NextIsFree
<1> HIDE DEF n, d
<1>4. /\ profile' \in [Addresses -> Nat] /\ profile'[e] = d
      /\ \A f \in Addresses \ {e} : profile'[f] = profile[f]
  BY <1>1, <1>3 DEF SeedTypes
<1>5. People' /\ user' \in [Addresses -> Nat] /\ Hired'
  <2>1. \A row \in mechanic' : row \in mechanic \/ row = <<code, e>>
    BY <1>1
  <2>2. \A row \in mechanic' : row \in mechanic \/ (row[2] = e /\ profile'[e] # 0)
    BY <1>3, <1>4, <2>1
  <2>3. Hired'
    BY <1>1, <2>1 DEF Hired
  <2> QED BY <1>1, <1>2, <1>3, <1>4, <2>2, <2>3, OneMoreUser
<1>6. SeedTypes'
  <2>1. {user', profile'} \subseteq [Addresses -> Nat]
    BY <1>4, <1>5
  <2>2. mechanic' \subseteq MechanicCodes \X Addresses
    BY <1>1 DEF SeedTypes
  <2> QED BY <1>1, <2>1, <2>2 DEF SeedTypes, round, goods
<1>7. InRound' /\ Reported' /\ Stocked' /\ Staffed' /\ Served' /\ ToServe' /\ Making'
  <2>1. mechanic \subseteq mechanic' /\ Ordered' = Ordered
    BY <1>1 DEF Ordered, goods
  <2> QED BY <1>1, <2>1, ToServeStays DEF SeedIInv, InRound, Reported, Stocked, Staffed, Filled, Served, goods
<1> QED BY <1>5, <1>6, <1>7 DEF SeedIInv

\* A customer orders or asks for a service while the server runs.
LEMMA PlaceKeeps ==
  ASSUME SeedIInv, NEW kind \in {"report", "order"}, Place(kind)
  PROVE  SeedIInv'
<1>1. /\ SeedTypes /\ People /\ Hired /\ stage = "serving" /\ placed[kind] = 0
      /\ placed' = [placed EXCEPT ![kind] = 1]
      /\ UNCHANGED <<stage, at, round, people, product, reports, orders, boots, ended, clean, torn>>
  BY DEF Place, SeedIInv
<1>2. /\ placed' \in [{"report", "order"} -> Nat]
      /\ placed'["report"] >= placed["report"] /\ placed'["order"] >= placed["order"]
      /\ placed["report"] \in Nat /\ placed["order"] \in Nat /\ placed'["report"] \in Nat
      /\ placed'["order"] \in Nat /\ reports \in Nat /\ Reports \in Nat
  BY <1>1, SeedAssumption DEF SeedTypes
<1>3. SeedTypes'
  BY <1>1, <1>2 DEF SeedTypes, round, people
<1>4. People' /\ Hired'
  BY <1>1, PeopleStay DEF people
<1>5. ToServe' /\ Making'
  BY <1>1, ToServeStays DEF SeedIInv
<1>6. InRound' /\ Reported' /\ Stocked' /\ Staffed'
  BY <1>1 DEF SeedIInv, InRound, Reported, Stocked, Staffed, Filled, people
<1>7. Served'
  <2>1. Ordered' = Ordered
    BY <1>1 DEF Ordered
  <2>2. reports + placed["report"] >= Reports => reports + placed'["report"] >= Reports
    BY <1>2
  <2>3. placed["order"] > 0 => placed'["order"] > 0
    BY <1>2
  <2> QED BY <1>1, <2>1, <2>2, <2>3 DEF SeedIInv, Served
<1> QED BY <1>3, <1>4, <1>5, <1>6, <1>7 DEF SeedIInv

\* So every step keeps the invariant of the seeding.
LEMMA SeedSteps == SeedIInv /\ [SeedNext]_seed => SeedIInv'
<1> SUFFICES ASSUME SeedIInv, [SeedNext]_seed PROVE SeedIInv'
  OBVIOUS
<1>1. CASE Seeding
  BY <1>1, PingKeeps, CreateProductKeeps, SeedUserKeeps, SeedMechanicKeeps, SeedDetailsKeeps,
     CreateReportsKeeps, CreateReportKeeps, CreateOrdersKeeps, CreateOrderKeeps DEF Seeding
<1>2. CASE Boot \/ Raise \/ Kill
  BY <1>2, BootKeeps, RaiseKeeps, KillKeeps
<1>3. ASSUME NEW e \in Customers, SignUpElsewhere(e) PROVE SeedIInv'
  BY <1>3, SignUpElsewhereKeeps
<1>4. ASSUME NEW e \in Visitors, NEW code \in MechanicCodes, SignUpHere(e, code) PROVE SeedIInv'
  BY <1>4, SignUpHereKeeps
<1>5. ASSUME NEW kind \in {"report", "order"}, Place(kind) PROVE SeedIInv'
  BY <1>5, PlaceKeeps
<1>6. CASE UNCHANGED seed
  <2>1. SeedTypes' /\ People' /\ InRound' /\ Reported' /\ Hired'
    BY <1>6 DEF seed, SeedIInv, SeedTypes, People, InRound, Reported, Registered, Due, Hired
  <2>2. ToServe' /\ Making'
    BY <1>6, ToServeStays DEF seed, SeedIInv, round
  <2>3. Stocked' /\ Served'
    BY <1>6 DEF seed, SeedIInv, Stocked, Served, Ordered
  <2>4. Staffed'
    BY <1>6 DEF seed, SeedIInv, Staffed, Filled
  <2> QED BY <2>1, <2>2, <2>3, <2>4 DEF SeedIInv
<1> QED BY <1>1, <1>2, <1>3, <1>4, <1>5, <1>6 DEF SeedNext

\* Every state satisfies the invariant of the seeding.
LEMMA SeedInvariance == SeedSpec => []SeedIInv
  BY SeedStarts, SeedSteps, PTL DEF SeedSpec

\* However often the container is killed and started, and wherever, nothing is seeded
\* twice and no two users share an id, for every catalogue and list of mechanics,
\* and any number of customers, reports, orders and starts (seed_database, sign_up).
THEOREM NothingIsSeededTwice == SeedSpec => []SeedInv
<1>1. SeedIInv => SeedInv
  BY SeedInvFollows
<1> QED BY <1>1, SeedInvariance, PTL

\* A start in which nothing fails leaves all products, a mechanic for every seeded
\* code, enough service requests and, where users made none, the orders of all users
\* it or an earlier start fetched; but for orders that were broken off, and the
\* details of a mechanic that were given up, once (seed_database).
THEOREM StartCompletes == SeedSpec => []BootCompletes
<1>1. SeedIInv => BootCompletes
  BY SeedInvFollows
<1> QED BY <1>1, SeedInvariance, PTL

==============================================================================
