------------------------------- MODULE Mechanic -------------------------------
(***************************************************************************)
(* The mechanics of the crAPI target (services/workshop/crapi/mechanic):   *)
(* sign-up, service requests as they are received, with their status and   *)
(* comments, and the directory of report files that GetReportView fills    *)
(* and trims.  As in Shop, every statement commits by itself and save()    *)
(* writes a whole row.                                                     *)
(***************************************************************************)
EXTENDS Integers, FiniteSets, Functions

CONSTANTS
  Emails, Codes,  \* e-mail addresses and mechanic codes
  Taken,          \* the addresses of user_login before the server started
  Rows, Present,  \* the ids of service requests, and those there are at first
  ReportIds,      \* the spellings of a report_id: each names a file of its own
  IdOf,           \* the id a spelling stands for
  NoReport,       \* oldest_file = None
  FilesLimit,     \* settings.FILES_LIMIT
  Requests,       \* the requests that may be made
  MaxRequests,    \* bound: how many of them
  NoRequest

Statuses == {"pending", "completed", "cancelled", "inprogress"}
Absent == "absent"
Request ==
       [op : {"sign_up"}, email : Emails, code : Codes]
  \cup [op : {"comment"}, row : Nat]
  \cup [op : {"status"}, row : Nat, to : Statuses]
  \cup [op : {"receive"}]
  \cup [op : {"report"}, report : ReportIds]

ASSUME MechanicAssumption ==
  /\ Taken \subseteq Emails /\ Rows \subseteq Nat \ {0} /\ Present \subseteq Rows
  /\ IsFiniteSet(ReportIds) /\ IdOf \in [ReportIds -> Nat] /\ NoReport \notin ReportIds
  /\ FilesLimit \in Nat \ {0} /\ MaxRequests \in Nat
  /\ Requests \subseteq Request /\ NoRequest \notin Request

VARIABLES
  users,      \* user_login: the id of each address, 0 for none
  mechanics,  \* mechanic: <<mechanic_code, email of its user>>
  details,    \* user_details: <<id, email of its user>>
  status,     \* service_request.status, Absent where there is no row
  comments,   \* service_comment: how many there are of each service request
  mtime,      \* the reports directory: when each file was written, 0 for none
  req         \* the requests: what was asked, where its handler is, what it holds

vars == <<users, mechanics, details, status, comments, mtime, req>>
tables == <<users, mechanics, details>>
rows == <<status, comments>>

Ids == 1..MaxRequests
Over == {"answered", "refused", "failed"}
Busy == {"sign_up", "next_id", "user", "mechanic", "next_details", "details",
         "comment", "add", "status", "receive", "store",
         "report", "write", "trim", "stat", "remove"}
(* number is an id the handler has taken and held a status it holds.       *)
(* listed are the files it has listed and not looked at, oldest and age    *)
(* the oldest it has seen.  before and error are history: the requests     *)
(* over on arrival, and whether the trimming has caught an OSError.        *)
Handling == [ask : Requests \cup {NoRequest}, pc : {"idle"} \cup Busy \cup Over,
             number : Nat, held : Statuses,
             listed : SUBSET ReportIds, oldest : ReportIds \cup {NoReport}, age : Nat,
             before : SUBSET Ids, error : BOOLEAN]

TypeOK ==
  /\ users \in [Emails -> Nat]
  /\ mechanics \subseteq Codes \X Emails /\ details \subseteq Nat \X Emails
  /\ status \in [Rows -> Statuses \cup {Absent}] /\ comments \in [Rows -> Nat]
  /\ mtime \in [ReportIds -> Nat]
  /\ req \in [Ids -> Handling]

Idle == [ask |-> NoRequest, pc |-> "idle", number |-> 0, held |-> "pending",
         listed |-> {}, oldest |-> NoReport, age |-> 0, before |-> {}, error |-> FALSE]

Init ==
  /\ \E number \in [Taken -> 1..Cardinality(Taken)] :
       /\ IsInjective(number)
       /\ users = [e \in Emails |-> IF e \in Taken THEN number[e] ELSE 0]
  /\ mechanics = {} /\ details = {}
  /\ status = [o \in Rows |-> IF o \in Present THEN "pending" ELSE Absent]
  /\ comments = [o \in Rows |-> 0] /\ mtime = [f \in ReportIds |-> 0]
  /\ req = [r \in Ids |-> Idle]

------------------------------------------------------------------------------
Ask(r) == req[r].ask
At(r, pc) == r \in Ids /\ req[r].pc = pc
Go(r, pc) == req' = [req EXCEPT ![r].pc = pc]
Exists(o) == o \in Rows /\ status[o] # Absent
\* the largest of S plus one
Next1(S) == {n \in {1} \cup {m + 1 : m \in S} : \A m \in S : m < n}

Arrive(r) ==
  /\ At(r, "idle") /\ \A s \in Ids : s < r => req[s].pc # "idle"
  /\ \E ask \in Requests, valid \in BOOLEAN :
       req' = [req EXCEPT ![r] = [Idle EXCEPT
                 !.ask = ask, !.pc = IF valid THEN ask.op ELSE "refused",
                 !.before = {s \in Ids : req[s].pc \in Over}]]
  /\ UNCHANGED <<tables, rows, mtime>>

\* SignUpView.post: neither the address nor the code is in use
SignUp(r) ==
  /\ At(r, "sign_up")
  /\ Go(r, IF users[Ask(r).email] # 0 \/ \E e \in Emails : <<Ask(r).code, e>> \in mechanics
           THEN "refused" ELSE "next_id")
  /\ UNCHANGED <<tables, rows, mtime>>

\* the largest id, plus one
NextUserId(r) ==
  /\ At(r, "next_id")
  /\ \E n \in Next1({users[e] : e \in Emails}) :
       req' = [req EXCEPT ![r].pc = "user", ![r].number = n]
  /\ UNCHANGED <<tables, rows, mtime>>

\* mutant: the id is no key
CreateUser_NoKey(r) ==
  /\ At(r, "user")
  /\ IF users[Ask(r).email] # 0
     THEN Go(r, "failed") /\ UNCHANGED users
     ELSE Go(r, "mechanic") /\ users' = [users EXCEPT ![Ask(r).email] = req[r].number]
  /\ UNCHANGED <<mechanics, details, rows, mtime>>
\* id is the primary key and email is unique: a second one raises IntegrityError
CreateUser(r) ==
  /\ At(r, "user")
  /\ IF users[Ask(r).email] # 0 \/ \E e \in Emails : users[e] = req[r].number
     THEN Go(r, "failed") /\ UNCHANGED users
     ELSE Go(r, "mechanic") /\ users' = [users EXCEPT ![Ask(r).email] = req[r].number]
  /\ UNCHANGED <<mechanics, details, rows, mtime>>

\* mechanic_code is unique
CreateMechanic(r) ==
  /\ At(r, "mechanic")
  /\ IF \E e \in Emails : <<Ask(r).code, e>> \in mechanics
     THEN Go(r, "failed") /\ UNCHANGED mechanics
     ELSE Go(r, "next_details") /\ mechanics' = mechanics \cup {<<Ask(r).code, Ask(r).email>>}
  /\ UNCHANGED <<users, details, rows, mtime>>

NextDetailsId(r) ==
  /\ At(r, "next_details")
  /\ \E n \in Next1({d[1] : d \in details}) :
       req' = [req EXCEPT ![r].pc = "details", ![r].number = n]
  /\ UNCHANGED <<tables, rows, mtime>>

CreateDetails(r) ==
  /\ At(r, "details")
  /\ IF \E d \in details : d[1] = req[r].number
     THEN Go(r, "failed") /\ UNCHANGED details
     ELSE Go(r, "answered") /\ details' = details \cup {<<req[r].number, Ask(r).email>>}
  /\ UNCHANGED <<users, mechanics, rows, mtime>>

\* ServiceCommentView.post and ServiceRequestView.put read the row
ReadRow(r) ==
  /\ At(r, "comment") \/ At(r, "status")
  /\ IF ~Exists(Ask(r).row) THEN Go(r, "failed")
     ELSE req' = [req EXCEPT
            ![r].pc = IF Ask(r).op = "comment" THEN "add" ELSE "store",
            ![r].held = IF Ask(r).op = "comment" THEN status[Ask(r).row] ELSE Ask(r).to]
  /\ UNCHANGED <<tables, rows, mtime>>

AddComment(r) ==
  /\ At(r, "add") /\ Go(r, "store")
  /\ comments' = [comments EXCEPT ![Ask(r).row] = @ + 1]
  /\ UNCHANGED <<tables, status, mtime>>

\* ReceiveReportView.get: without the mechanic or the vehicle it raises, with
\* them the row is created, under an id of its own
CreateServiceRequest(r) ==
  /\ At(r, "receive")
  /\ \/ Go(r, "failed") /\ UNCHANGED status
     \/ \E o \in Rows : /\ ~Exists(o)
                        /\ status' = [status EXCEPT ![o] = "pending"]
                        /\ req' = [req EXCEPT ![r].pc = "store", ![r].number = o,
                                              ![r].held = "pending"]
  /\ UNCHANGED <<tables, comments, mtime>>

\* the service request that a handler has in memory
Target(r) == IF Ask(r).op = "receive" THEN req[r].number ELSE Ask(r).row

\* mutant: a row of its own, with the default status
SaveRow_Fresh(r) ==
  /\ At(r, "store") /\ Go(r, "answered")
  /\ status' = [status EXCEPT ![Target(r)] = IF Ask(r).op = "comment" THEN "pending" ELSE req[r].held]
  /\ UNCHANGED <<tables, comments, mtime>>
\* service_request.save(), in all three handlers: the status goes with the row
SaveRow(r) ==
  /\ At(r, "store") /\ Go(r, "answered")
  /\ status' = [status EXCEPT ![Target(r)] = req[r].held]
  /\ UNCHANGED <<tables, comments, mtime>>

\* GetReportView.get: the row is looked up by the number the report_id spells
GetReport(r) ==
  /\ At(r, "report")
  /\ Go(r, IF Exists(IdOf[Ask(r).report]) THEN "write" ELSE "refused")
  /\ UNCHANGED <<tables, rows, mtime>>

\* service_report_pdf: the file of this spelling is written anew
WriteReport(r) ==
  /\ At(r, "write") /\ Go(r, "trim")
  /\ \E now \in Next1({mtime[f] : f \in ReportIds}) :
       mtime' = [mtime EXCEPT ![Ask(r).report] = now]
  /\ UNCHANGED <<tables, rows>>

Files == {f \in ReportIds : mtime[f] # 0}

\* manage_reports_directory: the directory is listed
ListFiles(r) ==
  /\ At(r, "trim")
  /\ IF Cardinality(Files) < FilesLimit THEN Go(r, "answered")
     ELSE req' = [req EXCEPT ![r].pc = "stat", ![r].listed = Files, ![r].oldest = NoReport]
  /\ UNCHANGED <<tables, rows, mtime>>

\* mutant: the newest file is taken for the oldest
StatFile_Newest(r) ==
  /\ At(r, "stat")
  /\ \E f \in req[r].listed :
       LET older == f \in Files /\ (req[r].oldest = NoReport \/ mtime[f] > req[r].age)
       IN  req' = [req EXCEPT ![r].listed = @ \ {f},
                              ![r].oldest = IF older THEN f ELSE @,
                              ![r].age = IF older THEN mtime[f] ELSE @]
  /\ UNCHANGED <<tables, rows, mtime>>
\* os.path.getmtime of each file listed, in the order of the listing, which is
\* any; a file gone since is skipped
StatFile(r) ==
  /\ At(r, "stat")
  /\ \E f \in req[r].listed :
       LET older == f \in Files /\ (req[r].oldest = NoReport \/ mtime[f] < req[r].age)
       IN  req' = [req EXCEPT ![r].listed = @ \ {f},
                              ![r].oldest = IF older THEN f ELSE @,
                              ![r].age = IF older THEN mtime[f] ELSE @]
  /\ UNCHANGED <<tables, rows, mtime>>

FindOldest(r) ==
  /\ At(r, "stat") /\ req[r].listed = {}
  /\ Go(r, IF req[r].oldest = NoReport THEN "answered" ELSE "remove")
  /\ UNCHANGED <<tables, rows, mtime>>

\* os.remove; that another handler removed the file first is caught
RemoveOldest(r) ==
  /\ At(r, "remove") /\ Go(r, "answered")
  /\ mtime' = [mtime EXCEPT ![req[r].oldest] = 0]
  /\ UNCHANGED <<tables, rows>>

\* except OSError: the trimming is given up and the report answered
TrimFails(r) ==
  /\ r \in Ids /\ req[r].pc \in {"trim", "stat", "remove"}
  /\ req' = [req EXCEPT ![r].pc = "answered", ![r].error = TRUE]
  /\ UNCHANGED <<tables, rows, mtime>>

\* the database or the worker ends a handler between two statements
Fail(r) ==
  /\ r \in Ids /\ req[r].pc \in Busy
  /\ Go(r, "failed")
  /\ UNCHANGED <<tables, rows, mtime>>

Next ==
  \E r \in Ids :
    \/ Arrive(r)
    \/ SignUp(r) \/ NextUserId(r) \/ CreateUser(r) \/ CreateMechanic(r)
    \/ NextDetailsId(r) \/ CreateDetails(r)
    \/ ReadRow(r) \/ AddComment(r) \/ CreateServiceRequest(r) \/ SaveRow(r)
    \/ GetReport(r) \/ WriteReport(r) \/ ListFiles(r) \/ StatFile(r)
    \/ FindOldest(r) \/ RemoveOldest(r) \/ TrimFails(r)
    \/ Fail(r)

Spec == Init /\ [][Next]_vars

------------------------------------------------------------------------------
Asked(r, op) == req[r].pc # "idle" /\ Ask(r).op = op
Answered(r, op) == req[r].pc = "answered" /\ Ask(r).op = op
Precedes(r, s) == r \in req[s].before

\* A mechanic who was told so is signed up, with a user, a code and details of
\* their own, whoever signs up at the same time: ids are taken as the largest
\* plus one, and only the keys of the tables stop two from taking the same.
SignedUp ==
  /\ \A r \in Ids : Answered(r, "sign_up") =>
       /\ users[Ask(r).email] # 0
       /\ <<Ask(r).code, Ask(r).email>> \in mechanics
       /\ \E d \in details : d[2] = Ask(r).email
  /\ \A e, f \in Emails : users[e] = users[f] /\ users[e] # 0 => e = f
  /\ \A r, s \in Ids : r # s /\ Answered(r, "sign_up") /\ Answered(s, "sign_up") =>
       Ask(r).email # Ask(s).email /\ Ask(r).code # Ask(s).code

\* Half a mechanic, a user without a code or without details, is left behind only
\* by a sign-up that failed; its address then refuses every later one.
HalfSignedUp ==
  \A e \in Emails \ Taken :
    users[e] # 0 /\ ~(\E c \in Codes : <<c, e>> \in mechanics /\ \E d \in details : d[2] = e) =>
      \E r \in Ids : Asked(r, "sign_up") /\ Ask(r).email = e /\ req[r].pc # "refused"
                       /\ req[r].pc # "answered"

\* A status request that was answered, after the handler that received its row was
\* over, and that no other status request and no comment overlapped or undid
Stands(r) ==
  /\ Answered(r, "status")
  /\ \A s \in Ids : Asked(s, "receive") /\ req[s].number = Ask(r).row => Precedes(s, r)
  /\ \A s \in Ids \ {r} : Asked(s, "status") /\ Ask(s).row = Ask(r).row => Precedes(s, r)
  /\ \A s \in Ids : Asked(s, "comment") /\ Ask(s).row = Ask(r).row => Precedes(s, r) \/ Precedes(r, s)

\* A status that was answered stays: only a later status request changes it, or a
\* save that overlapped, of a comment (ServiceCommentView.post, line 326) or of the
\* handler that received the row and saves all of it again (ReceiveReportView, 197).
StatusKept == \A r \in Ids : Stands(r) => status[Ask(r).row] = Ask(r).to

\* no other request for a report overlapped this one
Alone(r) == \A s \in Ids \ {r} : Asked(s, "report") => Precedes(r, s) \/ Precedes(s, r)

\* reports were asked for one after the other, and no trimming was broken off
InTurn ==
  \A r \in Ids : Asked(r, "report") => req[r].pc # "failed" /\ ~req[r].error /\ Alone(r)

\* Reports asked for one after the other keep the directory within its limit: it
\* grows past it only by handlers that overlapped, broke off or met an OSError.
DirectoryBounded ==
  InTurn /\ (\A r \in Ids : Asked(r, "report") => req[r].pc \in Over)
  => Cardinality(Files) <= FilesLimit

\* this request for a report and all that were not over before it; the spellings
\* they asked for; and that each of them was alone
Later(r) == {s \in Ids : Asked(s, "report") /\ ~Precedes(s, r)}
Since(r) == {Ask(s).report : s \in Later(r)}
InTurnSince(r) == \A s \in Later(r) : Alone(s)

\* The file of a report that was answered is on disk, whatever earlier handlers left,
\* until as many spellings as the limit were asked for since, or handlers overlapped.
ReportOnDisk ==
  \A r \in Ids : Answered(r, "report") /\ InTurnSince(r) =>
    Ask(r).report \in Files \/ Cardinality(Since(r)) >= FilesLimit

\* The report directory neither grows past its limit nor loses a fresh report, except
\* by handlers that overlapped or, for its size, broke off (manage_reports_directory).
ReportsKept == DirectoryBounded /\ ReportOnDisk

------------------------------------------------------------------------------
\* The parts of the inductive invariant.

\* where a handler is says what was asked of it and what it holds
Course ==
  \A r \in Ids : LET pc == req[r].pc IN
    /\ pc = "idle" <=> Ask(r) = NoRequest
    /\ pc \in {"sign_up", "next_id", "user", "mechanic", "next_details", "details"} =>
         Ask(r).op = "sign_up"
    /\ pc \in {"comment", "add"} => Ask(r).op = "comment"
    /\ pc = "status" => Ask(r).op = "status"
    /\ pc = "receive" => Ask(r).op = "receive" /\ req[r].number = 0
    /\ pc = "store" => Ask(r).op \in {"comment", "status", "receive"}
    /\ pc \in {"report", "write", "trim", "stat", "remove"} => Ask(r).op = "report"
    /\ pc \in {"user", "details"} => req[r].number # 0
    /\ pc = "store" /\ Ask(r).op = "status" => req[r].held = Ask(r).to
    /\ pc = "remove" => req[r].oldest \in ReportIds

\* what a request found over is over
Arrivals == \A r \in Ids : \A s \in req[r].before : s \in Ids \ {r} /\ req[s].pc \in Over

\* a handler holds a service request that there is, and a status was given to one
Filed ==
  \A r \in Ids : req[r].pc \in {"add", "store"} \/ Answered(r, "status") => Exists(Target(r))

\* a sign-up that has come past the user, and past the mechanic
Entered(r) == Asked(r, "sign_up") /\ req[r].pc \in {"mechanic", "next_details", "details", "answered"}
Coded(r) == Asked(r, "sign_up") /\ req[r].pc \in {"next_details", "details", "answered"}

\* a sign-up has an address and a code to itself from their inserts on, and whoever
\* has a user owes it to one
SigningUp ==
  /\ \A r \in Ids : Entered(r) => users[Ask(r).email] # 0
  /\ \A r \in Ids : Coded(r) => <<Ask(r).code, Ask(r).email>> \in mechanics
  /\ \A r, s \in Ids : r # s /\ Entered(r) /\ Entered(s) => Ask(r).email # Ask(s).email
  /\ \A r, s \in Ids : r # s /\ Coded(r) /\ Coded(s) => Ask(r).code # Ask(s).code
  /\ \A e \in Emails \ Taken : users[e] # 0 =>
       \E r \in Ids : Asked(r, "sign_up") /\ Ask(r).email = e /\ (Entered(r) \/ req[r].pc = "failed")

\* a comment that came after a status holds that status
StatusHeld ==
  \A r, s \in Ids :
    Stands(r) /\ req[s].pc \in {"add", "store"} /\ Ask(s).op = "comment" /\ Ask(s).row = Ask(r).row =>
      req[s].held = Ask(r).to

\* a request for a report whose file was written
Written(r) == Asked(r, "report") /\ req[r].pc \in {"trim", "stat", "remove", "answered"}

\* a handler that is alone finds, among the files it has looked at, the oldest
Chooses(r) ==
  /\ Cardinality(Files) >= FilesLimit
  /\ req[r].listed \subseteq Files
  /\ req[r].oldest = NoReport => req[r].listed = Files
  /\ req[r].oldest # NoReport =>
       /\ req[r].oldest \in Files /\ req[r].age = mtime[req[r].oldest]
       /\ \A f \in Files \ req[r].listed : req[r].age <= mtime[f]
  /\ req[r].pc = "remove" => req[r].listed = {}
Choosing == \A r \in Ids : req[r].pc \in {"stat", "remove"} /\ Alone(r) => Chooses(r)

\* what is younger than the file of a report was asked for since; the file is only
\* removed when that is enough to fill the directory
Aging ==
  \A r \in Ids : Written(r) /\ InTurnSince(r) =>
    /\ Ask(r).report \in Files => {f \in Files : mtime[Ask(r).report] <= mtime[f]} \subseteq Since(r)
    /\ Ask(r).report \in Files \/ Cardinality(Since(r)) >= FilesLimit

\* while reports are asked for one after the other, and none breaks off, a file that
\* reaches the limit is there only until the request that wrote it has removed one
Tidy ==
  InTurn =>
    /\ Cardinality(Files) <= FilesLimit
    /\ (\A r \in Ids : req[r].pc \notin {"trim", "stat", "remove"}) => Cardinality(Files) < FilesLimit

\* What sign-ups keep, however they overlap or break off: who was told so is a
\* mechanic, and half a mechanic is what a failed sign-up leaves (SignUpView.post);
\* with what the other two handlers keep on the way to their promises above.
Inv ==
  /\ TypeOK /\ SignedUp /\ HalfSignedUp
  /\ Course /\ Arrivals /\ SigningUp /\ StatusHeld /\ Filed /\ Choosing /\ Aging /\ Tidy
==============================================================================
