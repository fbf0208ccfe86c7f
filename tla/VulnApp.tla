-------------------------------- MODULE VulnApp --------------------------------
(***************************************************************************)
(* The demo target vulnapp/app.py: two builds of it run beside each other, *)
(* one vulnerable, one hardened (VULNAPP_SAFE=1), each with the users and  *)
(* notes of its process.  FastAPI runs a handler of a plain def on a       *)
(* thread, so register, which looks a name up and inserts it later, is two *)
(* steps; the others look at the state or change it once.  A handler says  *)
(* what its answer shows an oracle, in the words of Checks.Responses.      *)
(***************************************************************************)
EXTENDS Checks

CONSTANTS
  Accounts,   \* user names clients register
  Clients,    \* who registers: the scanner, and visitors of the demo
  NoNote, NoCall,
  Breaking    \* the payloads a concatenated query does not survive

Builds == {"vulnerable", "safe"}

ASSUME AppAssumption ==
  /\ NoNote \notin Accounts /\ NoCall \notin Accounts
  /\ Nobody \notin Accounts /\ Forged \notin Accounts

VARIABLES
  users,   \* _USERS: who set the password, and whether the user is admin
  note,    \* _NOTES["heimdall_bola_note"]: its owner
  calls,   \* the name each client's call of register has found free
  log      \* history: the steps of register, in order

app == <<users, note, calls, log>>

User == [by : Clients, admin : BOOLEAN]
Registration == [do : {"test", "insert"}, client : Clients, name : Accounts]

AppTypeOK ==
  /\ DOMAIN users = Builds
  /\ \A b \in Builds : DOMAIN users[b] \subseteq Accounts /\ \A n \in DOMAIN users[b] : users[b][n] \in User
  /\ note \in [Builds -> Accounts \cup {NoNote}]
  /\ calls \in [Builds -> [Clients -> Accounts \cup {NoCall}]]
  /\ log \in [Builds -> Seq(Registration)]

\* _seed_state; seeded users are not named here, nobody registers their names.
\* Builds that were scanned before have the accounts and the note of that scan.
AppInit(scanner, names, owner) ==
  /\ \E again \in BOOLEAN :
       /\ users = [b \in Builds |-> [n \in (IF again THEN names ELSE {}) |->
                                       [by |-> scanner, admin |-> FALSE]]]
       /\ note = [b \in Builds |-> IF again THEN owner ELSE NoNote]
  /\ calls = [b \in Builds |-> [c \in Clients |-> NoCall]]
  /\ log = [b \in Builds |-> <<>>]

------------------------------------------------------------------------------
Logged(b, do, c, n) ==
  log' = [log EXCEPT ![b] = Append(@, [do |-> do, client |-> c, name |-> n])]

\* if payload.username in _USERS: 409
RegisterTest(b, c, n) ==
  /\ calls[b][c] = NoCall /\ n \notin DOMAIN users[b]
  /\ calls' = [calls EXCEPT ![b][c] = n]
  /\ Logged(b, "test", c, n)
  /\ UNCHANGED <<users, note>>

\* bool(payload.admin) if not SAFE else False
Bound(b, admin) == admin /\ b = "vulnerable"

\* _USERS[payload.username] = user, whoever is there by now
RegisterInsert(b, c, admin) ==
  LET n == calls[b][c] IN
    /\ n # NoCall
    /\ users' = [users EXCEPT ![b] = [m \in DOMAIN @ \cup {n} |->
         IF m = n THEN [by |-> c, admin |-> Bound(b, admin)] ELSE @[m]]]
    /\ calls' = [calls EXCEPT ![b][c] = NoCall]
    /\ Logged(b, "insert", c, n)
    /\ UNCHANGED note

\* a name nobody else can guess: both steps at once
RegisterFresh(b, c, n, admin) ==
  /\ users' = [users EXCEPT ![b] = [m \in DOMAIN @ \cup {n} |->
       IF m = n THEN [by |-> c, admin |-> Bound(b, admin)] ELSE @[m]]]
  /\ UNCHANGED <<note, calls, log>>

login(b, c, n) ==
  IF n \in DOMAIN users[b] /\ users[b][n].by = c THEN "clean" ELSE "denied"

------------------------------------------------------------------------------
\* _current_user: an unsigned token only where the signature is not verified
Principal(b, as) == as # Nobody /\ (as = Forged => b = "vulnerable")

me(b, as) == IF Principal(b, as) THEN "clean" ELSE "denied"

CreateNote(b, as) ==
  /\ note' = IF Principal(b, as) THEN [note EXCEPT ![b] = as] ELSE note
  /\ UNCHANGED <<users, calls, log>>

\* mutant: whoever is signed in
Readable_Any(b, as) == TRUE
\* mutant: the owner only, in both builds
Readable_Owner(b, as) == note[b] = as
Readable(b, as) == b = "safe" => note[b] = as
read_note(b, as) ==
  IF Principal(b, as) /\ note[b] # NoNote /\ Readable(b, as) THEN "hit" ELSE "denied"

\* what the dump shows: passwords of all, and whether this user is admin
debug_users(b) == IF b = "safe" THEN "denied" ELSE "hit"
debug_shows_admin(b, n) ==
  IF b = "safe" THEN "denied"
  ELSE IF n \in DOMAIN users[b] /\ users[b][n].admin THEN "hit" ELSE "clean"

Concatenated(b) == b = "vulnerable"
search_products(b, payload) ==
  IF Concatenated(b) /\ payload \in Breaking THEN "denied_hit" ELSE "clean"

Allowlisted(b) == b = "safe"
\* the canary is on no list, and the address behind it is the app's own
url_preview(b) == IF Allowlisted(b) THEN "denied" ELSE "hit"
url_preview_safe == "denied"

------------------------------------------------------------------------------
\* the client of this insert looked the name up before the i-th step, and has done
\* nothing else since
LookedUpBefore(steps, i, j) ==
  \E k \in 1..(i - 1) :
    /\ steps[k].do = "test" /\ steps[k].client = steps[j].client
    /\ \A m \in (k + 1)..(j - 1) : steps[m].client # steps[j].client

(* A name that was registered is not given away: of two calls of register  *)
(* for one name that were both answered 200, the second had looked the     *)
(* name up before the first inserted it (app.py:232-247).                  *)
NameTakenOnce ==
  \A b \in Builds : \A i, j \in 1..Len(log[b]) :
    /\ i < j /\ log[b][i].do = "insert" /\ log[b][j].do = "insert"
    /\ log[b][i].name = log[b][j].name
    => LookedUpBefore(log[b], i, j)

------------------------------------------------------------------------------
\* The parts of the inductive invariant.

\* the name of a call that is under way was free when it was looked up, the last
\* step of its client
CallOpen(steps, c, n) ==
  \E k \in 1..Len(steps) :
    /\ steps[k].do = "test" /\ steps[k].client = c
    /\ \A m \in (k + 1)..Len(steps) : steps[m].client # c
    /\ \A m \in 1..k : steps[m].do = "insert" => steps[m].name # n
Pending ==
  \A b \in Builds : \A c \in Clients : calls[b][c] # NoCall => CallOpen(log[b], c, calls[b][c])

\* a name that was inserted stays taken
Inserted ==
  \A b \in Builds : \A k \in 1..Len(log[b]) :
    log[b][k].do = "insert" => log[b][k].name \in DOMAIN users[b]

NamesHeld == NameTakenOnce /\ Pending /\ Inserted
==============================================================================
