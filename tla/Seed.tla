--------------------------------- MODULE Seed ---------------------------------
(***************************************************************************)
(* How the workshop of the crAPI target starts (services/workshop):        *)
(* runner.sh runs manage.py seed_database and then the server, and a       *)
(* container that was killed does so again on the tables it left.  The     *)
(* four functions of seed_database look for what is there already; one     *)
(* that raises is given up and the next one runs.  Every statement commits *)
(* by itself.  The user tables are shared with the identity service, which *)
(* takes its ids from their sequences, and with sign_up of the workshop,   *)
(* which takes the largest plus one (see Mechanic).                        *)
(***************************************************************************)
EXTENDS Integers, Sequences, FiniteSetsExt

CONSTANTS
  Catalogue,  \* product_details_all: the names, of which the first is ordered
  Mechanics,  \* mechanic_details_all: the e-mail addresses
  MechanicCodes,  \* the codes a mechanic may have
  CodeOf,         \* the code of each address of mechanic_details_all
  Customers,  \* who signs up with the identity service
  Visitors,   \* who signs up as a mechanic
  Early,      \* the customers there were before the first start, in order
  Reports,    \* how many service requests are made: 5
  Orders,     \* for how many users an order is made: 5
  MaxBoots    \* bound: how often the container starts

RangeOf(s) == {s[k] : k \in 1..Len(s)}
Addresses == Customers \cup Visitors \cup RangeOf(Mechanics)

ASSUME SeedAssumption ==
  /\ Catalogue # <<>>
  /\ \A j, k \in 1..Len(Catalogue) : Catalogue[j] = Catalogue[k] => j = k
  /\ \A j, k \in 1..Len(Mechanics) : Mechanics[j] = Mechanics[k] => j = k
  /\ Early \in Seq(Customers)
  /\ \A j, k \in 1..Len(Early) : Early[j] = Early[k] => j = k
  /\ Mechanics # <<>> /\ CodeOf \in [RangeOf(Mechanics) -> MechanicCodes]
  /\ \A m, n \in RangeOf(Mechanics) : CodeOf[m] = CodeOf[n] => m = n
  /\ {Reports, Orders} \subseteq Nat \ {0} /\ MaxBoots \in Nat

VARIABLES
  stage, at,         \* where the container is, and in which round of a loop
  todo,           \* the users create_orders has fetched and not served
  product,        \* how many rows the product table has of each name
  user, profile,  \* the id of each address in user_login and user_details, or 0
  mechanic,       \* the rows <<mechanic_code, address of its user>>
  sequence,       \* user_login_id_seq and user_details_id_seq
  reports, orders,  \* the service requests and orders that were seeded
  placed,         \* those that users made
  boots,
  ended,          \* how the last start ended
  clean, torn,    \* history: nothing failed since the last start; the mechanics whose
                  \* details were given up
  wanted, broken  \* history: the users create_orders fetched last, and whether its
                  \* orders were broken off

seed == <<stage, at, todo, product, user, profile, mechanic, sequence, reports, orders,
          placed, boots, ended, clean, torn, wanted, broken>>
people == <<user, profile, mechanic, sequence>>
goods == <<product, reports, orders, placed>>
round == <<todo, wanted, broken>>

SeedTypes ==
  /\ stage \in {"down", "ping", "products", "user", "mechanic", "details", "reports",
             "report", "orders", "order", "serving"}
  /\ at \in Nat \ {0}
  /\ todo \in Seq(Addresses)
  /\ product \in [RangeOf(Catalogue) -> Nat] /\ orders \in [Addresses -> Nat]
  /\ {user, profile} \subseteq [Addresses -> Nat] /\ mechanic \subseteq MechanicCodes \X Addresses
  /\ sequence \in [{"user", "details"} -> Nat]
  /\ reports \in Nat /\ placed \in [{"report", "order"} -> Nat]
  /\ boots \in 0..MaxBoots /\ ended \in {"never", "killed", "exit"}
  /\ clean \in BOOLEAN /\ torn \subseteq RangeOf(Mechanics)
  /\ wanted \subseteq Addresses /\ broken \in BOOLEAN

SeedInit ==
  /\ stage = "down" /\ at = 1 /\ todo = <<>>
  /\ product = [n \in RangeOf(Catalogue) |-> 0]
  /\ user = [e \in Addresses |-> Max({0} \cup {k \in 1..Len(Early) : Early[k] = e})]
  /\ profile = user /\ mechanic = {}
  /\ sequence = [t \in {"user", "details"} |-> Len(Early)]
  /\ reports = 0 /\ orders = [e \in Addresses |-> 0]
  /\ placed = [t \in {"report", "order"} |-> 0]
  /\ boots = 0 /\ ended = "never" /\ clean = TRUE /\ torn = {}
  /\ wanted = {} /\ broken = FALSE

------------------------------------------------------------------------------
Enter(next) == stage' = next /\ at' = 1
Round(next) == stage' = next /\ at' = at + 1
Due == Mechanics[at]

Boot ==
  /\ stage = "down" /\ boots < MaxBoots
  /\ Enter("ping") /\ boots' = boots + 1 /\ clean' = TRUE
  /\ UNCHANGED <<round, people, goods, ended, torn>>

\* without the identity server the command exits, and runner.sh with it
Ping ==
  /\ stage = "ping"
  /\ \/ Enter("products") /\ UNCHANGED ended
     \/ Enter("down") /\ ended' = "exit"
  /\ UNCHANGED <<round, people, goods, boots, clean, torn>>

\* the function that is running is given up, and handle goes on
NextFunction ==
  CASE stage = "products" -> "user"
    [] stage \in {"user", "mechanic", "details"} -> "reports"
    [] stage = "reports" -> "orders"
    [] OTHER -> "serving"
\* mutant: the exception leaves handle
GiveUp_Exits ==
  /\ Enter("down") /\ ended' = "exit" /\ clean' = FALSE
  /\ torn' = IF stage = "details" THEN torn \cup {Due} ELSE torn
  /\ broken' = (broken \/ stage = "order")
GiveUp ==
  /\ Enter(NextFunction) /\ clean' = FALSE
  /\ torn' = IF stage = "details" THEN torn \cup {Due} ELSE torn
  /\ broken' = (broken \/ stage = "order")
  /\ UNCHANGED ended

Raise ==
  /\ stage \in {"products", "user", "mechanic", "details", "reports", "orders", "order"}
  /\ GiveUp
  /\ todo' = <<>> /\ UNCHANGED <<people, goods, boots, wanted>>

\* mutant: without looking for it
CreateProduct_Again ==
  /\ stage = "products"
  /\ IF at > Len(Catalogue) THEN Enter("user") /\ UNCHANGED product
     ELSE Round("products") /\ product' = [product EXCEPT ![Catalogue[at]] = @ + 1]
  /\ UNCHANGED <<round, people, reports, orders, placed, boots, ended, clean, torn>>
\* create_products
CreateProduct ==
  /\ stage = "products"
  /\ IF at > Len(Catalogue) THEN Enter("user") /\ UNCHANGED product
     ELSE /\ Round("products")
          /\ product' = [product EXCEPT ![Catalogue[at]] = IF @ > 0 THEN @ ELSE @ + 1]
  /\ UNCHANGED <<round, people, reports, orders, placed, boots, ended, clean, torn>>

\* nextval, or 1 when it failed
NextId(table, n) ==
  \/ n = sequence[table] + 1 /\ sequence' = [sequence EXCEPT ![table] = n]
  \/ n = 1 /\ UNCHANGED sequence

\* mutant: a user who is there is taken for a mechanic who is there
SeedUser_Skips ==
  /\ stage = "user"
  /\ IF at > Len(Mechanics)
     THEN Enter("reports") /\ UNCHANGED <<user, sequence, ended, clean, torn>>
     ELSE IF user[Due] # 0
     THEN Round("user") /\ UNCHANGED <<user, sequence, ended, clean, torn>>
     ELSE \E n \in {sequence["user"] + 1, 1} :
            /\ NextId("user", n)
            /\ IF \E e \in Addresses : user[e] = n THEN GiveUp /\ UNCHANGED user
               ELSE /\ user' = [user EXCEPT ![Due] = n] /\ stage' = "mechanic"
                    /\ UNCHANGED <<at, ended, clean, torn>>
  /\ UNCHANGED <<round, profile, mechanic, goods, boots>>
\* create_mechanics: the user, who may be there; id is the primary key
SeedUser ==
  /\ stage = "user"
  /\ IF at > Len(Mechanics)
     THEN Enter("reports") /\ UNCHANGED <<user, sequence, ended, clean, torn>>
     ELSE IF user[Due] # 0
     THEN stage' = "mechanic" /\ UNCHANGED <<at, user, sequence, ended, clean, torn>>
     ELSE \E n \in {sequence["user"] + 1, 1} :
            /\ NextId("user", n)
            /\ IF \E e \in Addresses : user[e] = n THEN GiveUp /\ UNCHANGED user
               ELSE /\ user' = [user EXCEPT ![Due] = n] /\ stage' = "mechanic"
                    /\ UNCHANGED <<at, ended, clean, torn>>
  /\ UNCHANGED <<round, profile, mechanic, goods, boots>>

InUse(code) == \E e \in Addresses : <<code, e>> \in mechanic
\* a mechanic whose code is in use, by whomever, is skipped, details and all
SeedMechanic ==
  /\ stage = "mechanic"
  /\ IF InUse(CodeOf[Due]) THEN Round("user") /\ UNCHANGED mechanic
     ELSE stage' = "details" /\ mechanic' = mechanic \cup {<<CodeOf[Due], Due>>} /\ UNCHANGED at
  /\ UNCHANGED <<round, user, profile, sequence, goods, boots, ended, clean, torn>>

SeedDetails ==
  /\ stage = "details"
  /\ \E n \in {sequence["details"] + 1, 1} :
       /\ NextId("details", n)
       /\ IF \E e \in Addresses : profile[e] = n THEN GiveUp /\ UNCHANGED profile
          ELSE Round("user") /\ profile' = [profile EXCEPT ![Due] = n]
               /\ UNCHANGED <<ended, clean, torn>>
  /\ UNCHANGED <<round, user, mechanic, goods, boots>>

\* create_reports: all of them, unless there are as many
CreateReports ==
  /\ stage = "reports"
  /\ Enter(IF reports + placed["report"] >= Reports THEN "orders" ELSE "report")
  /\ UNCHANGED <<round, people, goods, boots, ended, clean, torn>>

\* one that fails is left out; random.choice of no mechanics fails
CreateReport ==
  /\ stage = "report"
  /\ IF at > Reports THEN Enter("orders") /\ UNCHANGED <<reports, clean>>
     ELSE /\ Round("report")
          /\ \/ reports' = reports /\ clean' = FALSE
             \/ mechanic # {} /\ reports' = reports + 1 /\ UNCHANGED clean
  /\ UNCHANGED <<round, people, product, orders, placed, boots, ended, torn>>

\* the first users by id
FirstUsers ==
  LET Known == {e \in Addresses : user[e] # 0}
      Before(e) == Cardinality({f \in Known : user[f] < user[e]})
  IN  [k \in 1..(IF Cardinality(Known) < Orders THEN Cardinality(Known) ELSE Orders) |->
         CHOOSE e \in Known : Before(e) = k - 1]

\* create_orders: none when there is any
CreateOrders ==
  /\ stage = "orders"
  /\ IF placed["order"] > 0 \/ \E e \in Addresses : orders[e] > 0
     THEN Enter("serving") /\ UNCHANGED round
     ELSE /\ Enter("order") /\ todo' = FirstUsers
          /\ wanted' = RangeOf(FirstUsers) /\ broken' = FALSE
  /\ UNCHANGED <<people, goods, boots, ended, clean, torn>>

\* an order without a product violates its foreign key
CreateOrder ==
  /\ stage = "order"
  /\ IF todo = <<>> THEN Enter("serving") /\ UNCHANGED <<todo, orders, broken, ended, clean, torn>>
     ELSE IF product[Catalogue[1]] = 0 THEN GiveUp /\ todo' = <<>> /\ UNCHANGED orders
     ELSE /\ orders' = [orders EXCEPT ![Head(todo)] = @ + 1] /\ todo' = Tail(todo)
          /\ UNCHANGED <<stage, at, broken, ended, clean, torn>>
  /\ UNCHANGED <<people, product, reports, placed, boots, wanted>>

\* the container stops, wherever it is
Kill ==
  /\ stage # "down" /\ Enter("down") /\ ended' = "killed"
  /\ torn' = IF stage = "details" THEN torn \cup {Due} ELSE torn
  /\ broken' = (broken \/ stage = "order")
  /\ todo' = <<>> /\ UNCHANGED <<people, goods, boots, clean, wanted>>

------------------------------------------------------------------------------
\* a customer of the identity service: ids that are taken let the insert fail
SignUpElsewhere(e) ==
  /\ user[e] = 0
  /\ sequence' = [t \in {"user", "details"} |-> sequence[t] + 1]
  /\ IF \E f \in Addresses : user[f] = sequence'["user"] \/ profile[f] = sequence'["details"]
     THEN UNCHANGED <<user, profile>>
     ELSE /\ user' = [user EXCEPT ![e] = sequence'["user"]]
          /\ profile' = [profile EXCEPT ![e] = sequence'["details"]]
  /\ UNCHANGED <<stage, at, round, mechanic, goods, boots, ended, clean, torn>>

\* SignUpView.post, which Mechanic has step by step
SignUpHere(e, code) ==
  /\ stage = "serving" /\ user[e] = 0 /\ ~InUse(code)
  /\ user' = [user EXCEPT ![e] = 1 + Max({user[f] : f \in Addresses})]
  /\ profile' = [profile EXCEPT ![e] = 1 + Max({profile[f] : f \in Addresses})]
  /\ mechanic' = mechanic \cup {<<code, e>>}
  /\ UNCHANGED <<stage, at, round, sequence, goods, boots, ended, clean, torn>>

\* a user orders, or contacts a mechanic; one of each is enough
Place(kind) ==
  /\ stage = "serving" /\ placed[kind] = 0
  /\ placed' = [placed EXCEPT ![kind] = 1]
  /\ UNCHANGED <<stage, at, round, people, product, reports, orders, boots, ended, clean, torn>>

Seeding ==
  \/ Ping \/ CreateProduct \/ SeedUser \/ SeedMechanic \/ SeedDetails
  \/ CreateReports \/ CreateReport \/ CreateOrders \/ CreateOrder

SeedNext ==
  \/ Boot \/ Seeding \/ Raise \/ Kill
  \/ \E e \in Customers : SignUpElsewhere(e)
  \/ \E e \in Visitors, code \in MechanicCodes : SignUpHere(e, code)
  \/ \E kind \in {"report", "order"} : Place(kind)

SeedSpec == SeedInit /\ [][SeedNext]_seed

\* the command runs while nobody stops it; nobody has to start it
SeedFair == SeedSpec /\ WF_seed(Seeding)

------------------------------------------------------------------------------
\* However often the container is killed and started, and wherever, nothing is
\* seeded twice: one row of each product, one order of a user and no more than
\* the first start makes, and fewer than two sets of reports (the checks of
\* create_products, create_orders and create_reports).
NothingTwice ==
  /\ \A n \in RangeOf(Catalogue) : product[n] <= 1
  /\ \A e \in Addresses : orders[e] <= 1
  /\ Cardinality({e \in Addresses : orders[e] > 0}) <= Orders
  /\ reports < 2 * Reports

\* The state of the tables is well typed, seeded once, and no two users share an
\* id, whichever of the three ways of taking one was used.
SeedInv ==
  /\ SeedTypes /\ NothingTwice
  /\ \A e, f \in Addresses : user[e] # 0 /\ user[e] = user[f] => e = f

\* A start in which nothing fails leaves every product, every code of a seeded
\* mechanic, enough service requests and, where users made none, the orders of all
\* the users it or an earlier start fetched.  Three things no later start completes:
\* orders that were broken off, the details of a mechanic that were given up once,
\* and a mechanic whose code a visitor took first (create_orders looks for any
\* order, create_mechanics for the code).
BootCompletes ==
  /\ stage = "serving" /\ clean =>
       /\ \A n \in RangeOf(Catalogue) : product[n] = 1
       /\ \A m \in RangeOf(Mechanics) : \E e \in Visitors \cup {m} : <<CodeOf[m], e>> \in mechanic
       /\ reports + placed["report"] >= Reports
       /\ \/ placed["order"] > 0
          \/ wanted # {} /\ (broken \/ \A e \in wanted : orders[e] = 1)
  /\ \A row \in mechanic :
       profile[row[2]] # 0 \/ row[2] \in torn \/ (stage = "details" /\ Due = row[2])

\* Once the identity server has answered, the server starts, whatever part of
\* the seeding fails, unless the container is killed (the except clauses of handle).
StartsAnyway ==
  (stage = "products") ~> (stage = "serving" \/ (stage = "down" /\ ended = "killed"))
==============================================================================
