--------------------------------- MODULE Shop ---------------------------------
(***************************************************************************)
(* The shop of the crAPI target (services/workshop/crapi/shop): orders,    *)
(* returns and coupons of its users, paid from the credit the user_details *)
(* table keeps.  The handlers run on the threads of one gunicorn worker,   *)
(* every statement of the ORM commits by itself, and save() writes the     *)
(* whole row the handler read before; so each statement is a step.  The    *)
(* code of a coupon is pasted into SQL, so some codes are statements; what *)
(* holds of the rows then is up to them.                                   *)
(***************************************************************************)
EXTENDS Integers, Sequences, FiniteSetsExt

CONSTANTS
  Users, Products, Coupons,
  Price,        \* Product.price
  Stocked,      \* the products there are at first
  Opening,      \* the credit the identity service gave each user
  Seeded,       \* the orders create_orders made before the server started
  Requests,     \* the requests the users may make
  MaxRequests,  \* bound: how many of them
  Crafted,      \* the codes that close the quote apply_coupon puts around them
  Rewritten,    \* bound: the tables such a code may leave
  Keep,         \* a field the body of a PUT leaves out
  NotANumber,   \* an amount sent as a string
  NoRequest, NoOrder

Statuses == {"delivered", "return pending", "returned"}
Order == [user : Users, product : Products, quantity : Int, status : Statuses]

\* PUT takes any string as a status; bogus is one that STATUS_CHOICES lacks
Request ==
       [op : {"stock"}, user : Users, product : Products]
  \cup [op : {"order"}, user : Users, product : Products, quantity : Int]
  \cup [op : {"update"}, user : Users, order : Nat, quantity : Int \cup {Keep},
        status : Statuses \cup {"bogus", Keep}]
  \cup [op : {"return"}, user : Users, order : Nat]
  \cup [op : {"coupon"}, user : Users, code : STRING, amount : Int \cup {NotANumber}]
Tables == [credit : [Users -> Int], shelf : SUBSET Products, orders : Seq(Order),
           applied : SUBSET (Users \X STRING)]

ASSUME ShopAssumption ==
  /\ Price \in [Products -> Int] /\ Opening \in [Users -> Int]
  /\ Stocked \subseteq Products /\ Seeded \in Seq(Order)
  /\ MaxRequests \in Nat
  /\ \A tables \in Rewritten : tables \in Tables
  /\ \A ask \in Requests : ask \in Request
  /\ Keep \notin Int \cup Statuses \cup {"bogus"} /\ NotANumber \notin Int
  /\ NoRequest \notin Request /\ NoOrder \notin Order

\* what seed_database put there: products with a price, and orders of two of them
ASSUME SeedAssumption ==
  /\ \A p \in Stocked : Price[p] >= 0
  /\ \A k \in 1..Len(Seeded) : Seeded[k].product \in Stocked /\ Seeded[k].quantity >= 0

VARIABLES
  credit,   \* user_details.available_credit
  shelf,    \* the product table
  orders,   \* the order table: a row has its position as id, and none is deleted
  applied,  \* the applied_coupon table
  tampered, \* history: a coupon_code was run as SQL
  req       \* the requests: what was asked, where its handler is, what it holds

vars == <<credit, shelf, orders, applied, tampered, req>>

Ids == 1..MaxRequests
Over == {"answered", "refused", "failed"}
Busy == {"stock", "order", "create", "update", "details", "return", "coupon",
         "claim", "amount", "charge", "refund", "store"}
(* credit and row are the objects of the handler; delta is what it adds to *)
(* the credit; before is history: the requests that were over when this    *)
(* one arrived.                                                            *)
Handling == [ask : Requests \cup {NoRequest}, pc : {"idle"} \cup Busy \cup Over,
             credit : Int, delta : Int, row : Order \cup {NoOrder}, before : SUBSET Ids]

TypeOK ==
  /\ credit \in [Users -> Int]
  /\ shelf \subseteq Products
  /\ orders \in Seq(Order)
  /\ applied \subseteq Users \X STRING
  /\ tampered \in BOOLEAN
  /\ req \in [Ids -> Handling]

Idle == [ask |-> NoRequest, pc |-> "idle", credit |-> 0, delta |-> 0,
         row |-> NoOrder, before |-> {}]

Init ==
  /\ credit = Opening /\ shelf = Stocked /\ orders = Seeded
  /\ applied = {} /\ tampered = FALSE
  /\ req = [r \in Ids |-> Idle]

------------------------------------------------------------------------------
Ask(r) == req[r].ask
User(r) == Ask(r).user
At(r, pc) == r \in Ids /\ req[r].pc = pc
Go(r, pc) == req' = [req EXCEPT ![r].pc = pc]

\* jwt_auth_required: the identity service vouches for the token, or no handler runs
Arrive(r) ==
  /\ At(r, "idle") /\ \A s \in Ids : s < r => req[s].pc # "idle"
  /\ \E ask \in Requests, valid \in BOOLEAN :
       req' = [req EXCEPT ![r] = [Idle EXCEPT
                 !.ask = ask, !.pc = IF valid THEN ask.op ELSE "refused",
                 !.before = {s \in Ids : req[s].pc \in Over}]]
  /\ UNCHANGED <<credit, shelf, orders, applied, tampered>>

\* ProductView.post
AddProduct(r) ==
  /\ At(r, "stock") /\ Go(r, "answered")
  /\ shelf' = shelf \cup {Ask(r).product}
  /\ UNCHANGED <<credit, orders, applied, tampered>>

\* OrderControlView.post: the price of one is compared with the credit, the
\* price of all is taken from it
ReadBalance(r) ==
  /\ At(r, "order")
  /\ LET ask == Ask(r) IN
     IF ask.product \notin shelf THEN Go(r, "failed")
     ELSE IF credit[ask.user] < Price[ask.product] THEN Go(r, "refused")
     ELSE req' = [req EXCEPT ![r].pc = "create", ![r].credit = credit[ask.user],
                             ![r].delta = -(Price[ask.product] * ask.quantity)]
  /\ UNCHANGED <<credit, shelf, orders, applied, tampered>>

CreateOrder(r) ==
  /\ At(r, "create") /\ Go(r, "charge")
  /\ orders' = Append(orders, [user |-> User(r), product |-> Ask(r).product,
                               quantity |-> Ask(r).quantity, status |-> "delivered"])
  /\ UNCHANGED <<credit, shelf, applied, tampered>>

\* mutant: the save is forgotten
SaveDetails_Not(r) ==
  /\ At(r, "charge") \/ At(r, "refund")
  /\ Go(r, IF Ask(r).op = "update" THEN "store" ELSE "answered")
  /\ UNCHANGED <<credit, shelf, orders, applied, tampered>>
\* user_details.save(): the last statement of an order and of a coupon
SaveDetails(r) ==
  /\ At(r, "charge") \/ At(r, "refund")
  /\ credit' = [credit EXCEPT ![User(r)] = req[r].credit + req[r].delta]
  /\ Go(r, IF Ask(r).op = "update" THEN "store" ELSE "answered")
  /\ UNCHANGED <<shelf, orders, applied, tampered>>

\* Order.objects.get(id=...), and the check that it is the user's own
Row(r) == IF Ask(r).order \in 1..Len(orders) THEN orders[Ask(r).order] ELSE NoOrder

\* mutant: the owner is not compared
UpdateOrder_AnyOwner(r) ==
  /\ At(r, "update")
  /\ LET ask == Ask(r) IN
     IF Row(r) = NoOrder THEN Go(r, "failed")
     ELSE IF ask.status = "bogus" THEN Go(r, "refused")
     ELSE req' = [req EXCEPT ![r].pc = "details",
            ![r].row = [Row(r) EXCEPT !.quantity = IF ask.quantity = Keep THEN @ ELSE ask.quantity]]
  /\ UNCHANGED <<credit, shelf, orders, applied, tampered>>
\* OrderControlView.put: the order is read, its quantity replaced
UpdateOrder(r) ==
  /\ At(r, "update")
  /\ LET ask == Ask(r) IN
     IF Row(r) = NoOrder THEN Go(r, "failed")
     ELSE IF Row(r).user # ask.user \/ ask.status = "bogus" THEN Go(r, "refused")
     ELSE req' = [req EXCEPT ![r].pc = "details",
            ![r].row = [Row(r) EXCEPT !.quantity = IF ask.quantity = Keep THEN @ ELSE ask.quantity]]
  /\ UNCHANGED <<credit, shelf, orders, applied, tampered>>

\* then the details of its owner; a status that becomes returned pays the
\* quantity back
ReadDetails(r) ==
  /\ At(r, "details")
  /\ LET row == req[r].row
         status == IF Ask(r).status = Keep THEN row.status ELSE Ask(r).status
         returned == status = "returned" /\ row.status # "returned"
     IN  req' = [req EXCEPT
            ![r].pc = IF returned THEN "refund" ELSE "store",
            ![r].credit = credit[row.user], ![r].row.status = status,
            ![r].delta = IF returned THEN row.quantity * Price[row.product] ELSE 0]
  /\ UNCHANGED <<credit, shelf, orders, applied, tampered>>

\* order.save(): the whole row, as the handler has it
SaveOrder(r) ==
  /\ At(r, "store") /\ Go(r, "answered")
  /\ orders' = [orders EXCEPT ![Ask(r).order] = req[r].row]
  /\ UNCHANGED <<credit, shelf, applied, tampered>>

\* mutant: order.save is forgotten
ReturnOrder_NotSaved(r) ==
  /\ At(r, "return")
  /\ Go(r, IF Row(r) = NoOrder THEN "failed"
           ELSE IF Row(r).user # User(r) \/ Row(r).status # "delivered" THEN "refused"
           ELSE "answered")
  /\ UNCHANGED <<credit, shelf, orders, applied, tampered>>
\* ReturnOrder.post
ReturnOrder(r) ==
  /\ At(r, "return")
  /\ IF Row(r) = NoOrder THEN Go(r, "failed")
     ELSE IF Row(r).user # User(r) \/ Row(r).status # "delivered" THEN Go(r, "refused")
     ELSE req' = [req EXCEPT ![r].pc = "store",
                             ![r].row = [Row(r) EXCEPT !.status = "return pending"]]
  /\ UNCHANGED <<credit, shelf, orders, applied, tampered>>

\* ApplyCouponView.post: not applied before, and known to the coupon database
ApplyCoupon(r) ==
  /\ At(r, "coupon") /\ Ask(r).code \notin Crafted
  /\ Go(r, IF <<User(r), Ask(r).code>> \in applied \/ Ask(r).code \notin Coupons
           THEN "refused" ELSE "claim")
  /\ UNCHANGED <<credit, shelf, orders, applied, tampered>>

\* the code is pasted into the statement: one that ends the string it stands in
\* finds what it likes or fails, and may first leave other tables behind
ApplyCrafted(r) ==
  /\ At(r, "coupon") /\ Ask(r).code \in Crafted
  /\ tampered' = TRUE
  /\ \/ UNCHANGED <<credit, shelf, orders, applied>>
     \/ \E tables \in Rewritten :
          /\ Len(tables.orders) >= Len(orders)
          /\ credit' = tables.credit /\ shelf' = tables.shelf
          /\ orders' = tables.orders /\ applied' = tables.applied
  /\ \/ Go(r, "failed") \/ Go(r, "refused")
     \/ Ask(r).code \in Coupons /\ Go(r, "claim")

ClaimCoupon(r) ==
  /\ At(r, "claim") /\ Go(r, "amount")
  /\ applied' = applied \cup {<<User(r), Ask(r).code>>}
  /\ UNCHANGED <<credit, shelf, orders, tampered>>

\* the amount is the one of the request; a string the serializer would convert
\* is added as it came and raises TypeError
ReadAmount(r) ==
  /\ At(r, "amount")
  /\ IF Ask(r).amount = NotANumber THEN Go(r, "failed")
     ELSE req' = [req EXCEPT ![r].pc = "charge", ![r].credit = credit[User(r)],
                             ![r].delta = Ask(r).amount]
  /\ UNCHANGED <<credit, shelf, orders, applied, tampered>>

\* the database or the worker (gunicorn --timeout) ends a handler between two
\* statements; what it wrote stays
Fail(r) ==
  /\ r \in Ids /\ req[r].pc \in Busy
  /\ Go(r, "failed")
  /\ UNCHANGED <<credit, shelf, orders, applied, tampered>>

Next ==
  \E r \in Ids :
    \/ Arrive(r) \/ AddProduct(r)
    \/ ReadBalance(r) \/ CreateOrder(r) \/ SaveDetails(r)
    \/ UpdateOrder(r) \/ ReadDetails(r) \/ SaveOrder(r)
    \/ ReturnOrder(r)
    \/ ApplyCoupon(r) \/ ApplyCrafted(r) \/ ClaimCoupon(r) \/ ReadAmount(r)
    \/ Fail(r)

Spec == Init /\ [][Next]_vars

------------------------------------------------------------------------------
Asked(r, op) == req[r].pc # "idle" /\ Ask(r).op = op
Answered(r, op) == req[r].pc = "answered" /\ Ask(r).op = op
Of(u) == {r \in Ids : req[r].pc # "idle" /\ User(r) = u}
Precedes(r, s) == r \in req[s].before

\* the requests of a user came one after the other, and none broke off
Undisturbed(u) ==
  \A r \in Of(u) :
    /\ req[r].pc \in {"answered", "refused"}
    /\ \A s \in Of(u) : r = s \/ Precedes(r, s) \/ Precedes(s, r)

\* what the handlers of paid added to the credit
Credited(paid) == SumFunctionOnSet([r \in Ids |-> req[r].delta], paid)

\* A user who waits for every answer has the credit the answers add up to,
\* whatever the requests of others do meanwhile, but for a coupon_code that was
\* run as SQL: a lost update takes two requests of the same user, or a failed one
\* (the read-modify-write of available_credit).
CreditAccounted ==
  ~tampered => \A u \in Users : Undisturbed(u) =>
    credit[u] = Opening[u] + Credited({r \in Of(u) : req[r].pc = "answered"})

\* Until a coupon_code is run as SQL, a step changes the credit and the orders of
\* no user but the one whose request it handles: put pays the owner of the order,
\* and only that user may put.
OnlyOwnRequests ==
  [][~tampered' => \A u \in Users :
       \/ credit'[u] # credit[u]
       \/ \E o \in DOMAIN orders : orders[o].user = u /\ orders'[o] # orders[o]
       => \E r \in Of(u) : req[r].pc \in Busy /\ req'[r].pc # req[r].pc]_vars

\* Until a coupon_code is run as SQL, a user is credited twice for one coupon only
\* by claims that overlapped: the row of the first is there before its answer
\* (ApplyCouponView.post).
CouponOnce ==
  \A r, s \in Ids : Answered(r, "coupon") /\ Answered(s, "coupon") /\ Precedes(r, s) =>
    <<User(r), Ask(r).code>> # <<User(s), Ask(s).code>>

\* Two answered updates, one after the other, both refund an order only when a
\* third request overwrote its status after the first began: a new status, or
\* the stale row of a request that overlapped (OrderControlView.put).
Refunded(r) == Answered(r, "update") /\ req[r].delta # 0
MovesStatus(x, o) ==
  \/ Asked(x, "return") /\ Ask(x).order = o
  \/ Asked(x, "update") /\ Ask(x).order = o /\ Ask(x).status # "returned"
RefundOnce ==
  \A r, s \in Ids :
    Refunded(r) /\ Refunded(s) /\ Ask(r).order = Ask(s).order /\ Precedes(r, s) =>
      \E x \in Ids : MovesStatus(x, Ask(r).order) /\ ~Precedes(x, r) /\ ~Precedes(s, x)

\* A return that was answered stays on record: the order is pending unless an
\* update came after it or overlapped with it (ReturnOrder.post, order.save).
ReturnSticks ==
  \A r \in Ids : Answered(r, "return")
      /\ (\A x \in Ids : Asked(x, "update") /\ Ask(x).order = Ask(r).order => Precedes(x, r)) =>
    orders[Ask(r).order].status = "return pending"

\* What a request asks is not negative: nothing in the code says so.
Positive(ask) ==
  /\ ask.op = "stock" => Price[ask.product] >= 0
  /\ ask.op = "order" => ask.quantity >= 0
  /\ ask.op = "update" => ask.quantity = Keep \/ ask.quantity >= 0
  /\ ask.op = "coupon" => ask.amount = NotANumber \/ ask.amount >= 0
AllPositive == \A r \in Ids : req[r].pc # "idle" => Positive(Ask(r))

\* The balance is compared with the price of one, so it may go below zero; but
\* no lower than one order takes it, however orders, refunds and coupons overlap,
\* as long as nobody asked for a negative quantity, price or amount, which no view
\* refuses (OrderControlView.post).
Lows == {Opening[u] : u \in Users} \cup
        {Price[ask.product] * (1 - ask.quantity) : ask \in {a \in Requests : a.op = "order"}}
NotBelow(balance) == \E low \in Lows : low <= balance
CreditFloor == AllPositive => \A u \in Users : NotBelow(credit[u])

------------------------------------------------------------------------------
\* The parts of the inductive invariant.

\* a handler is where the request it serves leads, and who was over when it
\* arrived still is
Course ==
  {<<"stock", "stock">>}
  \cup ({"order"} \X {"order", "create", "charge"})
  \cup ({"update"} \X {"update", "details", "refund", "store"})
  \cup ({"return"} \X {"return", "store"})
  \cup ({"coupon"} \X {"coupon", "claim", "amount", "charge"})
InCourse ==
  \A r \in Ids :
    /\ req[r].pc # "idle" => Ask(r) \in Requests
    /\ req[r].pc \in Busy => <<Ask(r).op, req[r].pc>> \in Course
    /\ \A s \in req[r].before : req[s].pc \in Over

\* the row a handler holds is of an order of its own user, and its status is what
\* the request makes of it
Holding(r) ==
  req[r].pc \in {"details", "refund", "store"} \/ Answered(r, "update") \/ Answered(r, "return")
OwnRow(r) ==
  /\ Ask(r).order \in 1..Len(orders) /\ orders[Ask(r).order].user = User(r)
  /\ req[r].row \in Order /\ req[r].row.user = User(r)
  /\ Ask(r).op = "return" => req[r].row.status = "return pending"
  /\ Ask(r).op = "update" => Ask(r).status # "bogus"
  /\ Ask(r).op = "update" /\ req[r].pc # "details" =>
       /\ req[r].delta # 0 => req[r].row.status = "returned"
       /\ req[r].row.status # "returned" => Ask(r).status # "returned"
RowHeld == \A r \in Ids : Holding(r) => OwnRow(r)

\* a claim has its row, and who comes after it finds that
Claimed ==
  /\ \A r \in Ids : req[r].pc \in {"amount", "charge", "answered"} /\ Ask(r).op = "coupon" =>
       <<User(r), Ask(r).code>> \in applied
  /\ \A r, s \in Ids : Answered(r, "coupon") /\ Precedes(r, s)
         /\ req[s].pc \in {"claim", "amount", "charge", "answered"} /\ Ask(s).op = "coupon" =>
       <<User(r), Ask(r).code>> # <<User(s), Ask(s).code>>

\* an order that was refunded is returned until somebody moves its status, and
\* who comes after the refund finds that
Mover(x, r) == MovesStatus(x, Ask(r).order) /\ ~Precedes(x, r)
Refunds(s) ==
  /\ Holding(s) /\ Ask(s).op = "update"
  /\ IF req[s].pc = "details" THEN req[s].row.status # "returned" ELSE req[s].delta # 0
RefundKept ==
  /\ \A r \in Ids : Refunded(r) =>
       orders[Ask(r).order].status = "returned" \/ \E x \in Ids : Mover(x, r)
  /\ \A r, s \in Ids : Refunded(r) /\ Precedes(r, s) /\ Refunds(s) /\ Ask(s).order = Ask(r).order =>
       \E x \in Ids : Mover(x, r) /\ ~Precedes(s, x)

\* orders are of products there are, and what is held is above the floor, too
Stock ==
  /\ \A o \in 1..Len(orders) : orders[o].product \in shelf
  /\ \A r \in Ids :
       /\ req[r].pc = "create" => Ask(r).product \in shelf
       /\ Holding(r) => req[r].row.product \in shelf
Balances ==
  AllPositive =>
    /\ \A p \in shelf : Price[p] >= 0
    /\ \A o \in 1..Len(orders) : orders[o].quantity >= 0
    /\ \A r \in Ids :
         /\ Holding(r) => req[r].row.quantity >= 0
         /\ req[r].pc \in {"create", "charge", "refund"} => NotBelow(req[r].credit + req[r].delta)

\* while the requests of a user come one after the other, the credit is what those
\* that saved it add up to, and a handler that will save it holds it as it is
Orderly(u) ==
  \A r \in Of(u) :
    /\ req[r].pc # "failed"
    /\ \A s \in Of(u) : r = s \/ Precedes(r, s) \/ Precedes(s, r)
Paid(u) == {r \in Of(u) : req[r].pc \in {"store", "answered"}}
Accounts ==
  /\ \A r \in Ids : Asked(r, "stock") \/ Asked(r, "return") => req[r].delta = 0
  /\ \A u \in Users : Orderly(u) =>
       /\ credit[u] = Opening[u] + Credited(Paid(u))
       /\ \A r \in Of(u) : req[r].pc \in {"create", "charge", "refund"} =>
            req[r].credit = credit[u]

\* the row a handler will save is one, whatever became of the tables
RowTyped ==
  \A r \in Ids :
    /\ req[r].pc \in {"details", "refund", "store"} => req[r].row \in Order
    /\ req[r].pc = "details" => Ask(r).status # "bogus"

Promised ==
  /\ CouponOnce /\ RefundOnce /\ ReturnSticks /\ CreditFloor
  /\ RowHeld /\ Claimed /\ RefundKept /\ Stock /\ Balances /\ Accounts

\* What the shop keeps however its requests overlap or fail, until one of them has
\* its coupon_code run as SQL: a coupon is credited twice and an order refunded
\* twice only by requests that overlapped, a return stays on record, and no
\* balance falls below the floor (the four views).
Inv == TypeOK /\ InCourse /\ RowTyped /\ (~tampered => Promised)
==============================================================================
