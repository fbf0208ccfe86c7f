----------------------------- MODULE Shop_proofs -----------------------------
(***************************************************************************)
(* Shop: for every set of users, products, prices and requests, and every  *)
(* number of them, what coupons, refunds, returns and balances keep when   *)
(* the handlers overlap or break off between any two statements, and what  *)
(* the credit of a user adds up to who waits for every answer.             *)
(***************************************************************************)
EXTENDS Shop, FiniteSetTheorems, WellFoundedInduction, TLAPS

\* Of the subsets of a finite set, some have no smaller one among them.
LEMMA LeastSubset ==
  ASSUME NEW S, IsFiniteSet(S), NEW F, F \subseteq SUBSET S, F # {}
  PROVE  \E T \in F : \A U \in F : U \subseteq T => U = T
<1> DEFINE R == StrictSubsetOrdering(S)
<1>1. IsWellFoundedOn(R, SUBSET S)
  BY FS_StrictSubsetOrderingWellFounded, FS_FiniteSubsetsOfFinite
<1>2. \A U, T \in SUBSET S : U \subseteq T /\ U # T => <<U, T>> \in R
  BY DEF StrictSubsetOrdering
<1> HIDE DEF R
<1>3. PICK T \in F : \A U \in F : ~(<<U, T>> \in R)
  BY <1>1, WFMin
<1> QED BY <1>2, <1>3

(* The sum the library folds is the value of a function on the subsets of  *)
(* the set; here, that there is one such function, and what it adds up.    *)
Chosen(s) == CHOOSE x \in s : TRUE
Adds(g, d, s) == IF s = {} THEN 0 ELSE d[Chosen(s)] + g[s \ {Chosen(s)}]
Folds(g, d, S) == g = [s \in SUBSET S |-> Adds(g, d, s)]
Sums(g, d, S) == \A s \in SUBSET S : g[s] = Adds(g, d, s)

\* The library chooses one of these functions.
LEMMA SumIsFold ==
  ASSUME NEW d, NEW S
  PROVE  SumFunctionOnSet(d, S) = (CHOOSE g : Folds(g, d, S))[S]
  BY DEF SumFunctionOnSet, FoldFunctionOnSet, MapThenFoldSet, Folds, Adds, Chosen

\* What is chosen of a set is in it.
LEMMA ChosenIsIn ==
  ASSUME NEW S, S # {}
  PROVE  Chosen(S) \in S
  BY DEF Chosen

\* Such a function has the value that is wanted on every subset.
LEMMA FoldsSums ==
  ASSUME NEW d, NEW S, NEW g, Folds(g, d, S)
  PROVE  Sums(g, d, S)
<1> DEFINE G == [s \in SUBSET S |-> Adds(g, d, s)]
<1>1. \A s \in SUBSET S : G[s] = Adds(g, d, s)
  OBVIOUS
<1>2. g = G
  BY DEF Folds
<1> HIDE DEF G
<1> QED BY <1>1, <1>2, Zenon DEF Sums

\* Two of them agree wherever both are defined.
LEMMA SumsAgree ==
  ASSUME NEW d, NEW S, IsFiniteSet(S), NEW T \in SUBSET S,
         NEW g, Sums(g, d, S), NEW h, Sums(h, d, T), NEW s \in SUBSET T
  PROVE  g[s] = h[s]
<1> SUFFICES ASSUME g[s] # h[s] PROVE FALSE
  OBVIOUS
<1> DEFINE F == {t \in SUBSET T : g[t] # h[t]}
<1>1. IsFiniteSet(T) /\ s \in F /\ F \subseteq SUBSET T
  BY FS_Subset
<1> HIDE DEF F
<1>2. PICK t \in F : \A u \in F : u \subseteq t => u = t
  BY <1>1, LeastSubset
<1> USE DEF F
<1>3. t \in SUBSET S /\ t \in SUBSET T /\ g[t] # h[t]
  OBVIOUS
<1> HIDE DEF F
<1>4. g[t] = Adds(g, d, t)
  BY <1>3 DEF Sums
<1>5. h[t] = Adds(h, d, t)
  BY <1>3 DEF Sums
<1>6. t # {}
  BY <1>3, <1>4, <1>5 DEF Adds
<1>7. g[t \ {Chosen(t)}] = h[t \ {Chosen(t)}]
  BY <1>2, <1>3, <1>6, ChosenIsIn DEF F
<1> QED BY <1>3, <1>4, <1>5, <1>6, <1>7 DEF Adds

\* There is one on every finite set.
LEMMA FoldsExist ==
  ASSUME NEW d, NEW S, IsFiniteSet(S)
  PROVE  \E g : Folds(g, d, S)
<1> SUFFICES ASSUME ~ \E g : Folds(g, d, S) PROVE FALSE
  OBVIOUS
<1> DEFINE F == {t \in SUBSET S : ~ \E g : Folds(g, d, t)}
<1>1. S \in F /\ F \subseteq SUBSET S
  OBVIOUS
<1> HIDE DEF F
<1>2. PICK T \in F : \A u \in F : u \subseteq T => u = T
  BY <1>1, LeastSubset
<1> USE DEF F
<1>3. T \in SUBSET S /\ IsFiniteSet(T) /\ ~ \E g : Folds(g, d, T)
  BY FS_Subset
<1> DEFINE sum(t) == (CHOOSE g : Folds(g, d, t))[t]
           G == [t \in SUBSET T |-> IF t = {} THEN 0 ELSE d[Chosen(t)] + sum(t \ {Chosen(t)})]
<1>4. ASSUME NEW t \in SUBSET T, t # T
      PROVE  G[t] = sum(t)
  <2>1. \A u \in SUBSET t : \E g : Folds(g, d, u)
    BY <1>2, <1>3, <1>4
  <2> DEFINE h == CHOOSE g : Folds(g, d, t)
  <2>2. Sums(h, d, t)
    BY <2>1, FoldsSums
  <2>3. h[t] = Adds(h, d, t)
    BY <2>2 DEF Sums, Adds
  <2>4. ASSUME t # {} PROVE h[t \ {Chosen(t)}] = sum(t \ {Chosen(t)})
    <3> DEFINE u == t \ {Chosen(t)}
               k == CHOOSE g : Folds(g, d, u)
    <3>1. Sums(k, d, u)
      BY <2>1, FoldsSums
    <3>2. IsFiniteSet(t)
      BY <1>3, FS_Subset
    <3>3. u \in SUBSET t /\ u \in SUBSET u
      OBVIOUS
    <3> HIDE DEF u, h, k
    <3>4. h[u] = k[u]
      BY <2>2, <3>1, <3>2, <3>3, SumsAgree
    <3> QED BY <3>4 DEF u, h, k
  <2>5. h[t] = sum(t) /\ G[t] = IF t = {} THEN 0 ELSE d[Chosen(t)] + sum(t \ {Chosen(t)})
    OBVIOUS
  <2> HIDE DEF h, sum, G
  <2> QED BY <2>3, <2>4, <2>5 DEF Adds
<1>5. ASSUME NEW t \in SUBSET T, t # {}
      PROVE  G[t] = d[Chosen(t)] + G[t \ {Chosen(t)}]
  <2>1. t \ {Chosen(t)} \in SUBSET T /\ t \ {Chosen(t)} # T
    BY <1>5, ChosenIsIn
  <2>2. G[t \ {Chosen(t)}] = sum(t \ {Chosen(t)})
    BY <1>4, <2>1
  <2>3. G[t] = d[Chosen(t)] + sum(t \ {Chosen(t)})
    BY <1>5
  <2> HIDE DEF G, sum
  <2> QED BY <2>2, <2>3
<1>6. {} \in SUBSET T => G[{}] = 0
  OBVIOUS
<1>7. G = [t \in SUBSET T |-> G[t]]
  OBVIOUS
<1> HIDE DEF G, sum
<1>8. Folds(G, d, T)
  BY <1>5, <1>6, <1>7 DEF Folds, Adds
<1> QED BY <1>3, <1>8

\* So the sum of nothing is zero.
LEMMA SumEmpty ==
  ASSUME NEW d
  PROVE  SumFunctionOnSet(d, {}) = 0
<1> DEFINE g == CHOOSE k : Folds(k, d, {})
<1>1. Sums(g, d, {})
  BY FoldsExist, FoldsSums, FS_EmptySet
<1>2. g[{}] = 0
  BY <1>1 DEF Sums, Adds
<1> QED BY <1>2, SumIsFold

\* The element the library takes first.
LEMMA SumChosen ==
  ASSUME NEW d, NEW S, IsFiniteSet(S), S # {}
  PROVE  SumFunctionOnSet(d, S) = d[Chosen(S)] + SumFunctionOnSet(d, S \ {Chosen(S)})
<1> DEFINE U == S \ {Chosen(S)}
           g == CHOOSE k : Folds(k, d, S)
           h == CHOOSE k : Folds(k, d, U)
<1>1. U \in SUBSET S /\ U \in SUBSET U /\ IsFiniteSet(U)
  BY FS_RemoveElement
<1>2. Sums(g, d, S) /\ Sums(h, d, U)
  BY <1>1, FoldsExist, FoldsSums
<1>3. SumFunctionOnSet(d, S) = g[S] /\ SumFunctionOnSet(d, U) = h[U]
  BY SumIsFold
<1> HIDE DEF g, h, U
<1>4. g[U] = h[U]
  BY <1>1, <1>2, SumsAgree
<1>5. g[S] = d[Chosen(S)] + g[U]
  BY <1>2 DEF U, Sums, Adds
<1> QED BY <1>3, <1>4, <1>5 DEF U

\* A sum of integers is one.
LEMMA SumInt ==
  ASSUME NEW d, NEW S, IsFiniteSet(S), \A x \in S : d[x] \in Int
  PROVE  SumFunctionOnSet(d, S) \in Int
<1> SUFFICES ASSUME SumFunctionOnSet(d, S) \notin Int PROVE FALSE
  OBVIOUS
<1> DEFINE F == {t \in SUBSET S : SumFunctionOnSet(d, t) \notin Int}
<1>1. S \in F /\ F \subseteq SUBSET S
  OBVIOUS
<1> HIDE DEF F
<1>2. PICK t \in F : \A u \in F : u \subseteq t => u = t
  BY <1>1, LeastSubset
<1> USE DEF F
<1>3. t \in SUBSET S /\ IsFiniteSet(t) /\ SumFunctionOnSet(d, t) \notin Int
  BY FS_Subset
<1>4. t # {}
  BY <1>3, SumEmpty
<1>5. Chosen(t) \in t
  BY <1>4, ChosenIsIn
<1>6. SumFunctionOnSet(d, t \ {Chosen(t)}) \in Int
  BY <1>2, <1>3, <1>5
<1>7. SumFunctionOnSet(d, t) = d[Chosen(t)] + SumFunctionOnSet(d, t \ {Chosen(t)})
  BY <1>3, <1>4, SumChosen
<1> QED BY <1>3, <1>5, <1>6, <1>7

\* Only the values on the set count.
LEMMA SumSame ==
  ASSUME NEW d, NEW e, NEW S, IsFiniteSet(S), \A x \in S : d[x] = e[x]
  PROVE  SumFunctionOnSet(d, S) = SumFunctionOnSet(e, S)
<1> SUFFICES ASSUME SumFunctionOnSet(d, S) # SumFunctionOnSet(e, S) PROVE FALSE
  OBVIOUS
<1> DEFINE F == {t \in SUBSET S : SumFunctionOnSet(d, t) # SumFunctionOnSet(e, t)}
<1>1. S \in F /\ F \subseteq SUBSET S
  OBVIOUS
<1> HIDE DEF F
<1>2. PICK t \in F : \A u \in F : u \subseteq t => u = t
  BY <1>1, LeastSubset
<1> USE DEF F
<1>3. t \in SUBSET S /\ IsFiniteSet(t) /\ SumFunctionOnSet(d, t) # SumFunctionOnSet(e, t)
  BY FS_Subset
<1>4. t # {}
  BY <1>3, SumEmpty
<1>5. Chosen(t) \in t
  BY <1>4, ChosenIsIn
<1>6. SumFunctionOnSet(d, t \ {Chosen(t)}) = SumFunctionOnSet(e, t \ {Chosen(t)})
  BY <1>2, <1>3, <1>5
<1>7. SumFunctionOnSet(d, t) = d[Chosen(t)] + SumFunctionOnSet(d, t \ {Chosen(t)})
  BY <1>3, <1>4, SumChosen
<1>8. SumFunctionOnSet(e, t) = e[Chosen(t)] + SumFunctionOnSet(e, t \ {Chosen(t)})
  BY <1>3, <1>4, SumChosen
<1> QED BY <1>3, <1>5, <1>6, <1>7, <1>8

\* Any element may be the last that is added.
LEMMA SumLast ==
  ASSUME NEW d, NEW S, IsFiniteSet(S), \A x \in S : d[x] \in Int, NEW e \in S
  PROVE  SumFunctionOnSet(d, S) = d[e] + SumFunctionOnSet(d, S \ {e})
<1> DEFINE Last(t) == \A x \in t : SumFunctionOnSet(d, t) = d[x] + SumFunctionOnSet(d, t \ {x})
<1> SUFFICES ASSUME ~Last(S) PROVE FALSE
  OBVIOUS
<1> DEFINE F == {t \in SUBSET S : ~Last(t)}
<1>1. S \in F /\ F \subseteq SUBSET S
  OBVIOUS
<1> HIDE DEF Last, F
<1>2. PICK t \in F : \A u \in F : u \subseteq t => u = t
  BY <1>1, LeastSubset
<1> USE DEF F
<1>3. t \in SUBSET S /\ IsFiniteSet(t) /\ ~Last(t)
  BY FS_Subset
<1>4. PICK x \in t : SumFunctionOnSet(d, t) # d[x] + SumFunctionOnSet(d, t \ {x})
  BY <1>3 DEF Last
<1> DEFINE c == Chosen(t)
<1>5. c \in t
  BY <1>4, ChosenIsIn
<1> HIDE DEF c
<1>6. SumFunctionOnSet(d, t) = d[c] + SumFunctionOnSet(d, t \ {c})
  BY <1>3, <1>4, SumChosen DEF c
<1>7. x # c
  BY <1>4, <1>6
<1>8. Last(t \ {c}) /\ Last(t \ {x})
  BY <1>2, <1>3, <1>4, <1>5
<1>9. SumFunctionOnSet(d, t \ {c}) = d[x] + SumFunctionOnSet(d, (t \ {c}) \ {x})
  BY <1>4, <1>7, <1>8 DEF Last
<1>10. SumFunctionOnSet(d, t \ {x}) = d[c] + SumFunctionOnSet(d, (t \ {x}) \ {c})
  BY <1>5, <1>7, <1>8 DEF Last
<1>11. (t \ {x}) \ {c} = (t \ {c}) \ {x}
  OBVIOUS
<1> HIDE DEF F
<1>12. SumFunctionOnSet(d, (t \ {c}) \ {x}) \in Int
  <2>1. IsFiniteSet((t \ {c}) \ {x})
    BY <1>3, FS_RemoveElement
  <2> QED BY <1>3, <2>1, SumInt
<1>13. d[c] \in Int /\ d[x] \in Int
  BY <1>3, <1>4, <1>5
<1> DEFINE rest == SumFunctionOnSet(d, (t \ {c}) \ {x})
           all == SumFunctionOnSet(d, t)
           but == SumFunctionOnSet(d, t \ {x})
<1>14. rest \in Int /\ all = d[c] + (d[x] + rest) /\ but = d[c] + rest /\ all # d[x] + but
  BY <1>4, <1>6, <1>9, <1>10, <1>11, <1>12
<1> HIDE DEF rest, all, but
<1> QED BY <1>13, <1>14

\* When the value of one element changes, and whether it counts, the sum changes by
\* what it adds less what it added.
LEMMA SumMoved ==
  ASSUME NEW I, IsFiniteSet(I), NEW d \in [I -> Int], NEW e \in [I -> Int],
         NEW S \in SUBSET I, NEW T \in SUBSET I, NEW r \in I,
         S \ {r} = T \ {r}, \A x \in I \ {r} : d[x] = e[x]
  PROVE  /\ SumFunctionOnSet(d, S) \in Int /\ SumFunctionOnSet(e, T) \in Int
         /\ SumFunctionOnSet(e, T) = SumFunctionOnSet(d, S)
              + (IF r \in T THEN e[r] ELSE 0) - (IF r \in S THEN d[r] ELSE 0)
<1>1. IsFiniteSet(S) /\ IsFiniteSet(T) /\ IsFiniteSet(S \ {r})
  BY FS_Subset
<1>2. /\ \A x \in S : d[x] \in Int
      /\ \A x \in T : e[x] \in Int
      /\ \A x \in S \ {r} : d[x] \in Int /\ d[x] = e[x]
      /\ d[r] \in Int /\ e[r] \in Int
  OBVIOUS
<1> DEFINE rest == SumFunctionOnSet(d, S \ {r})
           before == SumFunctionOnSet(d, S)
           after == SumFunctionOnSet(e, T)
<1>3. before \in Int /\ after \in Int /\ rest \in Int
  BY <1>1, <1>2, SumInt
<1>4. before = IF r \in S THEN d[r] + rest ELSE rest
  <2>1. r \in S => before = d[r] + rest
    BY <1>1, <1>2, SumLast
  <2>2. r \notin S => S \ {r} = S
    OBVIOUS
  <2> QED BY <2>1, <2>2
<1>5. after = IF r \in T THEN e[r] + rest ELSE rest
  <2>1. SumFunctionOnSet(e, S \ {r}) = rest
    BY <1>1, <1>2, SumSame
  <2>2. r \in T => after = e[r] + SumFunctionOnSet(e, T \ {r})
    BY <1>1, <1>2, SumLast
  <2>3. r \notin T => T \ {r} = T
    OBVIOUS
  <2> HIDE DEF rest
  <2>4. r \in T => after = e[r] + rest
    BY <2>1, <2>2
  <2>5. r \notin T => after = rest
    BY <2>1, <2>3
  <2> QED BY <2>4, <2>5
<1> HIDE DEF rest, before, after
<1>6. after = before + (IF r \in T THEN e[r] ELSE 0) - (IF r \in S THEN d[r] ELSE 0)
  BY <1>2, <1>3, <1>4, <1>5
<1> QED BY <1>3, <1>6 DEF before, after

------------------------------------------------------------------------------
\* The fields of a request.
LEMMA AskFields ==
  ASSUME NEW ask \in Requests
  PROVE  /\ ask.op \in {"stock", "order", "update", "return", "coupon"} /\ ask.user \in Users
         /\ ask.op \in {"stock", "order"} => ask.product \in Products
         /\ ask.op = "order" => ask.quantity \in Int
         /\ ask.op \in {"update", "return"} => ask.order \in Nat
         /\ ask.op = "update" => /\ ask.quantity \in Int \cup {Keep}
                                 /\ ask.status \in Statuses \cup {"bogus", Keep}
         /\ ask.op = "coupon" => /\ ask.code \in STRING
                                 /\ ask.amount \in Int \cup {NotANumber}
  BY ShopAssumption DEF Request

\* The columns of an order.
LEMMA OrderFields ==
  ASSUME NEW row \in Order
  PROVE  /\ row.user \in Users /\ row.product \in Products
         /\ row.quantity \in Int /\ row.status \in Statuses
         /\ row # NoOrder
  BY ShopAssumption DEF Order

\* The parts of what a handler holds.
LEMMA HandlingFields ==
  ASSUME TypeOK, NEW r \in Ids
  PROVE  /\ req[r] \in Handling /\ req[r].ask \in Requests \cup {NoRequest}
         /\ req[r].pc \in {"idle"} \cup Busy \cup Over
         /\ req[r].credit \in Int /\ req[r].delta \in Int
         /\ req[r].row \in Order \cup {NoOrder} /\ req[r].before \in SUBSET Ids
  BY DEF TypeOK, Handling

------------------------------------------------------------------------------
\* A statement of the handler of r, and the arrival of r: nobody else's changes.
Moves(r) ==
  /\ req[r].pc \in Busy /\ req'[r].pc \in Busy \cup Over
  /\ req'[r].ask = req[r].ask /\ req'[r].before = req[r].before
  /\ \A s \in Ids \ {r} : req'[s] = req[s]
Arrives(r) ==
  /\ req[r].pc = "idle" /\ req'[r].ask \in Requests
  /\ req'[r].pc \in {req'[r].ask.op, "refused"} /\ req'[r].before = {s \in Ids : req[s].pc \in Over}
  /\ \A s \in Ids \ {r} : req'[s] = req[s]

\* What was asked stays, and who is over stays as it is.
LEMMA HistoryKept ==
  ASSUME TypeOK, NEW r \in Ids, Moves(r) \/ Arrives(r), NEW s \in Ids
  PROVE  /\ req[s].pc # "idle" => /\ req'[s].pc # "idle" /\ req'[s].ask = req[s].ask
                                  /\ req'[s].before = req[s].before
         /\ req[s].pc \in Over => req'[s] = req[s]
  BY DEF Moves, Arrives, Busy, Over

\* Nobody came after a handler that is not over.
LEMMA NotYetBefore ==
  ASSUME TypeOK, InCourse, NEW r \in Ids, Moves(r), NEW s \in Ids
  PROVE  ~Precedes(r, s) /\ ~Precedes(r, s)'
<1>1. ~Precedes(r, s)
  BY DEF InCourse, Precedes, Moves, Busy, Over
<1>2. req'[s].before = req[s].before
  BY DEF Moves
<1> QED BY <1>1, <1>2 DEF Precedes

\* Where a handler goes next, its request leads.
LEMMA CourseKept ==
  ASSUME TypeOK, InCourse, NEW r \in Ids, Moves(r),
         req'[r].pc \in Busy => <<req[r].ask.op, req'[r].pc>> \in Course
  PROVE  InCourse'
<1>1. ASSUME NEW s \in Ids PROVE req'[s].pc # "idle" => req'[s].ask \in Requests
  BY DEF InCourse, Ask, Moves, Busy, Over
<1>2. ASSUME NEW s \in Ids, req'[s].pc \in Busy PROVE <<req'[s].ask.op, req'[s].pc>> \in Course
  BY <1>2 DEF InCourse, Ask, Moves
<1>3. ASSUME NEW s \in Ids, NEW q \in req'[s].before PROVE req'[q].pc \in Over
  <2>1. req'[s].before = req[s].before
    BY DEF Moves
  <2>2. req[q].pc \in Over /\ q \in Ids
    BY <1>3, <2>1, HandlingFields DEF InCourse
  <2> QED BY <2>2, HistoryKept
<1> QED BY <1>1, <1>2, <1>3 DEF InCourse, Ask

\* A claim that goes on has its row, and one that begins found none.
LEMMA ClaimedKept ==
  ASSUME TypeOK, InCourse, Claimed, NEW r \in Ids, Moves(r), applied \subseteq applied',
         req[r].ask.op = "coupon" =>
           /\ req'[r].pc \in {"amount", "charge", "answered"} =>
                /\ <<req[r].ask.user, req[r].ask.code>> \in applied'
                /\ req[r].pc \in {"claim", "amount", "charge"}
           /\ req'[r].pc = "claim" => <<req[r].ask.user, req[r].ask.code>> \notin applied
  PROVE  Claimed'
<1>1. ASSUME NEW s \in Ids, req'[s].pc \in {"amount", "charge", "answered"},
             req'[s].ask.op = "coupon"
      PROVE  <<req'[s].ask.user, req'[s].ask.code>> \in applied'
  <2>1. CASE s = r
    BY <1>1, <2>1 DEF Moves
  <2>2. CASE s # r
    BY <1>1, <2>2 DEF Moves, Claimed, User, Ask
  <2> QED BY <2>1, <2>2
<1>2. ASSUME NEW q \in Ids, NEW s \in Ids, Answered(q, "coupon")', Precedes(q, s)',
             req'[s].pc \in {"claim", "amount", "charge", "answered"}, req'[s].ask.op = "coupon"
      PROVE  <<req'[q].ask.user, req'[q].ask.code>> # <<req'[s].ask.user, req'[s].ask.code>>
  <2>1. q # r
    BY <1>2, NotYetBefore
  <2>2. req'[q] = req[q] /\ Answered(q, "coupon")
    BY <1>2, <2>1 DEF Moves, Answered, Ask
  <2>3. Precedes(q, s) /\ req'[s].ask = req[s].ask
    BY <1>2 DEF Moves, Precedes
  <2>4. CASE req[s].pc \in {"claim", "amount", "charge", "answered"}
    BY <1>2, <2>2, <2>3, <2>4 DEF Claimed, User, Ask
  <2>5. CASE req[s].pc \notin {"claim", "amount", "charge", "answered"}
    <3>1. s = r /\ req'[r].pc = "claim"
      BY <1>2, <2>3, <2>5 DEF Moves
    <3>2. <<req[q].ask.user, req[q].ask.code>> \in applied
      BY <2>2 DEF Claimed, Answered, User, Ask
    <3> QED BY <1>2, <2>2, <2>3, <3>1, <3>2
  <2> QED BY <2>4, <2>5
<1> QED BY <1>1, <1>2 DEF Claimed, User, Ask

\* A row that is held stays the user's own: orders keep their owners.
LEMMA RowKept ==
  ASSUME TypeOK, RowHeld, NEW r \in Ids, Moves(r),
         Len(orders') \in Nat, Len(orders) <= Len(orders'),
         \A o \in 1..Len(orders) : orders'[o].user = orders[o].user,
         Holding(r)' => OwnRow(r)'
  PROVE  RowHeld'
<1> SUFFICES ASSUME NEW s \in Ids, Holding(s)', s # r PROVE OwnRow(s)'
  BY DEF RowHeld
<1>1. req'[s] = req[s]
  BY DEF Moves
<1>2. OwnRow(s)
  BY <1>1 DEF RowHeld, Holding, Answered, Ask
<1>3. 1..Len(orders) \subseteq 1..Len(orders')
  BY DEF TypeOK
<1> QED BY <1>1, <1>2, <1>3 DEF OwnRow, Ask, User

\* What was asked of an order stays asked, and who is counted as a mover stays one.
LEMMA MoverKept ==
  ASSUME TypeOK, NEW r \in Ids, Moves(r) \/ Arrives(r), NEW x \in Ids, NEW q \in Ids,
         req[q].pc # "idle", Mover(x, q)
  PROVE  /\ Mover(x, q)'
         /\ \A s \in Ids : ~Precedes(s, x) => ~Precedes(s, x)'
<1>1. req[x].pc # "idle"
  BY DEF Mover, MovesStatus, Asked
<1>2. /\ req'[x].pc # "idle" /\ req'[x].ask = req[x].ask /\ req'[x].before = req[x].before
      /\ req'[q].pc # "idle" /\ req'[q].ask = req[q].ask /\ req'[q].before = req[q].before
  BY <1>1, HistoryKept
<1> QED BY <1>1, <1>2 DEF Mover, MovesStatus, Asked, Ask, Precedes

\* Steps that move no status and answer neither a return nor an update.
LEMMA ReturnsKept ==
  ASSUME TypeOK, InCourse, RowHeld, ReturnSticks, NEW r \in Ids, Moves(r),
         \A o \in 1..Len(orders) : orders'[o].status = orders[o].status,
         req[r].ask.op = "return" => req'[r].pc # "answered"
  PROVE  ReturnSticks'
<1> SUFFICES ASSUME NEW q \in Ids, Answered(q, "return")',
                    \A x \in Ids : Asked(x, "update")' /\ Ask(x)'.order = Ask(q)'.order
                                     => Precedes(x, q)'
             PROVE  orders'[Ask(q)'.order].status = "return pending"
  BY DEF ReturnSticks
<1>1. q # r
  BY DEF Answered, Ask, Moves
<1>2. req'[q] = req[q] /\ Answered(q, "return")
  BY <1>1 DEF Moves, Answered, Ask
<1>3. Ask(q).order \in 1..Len(orders)
  BY <1>2 DEF RowHeld, Holding, OwnRow
<1>4. ASSUME NEW x \in Ids, Asked(x, "update"), Ask(x).order = Ask(q).order PROVE Precedes(x, q)
  <2>1. req'[x].pc # "idle" /\ req'[x].ask = req[x].ask
    BY <1>4, HistoryKept DEF Asked
  <2>2. Precedes(x, q)'
    BY <1>2, <1>4, <2>1 DEF Asked, Ask
  <2> QED BY <1>2, <2>2 DEF Precedes
<1>5. orders[Ask(q).order].status = "return pending"
  BY <1>2, <1>4 DEF ReturnSticks
<1> QED BY <1>2, <1>3, <1>5 DEF Ask

\* A statement that refunds only what nobody had refunded keeps the refunds.
LEMMA RefundsKept ==
  ASSUME TypeOK, InCourse, RowHeld, RefundKept, NEW r \in Ids, Moves(r),
         \A o \in 1..Len(orders) : orders'[o].status = orders[o].status,
         req[r].ask.op = "update" => req'[r].pc # "answered",
         Refunds(r)' => \/ Refunds(r)
                        \/ Ask(r).order \in 1..Len(orders)
                           /\ orders[Ask(r).order].status # "returned"
  PROVE  RefundKept'
<1>1. ASSUME NEW q \in Ids, Refunded(q)'
      PROVE  /\ Refunded(q) /\ req'[q] = req[q] /\ req[q].pc # "idle" /\ q # r
             /\ Ask(q).order \in 1..Len(orders)
  <2>1. q # r
    BY <1>1 DEF Refunded, Answered, Ask, Moves
  <2>2. req'[q] = req[q]
    BY <2>1 DEF Moves
  <2>3. Refunded(q)
    BY <1>1, <2>2 DEF Refunded, Answered, Ask
  <2> QED BY <2>1, <2>2, <2>3 DEF Refunded, Answered, RowHeld, Holding, OwnRow
<1>2. ASSUME NEW q \in Ids, Refunded(q)'
      PROVE  orders'[Ask(q)'.order].status = "returned" \/ \E x \in Ids : Mover(x, q)'
  <2>1. orders[Ask(q).order].status = "returned" \/ \E x \in Ids : Mover(x, q)
    BY <1>1, <1>2 DEF RefundKept
  <2>2. (\E x \in Ids : Mover(x, q)) => \E x \in Ids : Mover(x, q)'
    BY <1>1, <1>2, MoverKept
  <2>3. orders'[Ask(q)'.order].status = orders[Ask(q).order].status
    BY <1>1, <1>2 DEF Ask
  <2> QED BY <2>1, <2>2, <2>3
<1>3. ASSUME NEW q \in Ids, NEW s \in Ids, Refunded(q)', Precedes(q, s)', Refunds(s)',
             Ask(s)'.order = Ask(q)'.order
      PROVE  \E x \in Ids : Mover(x, q)' /\ ~Precedes(s, x)'
  <2>1. Refunded(q) /\ req'[q] = req[q] /\ req[q].pc # "idle" /\ Ask(q).order \in 1..Len(orders)
    BY <1>1, <1>3
  <2>2. Precedes(q, s) /\ Ask(s)' = Ask(s) /\ Ask(s).order = Ask(q).order
    BY <1>3, <2>1 DEF Moves, Precedes, Ask
  <2>3. \E x \in Ids : Mover(x, q) /\ ~Precedes(s, x)
    <3>1. CASE Refunds(s)
      BY <2>1, <2>2, <3>1 DEF RefundKept
    <3>2. CASE ~Refunds(s)
      <4>1. s = r
        BY <1>3, <3>2 DEF Moves, Refunds, Holding, Answered, Ask
      <4>2. orders[Ask(q).order].status # "returned"
        BY <1>3, <2>2, <3>2, <4>1
      <4>3. \E x \in Ids : Mover(x, q)
        BY <2>1, <4>2 DEF RefundKept
      <4> QED BY <4>1, <4>3, NotYetBefore
    <3> QED BY <3>1, <3>2
  <2> QED BY <2>1, <2>3, MoverKept
<1> QED BY <1>2, <1>3 DEF RefundKept

\* What nobody asks cannot have been asked before.
LEMMA PositiveKept ==
  ASSUME TypeOK, NEW r \in Ids, Moves(r) \/ Arrives(r), AllPositive'
  PROVE  AllPositive
<1>1. ASSUME NEW s \in Ids, req[s].pc # "idle" PROVE Positive(Ask(s))
  <2>1. req'[s].pc # "idle" /\ req'[s].ask = req[s].ask
    BY <1>1, HistoryKept
  <2> QED BY <2>1 DEF AllPositive, Ask, Positive
<1> QED BY <1>1 DEF AllPositive

\* Orders and what is held of them are of products there are.
LEMMA StockKept ==
  ASSUME TypeOK, Stock, NEW r \in Ids, Moves(r), shelf \subseteq shelf',
         \A o \in 1..Len(orders') : orders'[o].product \in shelf,
         req'[r].pc = "create" => Ask(r).product \in shelf,
         Holding(r)' => req'[r].row.product \in shelf
  PROVE  Stock'
<1>1. ASSUME NEW s \in Ids
      PROVE  /\ req'[s].pc = "create" => Ask(s)'.product \in shelf
             /\ Holding(s)' => req'[s].row.product \in shelf
  <2>1. CASE s = r
    BY <2>1 DEF Moves, Ask
  <2>2. CASE s # r
    BY <2>2 DEF Moves, Stock, Ask, Holding, Answered
  <2> QED BY <2>1, <2>2
<1> QED BY <1>1 DEF Stock

\* The balances, when the step of r brings no negative amount.
LEMMA BalancesKept ==
  ASSUME TypeOK, Balances, CreditFloor, NEW r \in Ids, Moves(r),
         AllPositive =>
           /\ \A p \in shelf' : Price[p] >= 0
           /\ \A o \in 1..Len(orders') : orders'[o].quantity >= 0
           /\ \A u \in Users : NotBelow(credit'[u])
           /\ Holding(r)' => req'[r].row.quantity >= 0
           /\ req'[r].pc \in {"create", "charge", "refund"} =>
                NotBelow(req'[r].credit + req'[r].delta)
  PROVE  Balances' /\ CreditFloor'
<1> SUFFICES ASSUME AllPositive' PROVE Balances' /\ CreditFloor'
  BY DEF Balances, CreditFloor
<1>1. AllPositive
  BY PositiveKept
<1>2. ASSUME NEW s \in Ids
      PROVE  /\ Holding(s)' => req'[s].row.quantity >= 0
             /\ req'[s].pc \in {"create", "charge", "refund"} =>
                  NotBelow(req'[s].credit + req'[s].delta)
  <2>1. CASE s = r
    BY <1>1, <2>1
  <2>2. CASE s # r
    BY <1>1, <2>2 DEF Moves, Balances, Holding, Answered, Ask
  <2> QED BY <2>1, <2>2
<1>3. \A b : NotBelow(b)' = NotBelow(b)
  BY DEF NotBelow, Lows
<1>4. ASSUME NEW s \in Ids
      PROVE  req'[s].pc \in {"create", "charge", "refund"} =>
                  NotBelow(req[s].credit + req[s].delta)'
  BY <1>2 DEF NotBelow, Lows
<1>5. Balances'
  BY <1>1, <1>2, <1>4 DEF Balances
<1>6. CreditFloor'
  BY <1>1 DEF CreditFloor, NotBelow, Lows
<1> QED BY <1>5, <1>6

\* What the handler of r has added to the credit so far.
Share(r) == IF req[r].pc \in {"store", "answered"} THEN req[r].delta ELSE 0
Held == {"create", "charge", "refund"}

\* Requests that are in order were so before one of them goes on, or a new one comes.
LEMMA OrderlyBefore ==
  ASSUME TypeOK, NEW r \in Ids, Moves(r) \/ Arrives(r), NEW u, Orderly(u)'
  PROVE  Orderly(u)
<1> SUFFICES ASSUME NEW q \in Of(u)
             PROVE  /\ req[q].pc # "failed"
                    /\ \A s \in Of(u) : q = s \/ Precedes(q, s) \/ Precedes(s, q)
  BY DEF Orderly
<1>1. ASSUME NEW s \in Of(u) PROVE s \in Of(u)' /\ s \in Ids /\ req'[s].before = req[s].before
  BY HistoryKept DEF Of, User, Ask
<1>2. req[q].pc # "failed"
  <2>1. req[q].pc = "failed" => req'[q].pc = "failed"
    BY <1>1, HistoryKept DEF Over
  <2> QED BY <1>1, <2>1 DEF Orderly
<1>3. ASSUME NEW s \in Of(u) PROVE q = s \/ Precedes(q, s) \/ Precedes(s, q)
  <2>1. q = s \/ Precedes(q, s)' \/ Precedes(s, q)'
    BY <1>1, <1>3 DEF Orderly
  <2> QED BY <1>1, <1>3, <2>1 DEF Precedes
<1> QED BY <1>2, <1>3

\* What is credited to a user changes by the share of the handler that takes a step.
LEMMA CreditedMoved ==
  ASSUME TypeOK, TypeOK', NEW r \in Ids, Moves(r) \/ Arrives(r), NEW u
  PROVE  /\ Credited(Paid(u)) \in Int /\ Credited(Paid(u))' \in Int
         /\ User(r)' # u => Credited(Paid(u))' = Credited(Paid(u))
         /\ User(r)' = u => Credited(Paid(u))' = Credited(Paid(u)) + Share(r)' - Share(r)
<1> DEFINE d == [s \in Ids |-> req[s].delta]
           e == [s \in Ids |-> req'[s].delta]
           S == Paid(u)
           T == Paid(u)'
<1>1. IsFiniteSet(Ids)
  BY FS_Interval, ShopAssumption DEF Ids
<1>2. \A s \in Ids : req[s].delta \in Int /\ req'[s].delta \in Int
  BY DEF TypeOK, Handling
<1>3. \A s \in Ids \ {r} : req'[s] = req[s]
  BY DEF Moves, Arrives
<1>4. S \in SUBSET Ids /\ T \in SUBSET Ids
  BY DEF Paid, Of
<1>5. S \ {r} = T \ {r}
  <2>1. ASSUME NEW s \in Ids \ {r} PROVE s \in S <=> s \in T
    BY <1>3 DEF Paid, Of, User, Ask
  <2> QED BY <1>4, <2>1
<1>6. r \in T <=> User(r)' = u /\ req'[r].pc \in {"store", "answered"}
  BY DEF Paid, Of
<1>7. r \in S <=> User(r)' = u /\ req[r].pc \in {"store", "answered"}
  <2>1. Moves(r) => User(r)' = User(r)
    BY DEF Moves, User, Ask
  <2>2. Arrives(r) => req[r].pc = "idle"
    BY DEF Arrives
  <2> QED BY <2>1, <2>2 DEF Paid, Of
<1>8. /\ d \in [Ids -> Int] /\ e \in [Ids -> Int] /\ d[r] = req[r].delta /\ e[r] = req'[r].delta
      /\ \A s \in Ids \ {r} : d[s] = e[s]
  BY <1>2, <1>3
<1>9. Credited(S) = SumFunctionOnSet(d, S) /\ Credited(Paid(u))' = SumFunctionOnSet(e, T)
  BY DEF Credited
<1> HIDE DEF d, e, S, T
<1>10. /\ Credited(S) \in Int /\ Credited(Paid(u))' \in Int
       /\ Credited(Paid(u))' = Credited(S)
            + (IF r \in T THEN e[r] ELSE 0) - (IF r \in S THEN d[r] ELSE 0)
  BY <1>1, <1>4, <1>5, <1>8, <1>9, SumMoved
<1>11. User(r)' # u => Credited(Paid(u))' = Credited(S)
  BY <1>6, <1>7, <1>10
<1>12. User(r)' = u => /\ Share(r)' = IF r \in T THEN e[r] ELSE 0
                       /\ Share(r) = IF r \in S THEN d[r] ELSE 0
  BY <1>6, <1>7, <1>8 DEF Share
<1> QED BY <1>10, <1>11, <1>12 DEF S

\* A step of r accounts for the credit when nobody else's changes, and its own, while
\* its user's requests are in order, by its share; and what it holds is the credit.
Pays(r) ==
  /\ Asked(r, "stock")' \/ Asked(r, "return")' => req'[r].delta = 0
  /\ \A u \in Users : User(r)' # u => credit'[u] = credit[u]
  /\ \A u \in Users : User(r)' = u /\ Orderly(u)' =>
       /\ credit'[u] = credit[u] + Share(r)' - Share(r)
       /\ req'[r].pc \in Held => req'[r].credit = credit'[u]

\* Such a step keeps the accounts.
LEMMA AccountsKept ==
  ASSUME TypeOK, TypeOK', InCourse, Accounts, NEW r \in Ids,
         Moves(r) \/ (Arrives(r) /\ credit' = credit), Pays(r)
  PROVE  Accounts'
<1>1. ASSUME NEW s \in Ids, Asked(s, "stock")' \/ Asked(s, "return")' PROVE req'[s].delta = 0
  <2>1. CASE s = r
    BY <1>1, <2>1 DEF Pays
  <2>2. CASE s # r
    BY <1>1, <2>2 DEF Moves, Arrives, Accounts, Asked, Ask
  <2> QED BY <2>1, <2>2
<1>2. ASSUME NEW u \in Users, Orderly(u)'
      PROVE  /\ credit'[u] = Opening[u] + Credited(Paid(u))'
             /\ \A s \in Of(u)' : req'[s].pc \in Held => req'[s].credit = credit'[u]
  <2>1. Orderly(u)
    BY <1>2, OrderlyBefore
  <2>2. /\ credit[u] = Opening[u] + Credited(Paid(u)) /\ credit[u] \in Int /\ Opening[u] \in Int
        /\ \A s \in Of(u) : req[s].pc \in Held => req[s].credit = credit[u]
    BY <2>1, ShopAssumption DEF Accounts, TypeOK, Held
  <2>3. /\ Credited(Paid(u)) \in Int /\ Credited(Paid(u))' \in Int
        /\ User(r)' # u => Credited(Paid(u))' = Credited(Paid(u))
        /\ User(r)' = u => Credited(Paid(u))' = Credited(Paid(u)) + Share(r)' - Share(r)
    BY CreditedMoved
  <2>4. Share(r) \in Int /\ Share(r)' \in Int
    BY DEF Share, TypeOK, Handling
  <2>5. ASSUME NEW s \in Of(u)', s # r PROVE s \in Of(u) /\ s \in Ids /\ req'[s] = req[s]
    BY <2>5 DEF Moves, Arrives, Of, User, Ask
  <2>6. CASE User(r)' # u
    <3>1. credit'[u] = credit[u] /\ Credited(Paid(u))' = Credited(Paid(u)) /\ r \notin Of(u)'
      BY <2>3, <2>6 DEF Pays, Of
    <3> QED BY <2>2, <2>5, <3>1
  <2>7. CASE User(r)' = u
    <3>1. /\ credit'[u] = credit[u] + Share(r)' - Share(r)
          /\ req'[r].pc \in Held => req'[r].credit = credit'[u]
      BY <1>2, <2>7 DEF Pays
    <3>2. credit'[u] = Opening[u] + Credited(Paid(u))'
      BY <2>2, <2>3, <2>4, <2>7, <3>1
    <3>3. ASSUME NEW s \in Of(u)', s # r, req'[s].pc \in Held PROVE req'[s].credit = credit'[u]
      <4>1. s \in Of(u) /\ s \in Ids /\ req'[s] = req[s] /\ req[s].credit = credit[u]
        BY <2>2, <2>5, <3>3
      <4>2. ~Moves(r)
        <5> SUFFICES ASSUME Moves(r) PROVE FALSE
          OBVIOUS
        <5>1. r \in Of(u)
          BY <2>7 DEF Moves, Of, User, Ask, Busy
        <5>2. Precedes(s, r)
          BY <2>1, <3>3, <4>1, <5>1, NotYetBefore DEF Orderly
        <5> QED BY <4>1, <3>3, <5>2 DEF InCourse, Precedes, Held, Over
      <4> QED BY <4>1, <4>2
    <3> QED BY <3>1, <3>2, <3>3
  <2> QED BY <2>6, <2>7
<1> QED BY <1>1, <1>2 DEF Accounts, Held

\* Which request a handler serves, by the place it is at.
LEMMA CourseAt ==
  ASSUME InCourse, NEW r \in Ids, req[r].pc \in Busy
  PROVE  /\ Ask(r) \in Requests
         /\ req[r].pc = "stock" => Ask(r).op = "stock"
         /\ req[r].pc \in {"order", "create"} => Ask(r).op = "order"
         /\ req[r].pc \in {"update", "details", "refund"} => Ask(r).op = "update"
         /\ req[r].pc = "return" => Ask(r).op = "return"
         /\ req[r].pc \in {"coupon", "claim", "amount"} => Ask(r).op = "coupon"
         /\ req[r].pc = "charge" => Ask(r).op \in {"order", "coupon"}
         /\ req[r].pc = "store" => Ask(r).op \in {"update", "return"}
<1>1. Ask(r) \in Requests /\ <<Ask(r).op, req[r].pc>> \in Course
  BY DEF InCourse, Busy
<1> QED BY <1>1 DEF Course

\* Going on changes the place of the handler alone.
LEMMA GoMoves ==
  ASSUME TypeOK, NEW r \in Ids, req[r].pc \in Busy, NEW p \in Busy \cup Over, Go(r, p)
  PROVE  /\ Moves(r) /\ req' \in [Ids -> Handling]
         /\ req'[r].pc = p /\ req'[r].ask = req[r].ask /\ req'[r].row = req[r].row
         /\ req'[r].credit = req[r].credit /\ req'[r].delta = req[r].delta
<1>1. req[r] \in Handling /\ req \in [Ids -> Handling]
  BY DEF TypeOK
<1>2. req'[r] = [req[r] EXCEPT !.pc = p] /\ \A s \in Ids \ {r} : req'[s] = req[s]
  BY <1>1 DEF Go
<1>3. /\ req'[r].pc = p /\ req'[r].ask = req[r].ask /\ req'[r].row = req[r].row
      /\ req'[r].credit = req[r].credit /\ req'[r].delta = req[r].delta
      /\ req'[r].before = req[r].before
  BY <1>1, <1>2 DEF Handling
<1>4. req'[r] \in Handling
  BY <1>1, <1>2 DEF Handling
<1>5. req' \in [Ids -> Handling]
  BY <1>1, <1>4 DEF Go
<1> QED BY <1>2, <1>3, <1>5 DEF Moves

------------------------------------------------------------------------------
\* What holds whatever a code that was run as SQL did to the tables: a handler is
\* where its request leads, and what it will save is a row.
Typed == TypeOK /\ InCourse /\ RowTyped

\* A handler that goes on keeps that, if what it holds is of the right kind.
LEMMA TypedMoves ==
  ASSUME Typed, NEW r \in Ids, Moves(r), TypeOK',
         req'[r].pc \in Busy => <<req[r].ask.op, req'[r].pc>> \in Course,
         req'[r].pc \in {"details", "refund", "store"} => req'[r].row \in Order,
         req'[r].pc = "details" => req[r].ask.status # "bogus"
  PROVE  Typed'
<1>1. InCourse'
  BY CourseKept DEF Typed
<1>2. ASSUME NEW s \in Ids
      PROVE  /\ req'[s].pc \in {"details", "refund", "store"} => req'[s].row \in Order
             /\ req'[s].pc = "details" => req'[s].ask.status # "bogus"
  <2>1. CASE s = r
    BY <2>1 DEF Moves
  <2>2. CASE s # r
    BY <2>2 DEF Typed, RowTyped, Moves, Ask
  <2> QED BY <2>1, <2>2
<1> QED BY <1>1, <1>2 DEF Typed, RowTyped, Ask

\* So it does when it changes nothing but its place.
LEMMA TypedGo ==
  ASSUME Typed, NEW r \in Ids, req[r].pc \in Busy, NEW p \in Busy \cup Over, Go(r, p),
         p \in Busy => <<req[r].ask.op, p>> \in Course, p # "details",
         p \in {"refund", "store"} => req[r].row \in Order,
         credit' \in [Users -> Int], shelf' \subseteq Products, orders' \in Seq(Order),
         applied' \subseteq Users \X STRING, tampered' \in BOOLEAN
  PROVE  Typed'
<1>1. TypeOK
  BY DEF Typed
<1>2. /\ Moves(r) /\ req' \in [Ids -> Handling] /\ req'[r].pc = p /\ req'[r].row = req[r].row
  BY <1>1, GoMoves
<1>3. TypeOK'
  BY <1>2 DEF TypeOK
<1> QED BY <1>2, <1>3, TypedMoves

\* And when it takes another object in hand.
LEMMA TypedTakes ==
  ASSUME Typed, NEW r \in Ids, req[r].pc \in Busy, NEW p \in Busy, NEW c \in Int, NEW d \in Int,
         NEW row \in Order \cup {NoOrder},
         req'[r] = [ask |-> req[r].ask, pc |-> p, credit |-> c, delta |-> d, row |-> row,
                    before |-> req[r].before],
         req' = [req EXCEPT ![r] = req'[r]],
         <<req[r].ask.op, p>> \in Course, p = "details" => req[r].ask.status # "bogus",
         p \in {"details", "refund", "store"} => row \in Order,
         UNCHANGED <<credit, shelf, orders, applied, tampered>>
  PROVE  Typed'
<1>1. TypeOK /\ req[r] \in Handling /\ req \in [Ids -> Handling]
  BY DEF Typed, TypeOK
<1>2. /\ req'[r].ask = req[r].ask /\ req'[r].pc = p /\ req'[r].row = row
      /\ req'[r].before = req[r].before
  OBVIOUS
<1>3. \A s \in Ids \ {r} : req'[s] = req[s]
  BY <1>1
<1>4. req'[r] \in Handling
  BY <1>1 DEF Handling
<1>5. TypeOK'
  BY <1>1, <1>4 DEF TypeOK
<1>6. Moves(r)
  BY <1>2, <1>3 DEF Moves
<1> QED BY <1>2, <1>5, <1>6, TypedMoves

\* Every request arrives with nothing in hand.
LEMMA TypedArrives ==
  ASSUME Typed, NEW r \in Ids, Arrive(r)
  PROVE  Typed'
<1>1. PICK ask \in Requests, valid \in BOOLEAN :
        req' = [req EXCEPT ![r] = [Idle EXCEPT
                  !.ask = ask, !.pc = IF valid THEN ask.op ELSE "refused",
                  !.before = {s \in Ids : req[s].pc \in Over}]]
  BY DEF Arrive
<1>2. req[r].pc = "idle" /\ UNCHANGED <<credit, shelf, orders, applied, tampered>>
  BY DEF Arrive, At
<1>3. TypeOK /\ req \in [Ids -> Handling]
      /\ ask.op \in {"stock", "order", "update", "return", "coupon"}
  BY AskFields DEF Typed, TypeOK
<1>4. req'[r] = [ask |-> ask, pc |-> IF valid THEN ask.op ELSE "refused", credit |-> 0,
                 delta |-> 0, row |-> NoOrder, before |-> {s \in Ids : req[s].pc \in Over}]
      /\ \A s \in Ids \ {r} : req'[s] = req[s]
  BY <1>1, <1>3 DEF Idle
<1>5. /\ req'[r].ask = ask /\ req'[r].pc \in {ask.op, "refused"}
      /\ req'[r].before = {s \in Ids : req[s].pc \in Over}
  BY <1>4
<1>6. req'[r] \in Handling
  BY <1>3, <1>4 DEF Handling, Busy, Over
<1>7. Arrives(r)
  BY <1>2, <1>4, <1>5 DEF Arrives
<1>8. TypeOK'
  BY <1>1, <1>2, <1>3, <1>6 DEF TypeOK
<1>9. ASSUME NEW s \in Ids
      PROVE  /\ req'[s].pc # "idle" => req'[s].ask \in Requests
             /\ req'[s].pc \in Busy => <<req'[s].ask.op, req'[s].pc>> \in Course
             /\ req'[s].pc \in {"details", "refund", "store"} => req'[s].row \in Order
             /\ req'[s].pc = "details" => req'[s].ask.status # "bogus"
  <2>1. CASE s = r
    BY <1>3, <1>5, <2>1 DEF Course, Busy
  <2>2. CASE s # r
    BY <1>4, <2>2 DEF Typed, InCourse, RowTyped, Ask
  <2> QED BY <2>1, <2>2
<1>10. ASSUME NEW s \in Ids, NEW q \in req'[s].before PROVE req'[q].pc \in Over
  <2>1. q \in Ids /\ req[q].pc \in Over
    BY <1>3, <1>4, <1>5, <1>10, HandlingFields DEF Typed, InCourse
  <2> QED BY <1>3, <1>7, <2>1, HistoryKept
<1> QED BY <1>8, <1>9, <1>10 DEF Typed, InCourse, RowTyped, Ask

\* The statements that read, of OrderControlView, ReturnOrder and ApplyCouponView.
LEMMA TypedReads ==
  ASSUME Typed, NEW r \in Ids,
         ReadBalance(r) \/ UpdateOrder(r) \/ ReadDetails(r) \/ ReturnOrder(r) \/ ReadAmount(r)
  PROVE  Typed'
<1>1. /\ req[r].pc \in Busy /\ UNCHANGED <<credit, shelf, orders, applied, tampered>>
  BY DEF ReadBalance, UpdateOrder, ReadDetails, ReturnOrder, ReadAmount, At, Busy
<1>2. /\ Ask(r) \in Requests /\ TypeOK /\ InCourse /\ RowTyped
      /\ credit \in [Users -> Int] /\ shelf \subseteq Products /\ orders \in Seq(Order)
      /\ applied \subseteq Users \X STRING /\ tampered \in BOOLEAN
  BY <1>1, CourseAt DEF Typed, TypeOK
<1>3. /\ req[r] \in Handling /\ req \in [Ids -> Handling]
      /\ req[r] = [ask |-> req[r].ask, pc |-> req[r].pc, credit |-> req[r].credit,
                   delta |-> req[r].delta, row |-> req[r].row, before |-> req[r].before]
      /\ req[r].credit \in Int /\ req[r].delta \in Int /\ req[r].row \in Order \cup {NoOrder}
  BY <1>2 DEF TypeOK, Handling
<1>4. CASE Go(r, "failed") \/ Go(r, "refused")
  BY <1>1, <1>2, <1>4, TypedGo DEF Busy, Over
<1>5. Row(r) \in Order \cup {NoOrder}
  BY <1>2 DEF Row
<1>6. CASE ReadBalance(r) /\ ~(Go(r, "failed") \/ Go(r, "refused"))
  <2> DEFINE c == credit[Ask(r).user]
             d == -(Price[Ask(r).product] * Ask(r).quantity)
  <2>1. Ask(r).op = "order"
    BY <1>1, <1>2, <1>6, CourseAt DEF ReadBalance, At
  <2>2. c \in Int /\ d \in Int
    BY <1>2, <2>1, AskFields, ShopAssumption
  <2>3. req' = [req EXCEPT ![r].pc = "create", ![r].credit = c, ![r].delta = d]
    BY <1>6 DEF ReadBalance
  <2> HIDE DEF c, d
  <2>4. req'[r] = [ask |-> req[r].ask, pc |-> "create", credit |-> c, delta |-> d,
                   row |-> req[r].row, before |-> req[r].before]
        /\ req' = [req EXCEPT ![r] = req'[r]]
    BY <1>3, <2>3 DEF Handling
  <2>5. <<req[r].ask.op, "create">> \in Course /\ "create" \in Busy
    BY <2>1 DEF Course, Ask, Busy
  <2> QED BY <1>1, <1>3, <2>2, <2>4, <2>5, TypedTakes
<1>7. CASE UpdateOrder(r) /\ ~(Go(r, "failed") \/ Go(r, "refused"))
  <2> DEFINE new == [Row(r) EXCEPT !.quantity = IF Ask(r).quantity = Keep THEN @ ELSE Ask(r).quantity]
  <2>1. Ask(r).op = "update"
    BY <1>1, <1>2, <1>7, CourseAt DEF UpdateOrder, At
  <2>2. /\ Row(r) # NoOrder /\ Ask(r).status # "bogus"
        /\ req' = [req EXCEPT ![r].pc = "details", ![r].row = new]
    BY <1>7 DEF UpdateOrder
  <2>3. Ask(r).quantity \in Int \cup {Keep}
    BY <1>2, <2>1, AskFields
  <2>4. new \in Order
    BY <1>5, <2>2, <2>3 DEF Order
  <2> HIDE DEF new
  <2>5. req'[r] = [ask |-> req[r].ask, pc |-> "details", credit |-> req[r].credit,
                   delta |-> req[r].delta, row |-> new, before |-> req[r].before]
        /\ req' = [req EXCEPT ![r] = req'[r]]
    BY <1>3, <2>2 DEF Handling
  <2>6. <<req[r].ask.op, "details">> \in Course /\ "details" \in Busy /\ req[r].ask.status # "bogus"
    BY <2>1, <2>2 DEF Course, Ask, Busy
  <2> QED BY <1>1, <1>3, <2>4, <2>5, <2>6, TypedTakes
<1>8. CASE ReadDetails(r)
  <2> DEFINE row == req[r].row
             status == IF Ask(r).status = Keep THEN row.status ELSE Ask(r).status
             returned == status = "returned" /\ row.status # "returned"
             p == IF returned THEN "refund" ELSE "store"
             c == credit[row.user]
             d == IF returned THEN row.quantity * Price[row.product] ELSE 0
             new == [row EXCEPT !.status = status]
  <2>1. req[r].pc = "details" /\ Ask(r).op = "update" /\ row \in Order /\ Ask(r).status # "bogus"
    BY <1>1, <1>2, <1>8, CourseAt DEF ReadDetails, At, RowTyped
  <2>2. status \in Statuses
    BY <1>2, <2>1, AskFields, OrderFields
  <2>3. c \in Int /\ d \in Int
    BY <1>2, <2>1, OrderFields, ShopAssumption
  <2>4. p \in {"refund", "store"}
    OBVIOUS
  <2>5. req' = [req EXCEPT ![r].pc = p, ![r].credit = c, ![r].row.status = status, ![r].delta = d]
    BY <1>8 DEF ReadDetails
  <2>6. new \in Order
    <3> HIDE DEF status
    <3> QED BY <2>1, <2>2 DEF Order
  <2> HIDE DEF status, p, c, d, row
  <2>7. req'[r] = [ask |-> req[r].ask, pc |-> p, credit |-> c, delta |-> d, row |-> new,
                   before |-> req[r].before]
        /\ req' = [req EXCEPT ![r] = req'[r]]
    BY <1>3, <2>5 DEF Handling, row
  <2> HIDE DEF new
  <2>8. <<req[r].ask.op, p>> \in Course /\ p \in Busy /\ p # "details"
    BY <2>1, <2>4 DEF Course, Ask, Busy
  <2> QED BY <1>1, <1>3, <2>3, <2>6, <2>7, <2>8, TypedTakes
<1>9. CASE ReturnOrder(r) /\ ~(Go(r, "failed") \/ Go(r, "refused"))
  <2> DEFINE new == [Row(r) EXCEPT !.status = "return pending"]
  <2>1. Ask(r).op = "return"
    BY <1>1, <1>2, <1>9, CourseAt DEF ReturnOrder, At
  <2>2. Row(r) # NoOrder /\ req' = [req EXCEPT ![r].pc = "store", ![r].row = new]
    BY <1>9 DEF ReturnOrder
  <2>3. new \in Order
    BY <1>5, <2>2 DEF Order, Statuses
  <2> HIDE DEF new
  <2>4. req'[r] = [ask |-> req[r].ask, pc |-> "store", credit |-> req[r].credit,
                   delta |-> req[r].delta, row |-> new, before |-> req[r].before]
        /\ req' = [req EXCEPT ![r] = req'[r]]
    BY <1>3, <2>2 DEF Handling
  <2>5. <<req[r].ask.op, "store">> \in Course /\ "store" \in Busy
    BY <2>1 DEF Course, Ask, Busy
  <2> QED BY <1>1, <1>3, <2>3, <2>4, <2>5, TypedTakes
<1>10. CASE ReadAmount(r) /\ ~(Go(r, "failed") \/ Go(r, "refused"))
  <2> DEFINE c == credit[User(r)]
             d == Ask(r).amount
  <2>1. Ask(r).op = "coupon"
    BY <1>1, <1>2, <1>10, CourseAt DEF ReadAmount, At
  <2>2. d # NotANumber /\ req' = [req EXCEPT ![r].pc = "charge", ![r].credit = c, ![r].delta = d]
    BY <1>10 DEF ReadAmount
  <2>3. c \in Int /\ d \in Int
    BY <1>2, <2>1, <2>2, AskFields DEF User
  <2> HIDE DEF c, d
  <2>4. req'[r] = [ask |-> req[r].ask, pc |-> "charge", credit |-> c, delta |-> d,
                   row |-> req[r].row, before |-> req[r].before]
        /\ req' = [req EXCEPT ![r] = req'[r]]
    BY <1>3, <2>2 DEF Handling
  <2>5. <<req[r].ask.op, "charge">> \in Course /\ "charge" \in Busy
    BY <2>1 DEF Course, Ask, Busy
  <2> QED BY <1>1, <1>3, <2>3, <2>4, <2>5, TypedTakes
<1> QED BY <1>4, <1>6, <1>7, <1>8, <1>9, <1>10

\* The statements that write.
LEMMA TypedWrites ==
  ASSUME Typed, NEW r \in Ids,
         \/ AddProduct(r) \/ CreateOrder(r) \/ SaveDetails(r) \/ SaveOrder(r) \/ ClaimCoupon(r)
  PROVE  Typed'
<1>1. req[r].pc \in Busy
  BY DEF AddProduct, CreateOrder, SaveDetails, SaveOrder, ClaimCoupon, At, Busy
<1>2. /\ Ask(r) \in Requests /\ TypeOK /\ InCourse /\ RowTyped
      /\ Ask(r).user \in Users
      /\ credit \in [Users -> Int] /\ shelf \subseteq Products /\ orders \in Seq(Order)
      /\ applied \subseteq Users \X STRING /\ tampered \in BOOLEAN
      /\ req[r].credit \in Int /\ req[r].delta \in Int
  BY <1>1, CourseAt, AskFields, HandlingFields DEF Typed, TypeOK
<1>3. CASE AddProduct(r)
  <2>1. Ask(r).product \in Products
    BY <1>1, <1>2, <1>3, CourseAt, AskFields DEF AddProduct, At
  <2>2. shelf' \subseteq Products /\ Go(r, "answered") /\ UNCHANGED <<credit, orders, applied, tampered>>
    BY <1>2, <1>3, <2>1 DEF AddProduct
  <2> QED BY <1>1, <1>2, <2>2, TypedGo DEF Busy, Over
<1>4. CASE CreateOrder(r)
  <2> DEFINE new == [user |-> User(r), product |-> Ask(r).product, quantity |-> Ask(r).quantity,
                     status |-> "delivered"]
  <2>1. Ask(r).op = "order"
    BY <1>1, <1>2, <1>4, CourseAt DEF CreateOrder, At
  <2>2. new \in Order
    BY <1>2, <2>1, AskFields DEF Order, Statuses, User
  <2>3. orders' = Append(orders, new) /\ Go(r, "charge")
        /\ UNCHANGED <<credit, shelf, applied, tampered>>
    BY <1>4 DEF CreateOrder
  <2> HIDE DEF new
  <2>4. orders' \in Seq(Order)
    BY <1>2, <2>2, <2>3
  <2>5. <<req[r].ask.op, "charge">> \in Course /\ "charge" \in Busy
    BY <2>1 DEF Course, Ask, Busy
  <2> QED BY <1>1, <1>2, <2>3, <2>4, <2>5, TypedGo
<1>5. CASE SaveDetails(r)
  <2> DEFINE p == IF Ask(r).op = "update" THEN "store" ELSE "answered"
             new == req[r].credit + req[r].delta
  <2>1. new \in Int
    BY <1>2
  <2>2. req[r].pc \in {"charge", "refund"} /\ (req[r].pc = "charge" => Ask(r).op # "update")
    BY <1>1, <1>2, <1>5, CourseAt DEF SaveDetails, At
  <2>3. credit' = [credit EXCEPT ![User(r)] = new] /\ Go(r, p)
        /\ UNCHANGED <<shelf, orders, applied, tampered>>
    BY <1>5 DEF SaveDetails
  <2>4. p \in Busy \cup Over /\ p # "details" /\ (p \in Busy => <<req[r].ask.op, p>> \in Course)
        /\ (p \in {"refund", "store"} => req[r].row \in Order)
    BY <1>2, <2>2 DEF Busy, Over, Course, Ask, RowTyped
  <2> HIDE DEF new, p
  <2>5. credit' \in [Users -> Int]
    BY <1>2, <2>1, <2>3
  <2> QED BY <1>1, <1>2, <2>3, <2>4, <2>5, TypedGo
<1>6. CASE SaveOrder(r)
  <2>1. req[r].row \in Order /\ Go(r, "answered") /\ UNCHANGED <<credit, shelf, applied, tampered>>
        /\ orders' = [orders EXCEPT ![Ask(r).order] = req[r].row]
    BY <1>2, <1>6 DEF SaveOrder, At, RowTyped
  <2>2. orders' \in Seq(Order)
    <3>1. orders \in [1..Len(orders) -> Order] /\ Len(orders) \in Nat
      BY <1>2
    <3>2. orders' \in [1..Len(orders) -> Order]
      BY <2>1, <3>1
    <3> QED BY <3>1, <3>2
  <2> QED BY <1>1, <1>2, <2>1, <2>2, TypedGo DEF Busy, Over
<1>7. CASE ClaimCoupon(r)
  <2>1. Ask(r).op = "coupon"
    BY <1>1, <1>2, <1>7, CourseAt DEF ClaimCoupon, At
  <2>2. <<User(r), Ask(r).code>> \in Users \X STRING
    BY <1>2, <2>1, AskFields DEF User
  <2>3. applied' \subseteq Users \X STRING /\ Go(r, "amount")
        /\ UNCHANGED <<credit, shelf, orders, tampered>>
    BY <1>2, <1>7, <2>2 DEF ClaimCoupon
  <2>4. <<req[r].ask.op, "amount">> \in Course /\ "amount" \in Busy
    BY <2>1 DEF Course, Ask, Busy
  <2> QED BY <1>1, <1>2, <2>3, <2>4, TypedGo
<1> QED BY <1>3, <1>4, <1>5, <1>6, <1>7

\* The lookup of a coupon, whatever is run with it, and a handler that breaks off.
LEMMA TypedLooks ==
  ASSUME Typed, NEW r \in Ids, ApplyCoupon(r) \/ ApplyCrafted(r) \/ Fail(r)
  PROVE  Typed'
<1>1. req[r].pc \in Busy /\ TypeOK /\ InCourse
  BY DEF ApplyCoupon, ApplyCrafted, Fail, At, Busy, Typed
<1>2. /\ credit' \in [Users -> Int] /\ shelf' \subseteq Products /\ orders' \in Seq(Order)
      /\ applied' \subseteq Users \X STRING /\ tampered' \in BOOLEAN
  <2>1. CASE UNCHANGED <<credit, shelf, orders, applied>>
    BY <1>1, <2>1 DEF TypeOK, ApplyCoupon, ApplyCrafted, Fail
  <2>2. CASE \E tables \in Rewritten : /\ credit' = tables.credit /\ shelf' = tables.shelf
                                       /\ orders' = tables.orders /\ applied' = tables.applied
    <3>1. PICK tables \in Tables : /\ credit' = tables.credit /\ shelf' = tables.shelf
                                   /\ orders' = tables.orders /\ applied' = tables.applied
      BY <2>2, ShopAssumption
    <3>2. tampered' \in BOOLEAN
      BY <1>1 DEF TypeOK, ApplyCoupon, ApplyCrafted, Fail
    <3> QED BY <3>1, <3>2 DEF Tables
  <2> QED BY <2>1, <2>2 DEF ApplyCoupon, ApplyCrafted, Fail
<1>3. CASE Go(r, "failed") \/ Go(r, "refused")
  BY <1>1, <1>2, <1>3, TypedGo DEF Busy, Over
<1>4. CASE Go(r, "claim") /\ (ApplyCoupon(r) \/ ApplyCrafted(r))
  <2>1. Ask(r).op = "coupon"
    BY <1>1, <1>4, CourseAt DEF ApplyCoupon, ApplyCrafted, At
  <2>2. <<req[r].ask.op, "claim">> \in Course /\ "claim" \in Busy
    BY <2>1 DEF Course, Ask, Busy
  <2> QED BY <1>1, <1>2, <1>4, <2>2, TypedGo
<1> QED BY <1>3, <1>4 DEF ApplyCoupon, ApplyCrafted, Fail

\* So every step keeps it.
LEMMA TypedStep ==
  ASSUME Typed, [Next]_vars
  PROVE  Typed'
<1>1. CASE Next
  BY <1>1, TypedArrives, TypedReads, TypedWrites, TypedLooks DEF Next
<1>2. CASE UNCHANGED vars
  <2>1. TypeOK' /\ InCourse' /\ RowTyped'
    BY <1>2 DEF vars, Typed, TypeOK, InCourse, RowTyped, Ask
  <2> QED BY <2>1 DEF Typed
<1> QED BY <1>1, <1>2

------------------------------------------------------------------------------
\* What holds while no code was run as SQL.
Kept ==
  /\ TypeOK /\ CouponOnce /\ RefundOnce /\ ReturnSticks /\ CreditFloor
  /\ InCourse /\ RowHeld /\ Claimed /\ RefundKept /\ Stock /\ Balances /\ Accounts

\* A statement that saves no details adds nothing, and the handler still holds, or now
\* reads, the credit there is.
LEMMA PaysNothing ==
  ASSUME Kept, NEW r \in Ids, Moves(r), UNCHANGED credit, Share(r)' = Share(r),
         Ask(r).op \in {"stock", "return"} => req'[r].delta = req[r].delta,
         req'[r].pc \in Held => \/ req'[r].credit = credit[User(r)]
                               \/ /\ req[r].pc \in Held
                                  /\ req'[r].credit = req[r].credit
  PROVE  Pays(r)
<1>1. Asked(r, "stock")' \/ Asked(r, "return")' => req'[r].delta = 0
  BY DEF Kept, Accounts, Asked, Ask, Moves, Busy
<1>2. ASSUME NEW u \in Users, User(r)' = u, Orderly(u)'
      PROVE  /\ credit'[u] = credit[u] + Share(r)' - Share(r)
             /\ req'[r].pc \in Held => req'[r].credit = credit'[u]
  <2>1. User(r) = u /\ Orderly(u) /\ r \in Of(u)
    BY <1>2, OrderlyBefore DEF Kept, Moves, User, Ask, Of, Busy
  <2>2. Share(r) \in Int /\ credit[u] \in Int
    BY DEF Share, Kept, TypeOK, Handling
  <2>3. req[r].pc \in Held => req[r].credit = credit[u]
    BY <2>1 DEF Kept, Accounts, Held
  <2>4. req'[r].pc \in Held => req'[r].credit = credit'[u]
    BY <2>1, <2>3
  <2> QED BY <2>2, <2>4
<1> QED BY <1>1, <1>2 DEF Pays

------------------------------------------------------------------------------
\* What a statement of the handler of r owes the invariant, if it is not order.save:
\* the tables keep their rows,
RowsStay ==
  /\ shelf \subseteq shelf' /\ applied \subseteq applied'
  /\ Len(orders) <= Len(orders') /\ \A o \in 1..Len(orders) : orders'[o] = orders[o]
  /\ \A o \in 1..Len(orders') : orders'[o].product \in shelf
\* the handler goes where its request leads, and an order is of a product there is,
GoesOn(r) ==
  /\ req'[r].pc \in Busy => <<req[r].ask.op, req'[r].pc>> \in Course
  /\ req[r].ask.op \in {"return", "update"} => req'[r].pc # "answered"
  /\ req'[r].pc = "create" => Ask(r).product \in shelf
\* a claim has its row and found none before,
Claims(r) ==
  req[r].ask.op = "coupon" =>
    /\ req'[r].pc \in {"amount", "charge", "answered"} =>
         /\ <<req[r].ask.user, req[r].ask.code>> \in applied'
         /\ req[r].pc \in {"claim", "amount", "charge"}
    /\ req'[r].pc = "claim" => <<req[r].ask.user, req[r].ask.code>> \notin applied
\* a row that is held is the user's own, and a refund is of a row that was not
\* returned,
Holds(r) ==
  /\ Holding(r)' => OwnRow(r)' /\ req'[r].row.product \in shelf
  /\ Refunds(r)' => \/ Refunds(r)
                    \/ Ask(r).order \in 1..Len(orders) /\ orders[Ask(r).order].status # "returned"
\* and nothing goes below the floor.
NoLower(r) ==
  AllPositive =>
    /\ \A p \in shelf' : Price[p] >= 0
    /\ \A o \in 1..Len(orders') : orders'[o].quantity >= 0
    /\ \A u \in Users : NotBelow(credit'[u])
    /\ Holding(r)' => req'[r].row.quantity >= 0
    /\ req'[r].pc \in {"create", "charge", "refund"} => NotBelow(req'[r].credit + req'[r].delta)

\* With these, it keeps the invariant.
LEMMA Statement ==
  ASSUME Kept, NEW r \in Ids, Moves(r), TypeOK', RowsStay, GoesOn(r), Claims(r), Holds(r), NoLower(r),
         Pays(r)
  PROVE  Kept'
<1> USE DEF Kept
<1>0. Len(orders) \in Nat /\ Len(orders') \in Nat
  BY DEF TypeOK
<1>1. InCourse'
  BY CourseKept DEF GoesOn
<1>2. Claimed'
  BY ClaimedKept DEF Claims, RowsStay
<1>3. RowHeld'
  BY <1>0, RowKept DEF Holds, RowsStay
<1>4. RefundKept'
  BY RefundsKept DEF GoesOn, Holds, RowsStay
<1>5. ReturnSticks'
  BY ReturnsKept DEF GoesOn, RowsStay
<1>6. Stock'
  BY StockKept DEF GoesOn, Holds, RowsStay
<1>7. Balances' /\ CreditFloor'
  BY BalancesKept DEF NoLower
<1>8. CouponOnce'
  BY <1>2 DEF Claimed, CouponOnce, Answered
<1>9. RefundOnce'
  BY <1>4 DEF RefundKept, RefundOnce, Refunds, Mover, Refunded, Holding, Answered
<1>10. Accounts'
  BY AccountsKept
<1> QED BY <1>1, <1>2, <1>3, <1>4, <1>5, <1>6, <1>7, <1>8, <1>9, <1>10

\* Tables that do not change keep what they have.
LEMMA SameTables ==
  ASSUME Kept, UNCHANGED <<credit, shelf, orders, applied>>
  PROVE  /\ RowsStay
         /\ AllPositive => /\ \A p \in shelf' : Price[p] >= 0
                           /\ \A o \in 1..Len(orders') : orders'[o].quantity >= 0
                           /\ \A u \in Users : NotBelow(credit'[u])
<1>1. Len(orders) \in Nat /\ \A o \in 1..Len(orders) : orders[o].product \in shelf
  BY DEF Kept, TypeOK, Stock
<1>2. RowsStay
  BY <1>1 DEF RowsStay
<1>3. AllPositive => /\ \A p \in shelf : Price[p] >= 0
                     /\ \A o \in 1..Len(orders) : orders[o].quantity >= 0
                     /\ \A u \in Users : NotBelow(credit[u])
  BY DEF Kept, Balances, CreditFloor
<1> QED BY <1>2, <1>3

\* The end of a handler that fails or refuses: nothing is claimed of it.
LEMMA GivesUp ==
  ASSUME Kept, NEW r \in Ids, req[r].pc \in Busy, NEW p \in {"refused", "failed"}, Go(r, p),
         p = "refused" => req[r].pc # "store", UNCHANGED <<credit, shelf, orders, applied, tampered>>
  PROVE  Kept'
<1>1. /\ Moves(r) /\ req' \in [Ids -> Handling] /\ req'[r].pc = p
  BY GoMoves DEF Kept, Over
<1>2. TypeOK'
  BY <1>1 DEF Kept, TypeOK
<1>3. ~Holding(r)' /\ ~Refunds(r)'
  BY <1>1 DEF Refunds, Holding, Answered
<1>4. GoesOn(r) /\ Claims(r) /\ Holds(r)
  BY <1>1, <1>3 DEF GoesOn, Claims, Holds, Busy
<1>5. RowsStay /\ NoLower(r)
  BY <1>1, <1>3, SameTables DEF NoLower
<1>6. Pays(r)
  <2>1. req'[r].ask = req[r].ask /\ req'[r].delta = req[r].delta
    BY GoMoves DEF Kept, Over
  <2>2. CASE p = "failed"
    <3>1. \A u : User(r)' = u => ~Orderly(u)'
      BY <1>1, <2>2 DEF Orderly, Of
    <3>2. Asked(r, "stock")' \/ Asked(r, "return")' => req'[r].delta = 0
      BY <2>1 DEF Kept, Accounts, Asked, Ask, Busy
    <3> QED BY <3>1, <3>2 DEF Pays
  <2>3. CASE p = "refused" /\ req[r].pc # "store"
    <3>1. Share(r)' = Share(r)
      BY <1>1, <2>3 DEF Share, Busy
    <3> QED BY <1>1, <2>1, <2>3, <3>1, PaysNothing DEF Held
  <2> QED BY <2>2, <2>3
<1> QED BY <1>1, <1>2, <1>4, <1>5, <1>6, Statement

\* Which request a handler serves, by the place it is at.
LEMMA OpAt ==
  ASSUME Kept, NEW r \in Ids, req[r].pc \in Busy
  PROVE  /\ Ask(r) \in Requests
         /\ req[r].pc = "stock" => Ask(r).op = "stock"
         /\ req[r].pc \in {"order", "create"} => Ask(r).op = "order"
         /\ req[r].pc \in {"update", "details", "refund"} => Ask(r).op = "update"
         /\ req[r].pc = "return" => Ask(r).op = "return"
         /\ req[r].pc \in {"coupon", "claim", "amount"} => Ask(r).op = "coupon"
         /\ req[r].pc = "charge" => Ask(r).op \in {"order", "coupon"}
         /\ req[r].pc = "store" => Ask(r).op \in {"update", "return"}
  BY CourseAt DEF Kept

\* ProductView.post
LEMMA StockStep ==
  ASSUME Kept, NEW r \in Ids, AddProduct(r)
  PROVE  Kept'
<1>1. req[r].pc = "stock" /\ req[r].pc \in Busy
  BY DEF AddProduct, At, Busy
<1>2. /\ Ask(r) \in Requests /\ Ask(r).op = "stock" /\ Ask(r).product \in Products
  BY <1>1, OpAt, AskFields
<1>3. Moves(r) /\ req' \in [Ids -> Handling] /\ req'[r].pc = "answered" /\ req'[r].ask = req[r].ask
  BY <1>1, GoMoves DEF AddProduct, Kept, Over
<1>4. shelf' = shelf \cup {Ask(r).product} /\ credit' = credit /\ orders' = orders
      /\ applied' = applied /\ tampered' = tampered
  BY DEF AddProduct
<1>5. TypeOK'
  BY <1>2, <1>3, <1>4 DEF Kept, TypeOK
<1>6. ~Holding(r)' /\ ~Refunds(r)'
  BY <1>2, <1>3 DEF Refunds, Holding, Answered, Ask
<1>7. GoesOn(r) /\ Claims(r) /\ Holds(r)
  BY <1>2, <1>3, <1>6 DEF GoesOn, Claims, Holds, Busy, Ask
<1>8. RowsStay
  BY <1>4 DEF RowsStay, Kept, TypeOK, Stock
<1>9. AllPositive => Price[Ask(r).product] >= 0
  BY <1>1, <1>2 DEF AllPositive, Positive
<1>10. NoLower(r)
  BY <1>3, <1>4, <1>6, <1>9 DEF NoLower, Kept, Balances, CreditFloor
<1>11. Pays(r)
  <2>1. req'[r].delta = req[r].delta
    BY <1>1, GoMoves DEF AddProduct, Kept, Over
  <2>2. req[r].delta = 0
    BY <1>1, <1>2 DEF Kept, Accounts, Asked
  <2> QED BY <1>1, <1>3, <1>4, <2>1, <2>2, PaysNothing DEF Share, Held
<1> QED BY <1>3, <1>5, <1>7, <1>8, <1>10, <1>11, Statement

\* OrderControlView.post reads the balance; what it will store is not below the
\* price of one less the price of all.
LEMMA BalanceStep ==
  ASSUME Kept, NEW r \in Ids, ReadBalance(r)
  PROVE  Kept'
<1> DEFINE ask == Ask(r)
           price == Price[ask.product]
<1>1. req[r].pc = "order" /\ req[r].pc \in Busy /\ UNCHANGED <<credit, shelf, orders, applied, tampered>>
  BY DEF ReadBalance, At, Busy
<1>2. /\ ask \in Requests /\ ask.op = "order" /\ ask.product \in Products
      /\ ask.user \in Users /\ ask.quantity \in Int /\ price \in Int /\ credit[ask.user] \in Int
  BY <1>1, OpAt, AskFields, ShopAssumption DEF Kept, TypeOK
<1>3. CASE Go(r, "failed") \/ Go(r, "refused")
  BY <1>1, <1>3, GivesUp
<1>4. CASE /\ ask.product \in shelf /\ credit[ask.user] >= price
           /\ req' = [req EXCEPT ![r].pc = "create", ![r].credit = credit[ask.user],
                                 ![r].delta = -(price * ask.quantity)]
  <2>1. req[r] \in Handling /\ req \in [Ids -> Handling]
    BY DEF Kept, TypeOK
  <2>2. price * ask.quantity \in Int /\ -(price * ask.quantity) \in Int
        /\ price * (1 - ask.quantity) = price + (-(price * ask.quantity))
    BY <1>2
  <2> HIDE DEF ask, price
  <2>3. req'[r] = [req[r] EXCEPT !.pc = "create", !.credit = credit[ask.user],
                                 !.delta = -(price * ask.quantity)]
        /\ \A s \in Ids \ {r} : req'[s] = req[s]
    BY <1>4, <2>1
  <2>4. /\ req'[r].pc = "create" /\ req'[r].ask = req[r].ask /\ req'[r].row = req[r].row
        /\ req'[r].before = req[r].before /\ req'[r].credit = credit[ask.user]
        /\ req'[r].delta = -(price * ask.quantity)
    BY <2>1, <2>3 DEF Handling
  <2>5. req'[r] \in Handling
    BY <1>2, <2>1, <2>2, <2>3 DEF Handling, Busy
  <2>6. req' \in [Ids -> Handling]
    BY <1>4, <2>1, <2>5
  <2>7. Moves(r)
    BY <1>1, <2>3, <2>4 DEF Moves, Busy
  <2>8. TypeOK'
    BY <1>1, <2>6 DEF Kept, TypeOK
  <2>9. ~Holding(r)' /\ ~Refunds(r)'
    BY <2>4 DEF Refunds, Holding, Answered
  <2>10. GoesOn(r) /\ Claims(r) /\ Holds(r)
    BY <1>2, <1>4, <2>4, <2>9 DEF GoesOn, Claims, Holds, Course, ask, Ask
  <2>11. NotBelow(req'[r].credit + req'[r].delta)
    <3>1. price * (1 - ask.quantity) \in Lows
      BY <1>2 DEF Lows, ask, price
    <3>2. price * (1 - ask.quantity) <= credit[ask.user] + (-(price * ask.quantity))
      BY <1>2, <1>4, <2>2
    <3> QED BY <2>4, <3>1, <3>2 DEF NotBelow
  <2>12. RowsStay /\ NoLower(r)
    BY <1>1, <2>4, <2>9, <2>11, SameTables DEF NoLower
  <2>13. Pays(r)
    <3>1. Ask(r).op = "order" /\ req'[r].credit = credit[User(r)]
      BY <1>2, <2>4 DEF ask, User
    <3>2. Share(r)' = Share(r)
      BY <1>1, <2>4 DEF Share
    <3> QED BY <1>1, <2>7, <3>1, <3>2, PaysNothing
  <2> QED BY <2>7, <2>8, <2>10, <2>12, <2>13, Statement
<1> QED BY <1>2, <1>3, <1>4 DEF ReadBalance

\* Order.objects.create
LEMMA OrderStep ==
  ASSUME Kept, NEW r \in Ids, CreateOrder(r)
  PROVE  Kept'
<1> DEFINE new == [user |-> User(r), product |-> Ask(r).product, quantity |-> Ask(r).quantity,
                   status |-> "delivered"]
<1>1. req[r].pc = "create" /\ req[r].pc \in Busy
  BY DEF CreateOrder, At, Busy
<1>2. /\ Ask(r) \in Requests /\ Ask(r).op = "order" /\ Ask(r).product \in Products
      /\ User(r) \in Users /\ Ask(r).quantity \in Int
  BY <1>1, OpAt, AskFields DEF User
<1>3. new \in Order
  BY <1>2 DEF Order, Statuses
<1>4. /\ Moves(r) /\ req' \in [Ids -> Handling]
      /\ req'[r].pc = "charge" /\ req'[r].ask = req[r].ask
      /\ req'[r].credit = req[r].credit /\ req'[r].delta = req[r].delta
  BY <1>1, GoMoves DEF CreateOrder, Kept, Busy
<1>5. orders' = Append(orders, new) /\ UNCHANGED <<credit, shelf, applied, tampered>>
  BY DEF CreateOrder
<1>6. new.product = Ask(r).product /\ new.quantity = Ask(r).quantity
  OBVIOUS
<1> HIDE DEF new
<1>7. /\ orders \in Seq(Order) /\ Len(orders) \in Nat /\ orders' \in Seq(Order)
      /\ Len(orders') = Len(orders) + 1 /\ \A o \in 1..Len(orders) : orders'[o] = orders[o]
      /\ orders'[Len(orders) + 1] = new
  BY <1>3, <1>5 DEF Kept, TypeOK
<1>8. \A o \in 1..Len(orders') : o \in 1..Len(orders) \/ o = Len(orders) + 1
  BY <1>7
<1>9. TypeOK'
  BY <1>4, <1>5, <1>7 DEF Kept, TypeOK
<1>10. ~Holding(r)' /\ ~Refunds(r)'
  BY <1>4 DEF Refunds, Holding, Answered
<1>11. GoesOn(r) /\ Claims(r) /\ Holds(r)
  BY <1>2, <1>4, <1>10 DEF GoesOn, Claims, Holds, Course, Ask
<1>12. RowsStay
  <2>1. Ask(r).product \in shelf /\ \A o \in 1..Len(orders) : orders[o].product \in shelf
    BY <1>1 DEF Kept, Stock
  <2>2. \A o \in 1..Len(orders') : orders'[o].product \in shelf
    BY <1>6, <1>7, <1>8, <2>1
  <2> QED BY <1>5, <1>7, <2>2 DEF RowsStay
<1>13. NoLower(r)
  <2> SUFFICES ASSUME AllPositive PROVE NoLower(r)
    BY DEF NoLower
  <2>1. Ask(r).quantity >= 0
    BY <1>1, <1>2 DEF AllPositive, Positive
  <2>2. \A o \in 1..Len(orders') : orders'[o].quantity >= 0
    BY <1>6, <1>7, <1>8, <2>1 DEF Kept, Balances
  <2>3. NotBelow(req'[r].credit + req'[r].delta)
    BY <1>1, <1>4 DEF Kept, Balances
  <2> QED BY <1>5, <1>10, <2>2, <2>3 DEF NoLower, Kept, Balances, CreditFloor
<1>14. Pays(r)
  BY <1>1, <1>2, <1>4, <1>5, PaysNothing DEF Share, Held
<1> QED BY <1>4, <1>9, <1>11, <1>12, <1>13, <1>14, Statement

\* user_details.save() of an order, a coupon and a refund: what is stored is what was
\* held, which was not below the floor.
LEMMA DetailsStep ==
  ASSUME Kept, NEW r \in Ids, SaveDetails(r)
  PROVE  Kept'
<1> DEFINE p == IF Ask(r).op = "update" THEN "store" ELSE "answered"
           new == req[r].credit + req[r].delta
<1>1. req[r].pc \in {"charge", "refund"} /\ req[r].pc \in Busy
  BY DEF SaveDetails, At, Busy
<1>2. /\ Ask(r) \in Requests /\ User(r) \in Users
      /\ req[r].pc = "refund" <=> Ask(r).op = "update"
      /\ req[r].pc = "charge" => Ask(r).op \in {"order", "coupon"}
  BY <1>1, OpAt, AskFields DEF User
<1>3. req[r].credit \in Int /\ req[r].delta \in Int /\ new \in Int
  BY HandlingFields DEF Kept
<1>4. p \in Busy \cup Over /\ Go(r, p)
  BY DEF SaveDetails, Busy, Over
<1>5. /\ Moves(r) /\ req' \in [Ids -> Handling]
      /\ req'[r].pc = p /\ req'[r].ask = req[r].ask /\ req'[r].row = req[r].row
      /\ req'[r].delta = req[r].delta
  BY <1>1, <1>4, GoMoves DEF Kept
<1>6. credit' = [credit EXCEPT ![User(r)] = new] /\ UNCHANGED <<shelf, orders, applied, tampered>>
  BY DEF SaveDetails
<1> HIDE DEF new
<1>7. TypeOK'
  BY <1>2, <1>3, <1>5, <1>6 DEF Kept, TypeOK
<1>8. Holding(r)' => Holding(r) /\ req[r].pc = "refund" /\ Ask(r).op = "update"
  BY <1>1, <1>2, <1>5 DEF Holding, Answered, Ask
<1>9. GoesOn(r)
  BY <1>1, <1>2, <1>5 DEF GoesOn, Course, Ask, Busy
<1>10. Claims(r)
  BY <1>1, <1>2, <1>5, <1>6 DEF Claims, Kept, Claimed, User, Ask
<1>11. Holds(r)
  <2> SUFFICES ASSUME Holding(r)' PROVE Holds(r)
    BY DEF Holds, Refunds
  <2>1. OwnRow(r) /\ req[r].row.product \in shelf
    BY <1>8 DEF Kept, RowHeld, Stock
  <2>2. OwnRow(r)'
    BY <1>5, <1>6, <1>8, <2>1 DEF OwnRow, Ask, User
  <2>3. Refunds(r)' => Refunds(r)
    BY <1>5, <1>8 DEF Refunds, Ask
  <2> QED BY <1>5, <2>1, <2>2, <2>3 DEF Holds
<1>12. RowsStay
  BY <1>6 DEF RowsStay, Kept, TypeOK, Stock
<1>13. NoLower(r)
  <2> SUFFICES ASSUME AllPositive PROVE NoLower(r)
    BY DEF NoLower
  <2>1. NotBelow(new)
    BY <1>1 DEF Kept, Balances, new
  <2>2. \A u \in Users : NotBelow(credit'[u])
    BY <1>6, <2>1 DEF Kept, CreditFloor, TypeOK
  <2>3. Holding(r)' => req'[r].row.quantity >= 0
    BY <1>5, <1>8 DEF Kept, Balances
  <2>4. req'[r].pc \notin {"create", "charge", "refund"}
    BY <1>5
  <2> QED BY <1>6, <2>2, <2>3, <2>4 DEF NoLower, Kept, Balances
<1>14. Pays(r)
  <2>1. p \in {"store", "answered"} /\ Share(r) = 0 /\ Share(r)' = req[r].delta
    BY <1>1, <1>5 DEF Share
  <2>2. User(r)' = User(r) /\ Ask(r)' = Ask(r)
    BY <1>5 DEF User, Ask
  <2>3. \A u \in Users : credit'[u] = IF u = User(r) THEN new ELSE credit[u]
    BY <1>6 DEF Kept, TypeOK
  <2>4. ASSUME Orderly(User(r)) PROVE new = credit[User(r)] + req[r].delta
    <3>1. r \in Of(User(r))
      BY <1>1 DEF Of
    <3>2. req[r].credit = credit[User(r)]
      BY <1>1, <1>2, <2>4, <3>1 DEF Kept, Accounts
    <3> QED BY <3>2 DEF new
  <2>5. ASSUME NEW u \in Users, User(r)' = u, Orderly(u)'
        PROVE  credit'[u] = credit[u] + Share(r)' - Share(r)
    <3>1. Orderly(User(r)) /\ u = User(r)
      BY <1>5, <2>2, <2>5, OrderlyBefore DEF Kept
    <3>2. credit'[u] = credit[u] + req[r].delta /\ credit[u] \in Int
      BY <2>3, <2>4, <3>1 DEF Kept, TypeOK
    <3> QED BY <1>3, <2>1, <3>2
  <2>6. ~Asked(r, "stock")' /\ ~Asked(r, "return")' /\ req'[r].pc \notin Held
    BY <1>1, <1>2, <1>5, <2>1, <2>2 DEF Asked, Held
  <2> QED BY <2>2, <2>3, <2>5, <2>6 DEF Pays
<1> QED BY <1>5, <1>7, <1>9, <1>10, <1>11, <1>12, <1>13, <1>14, Statement

\* A row that is read is an order of the shop.
LEMMA RowRead ==
  ASSUME Kept, NEW r \in Ids, Row(r) # NoOrder
  PROVE  /\ Ask(r).order \in 1..Len(orders) /\ Row(r) = orders[Ask(r).order] /\ Row(r) \in Order
         /\ Row(r).product \in shelf /\ (AllPositive => Row(r).quantity >= 0)
<1>1. Ask(r).order \in 1..Len(orders) /\ Row(r) = orders[Ask(r).order]
  BY DEF Row
<1>2. orders \in Seq(Order)
  BY DEF Kept, TypeOK
<1> QED BY <1>1, <1>2 DEF Kept, Stock, Balances

\* OrderControlView.put: the order of the user, with the quantity that was asked
LEMMA UpdateStep ==
  ASSUME Kept, NEW r \in Ids, UpdateOrder(r)
  PROVE  Kept'
<1> DEFINE ask == Ask(r)
           new == [Row(r) EXCEPT !.quantity = IF ask.quantity = Keep THEN @ ELSE ask.quantity]
<1>1. req[r].pc = "update" /\ req[r].pc \in Busy /\ UNCHANGED <<credit, shelf, orders, applied, tampered>>
  BY DEF UpdateOrder, At, Busy
<1>2. ask \in Requests /\ ask.op = "update" /\ ask.quantity \in Int \cup {Keep}
  BY <1>1, OpAt, AskFields
<1>3. CASE Go(r, "failed") \/ Go(r, "refused")
  BY <1>1, <1>3, GivesUp
<1>4. CASE /\ Row(r) # NoOrder /\ Row(r).user = ask.user /\ ask.status # "bogus"
           /\ req' = [req EXCEPT ![r].pc = "details", ![r].row = new]
  <2>1. /\ req[r] \in Handling /\ req \in [Ids -> Handling]
        /\ ask.order \in 1..Len(orders) /\ Row(r) = orders[ask.order] /\ Row(r) \in Order
        /\ Row(r).product \in shelf /\ (AllPositive => Row(r).quantity >= 0)
    BY <1>4, RowRead DEF Kept, TypeOK
  <2>2. /\ new \in Order /\ new.user = Row(r).user /\ new.product = Row(r).product
        /\ new.status = Row(r).status /\ new.quantity \in {Row(r).quantity, ask.quantity}
        /\ new.quantity \in Int /\ (ask.quantity = Keep => new.quantity = Row(r).quantity)
    <3> HIDE DEF ask
    <3> QED BY <1>2, <2>1 DEF Order
  <2> HIDE DEF ask, new
  <2>3. req'[r] = [req[r] EXCEPT !.pc = "details", !.row = new]
        /\ \A s \in Ids \ {r} : req'[s] = req[s]
    BY <1>4, <2>1
  <2>4. /\ req'[r].pc = "details" /\ req'[r].ask = req[r].ask /\ req'[r].row = new
        /\ req'[r].before = req[r].before
    BY <2>1, <2>3 DEF Handling
  <2>5. req'[r] \in Handling
    BY <2>1, <2>2, <2>3 DEF Handling, Busy
  <2>6. req' \in [Ids -> Handling]
    BY <1>4, <2>1, <2>5
  <2>7. Moves(r)
    BY <1>1, <2>3, <2>4 DEF Moves, Busy
  <2>8. TypeOK'
    BY <1>1, <2>6 DEF Kept, TypeOK
  <2>9. GoesOn(r) /\ Claims(r)
    BY <1>2, <2>4 DEF GoesOn, Claims, Course, ask, Ask
  <2>10. OwnRow(r)'
    BY <1>1, <1>2, <1>4, <2>1, <2>2, <2>4 DEF OwnRow, ask, Ask, User
  <2>11. Refunds(r)' => orders[Ask(r).order].status # "returned"
    BY <2>1, <2>2, <2>4 DEF Refunds, ask
  <2>12. Holds(r)
    BY <2>1, <2>2, <2>4, <2>10, <2>11 DEF Holds, ask
  <2>13. AllPositive => new.quantity >= 0
    BY <1>1, <1>2, <2>1, <2>2 DEF AllPositive, Positive, ask
  <2>14. RowsStay /\ NoLower(r)
    BY <1>1, <2>4, <2>13, SameTables DEF NoLower
  <2>15. Pays(r)
    BY <1>1, <1>2, <2>4, <2>7, PaysNothing DEF Share, Held, ask
  <2> QED BY <2>7, <2>8, <2>9, <2>12, <2>14, <2>15, Statement
<1> QED BY <1>3, <1>4 DEF UpdateOrder

\* and the balance: a refund is of a row that was not returned and becomes it.
LEMMA RefundStep ==
  ASSUME Kept, NEW r \in Ids, ReadDetails(r)
  PROVE  Kept'
<1> DEFINE row == req[r].row
           status == IF Ask(r).status = Keep THEN row.status ELSE Ask(r).status
           returned == status = "returned" /\ row.status # "returned"
           worth == row.quantity * Price[row.product]
           new == [row EXCEPT !.status = status]
           delta == IF returned THEN worth ELSE 0
           p == IF returned THEN "refund" ELSE "store"
<1>1. req[r].pc = "details" /\ req[r].pc \in Busy /\ UNCHANGED <<credit, shelf, orders, applied, tampered>>
  BY DEF ReadDetails, At, Busy
<1>2. /\ Ask(r) \in Requests /\ Ask(r).op = "update"
      /\ Ask(r).status \in Statuses \cup {"bogus", Keep}
  BY <1>1, OpAt, AskFields
<1>3. Holding(r) /\ OwnRow(r) /\ row.product \in shelf
  BY <1>1 DEF Kept, RowHeld, Stock, Holding
<1>4. /\ row \in Order /\ row.user = User(r) /\ Ask(r).status # "bogus"
      /\ row.user \in Users /\ row.product \in Products /\ row.quantity \in Int
      /\ row.status \in Statuses /\ status \in Statuses
  BY <1>2, <1>3, OrderFields DEF OwnRow
<1>5. credit[row.user] \in Int /\ Price[row.product] \in Int /\ worth \in Int /\ delta \in Int
  <2>1. credit[row.user] \in Int /\ Price[row.product] \in Int
    BY <1>4, ShopAssumption DEF Kept, TypeOK
  <2>2. worth \in Int
    BY <1>4, <2>1
  <2> QED BY <2>1, <2>2
<1>6. Ask(r).status = "returned" => status = "returned"
  BY ShopAssumption DEF Statuses
<1>7. /\ new \in Order /\ new.user = row.user /\ new.product = row.product
      /\ new.quantity = row.quantity /\ new.status = status
  <2> HIDE DEF status
  <2> QED BY <1>4 DEF Order
<1>8. req' = [req EXCEPT ![r].pc = p, ![r].credit = credit[row.user], ![r].row.status = status,
                         ![r].delta = delta]
  BY DEF ReadDetails
<1>9. req[r] \in Handling /\ req \in [Ids -> Handling]
  BY DEF Kept, TypeOK
<1>10. delta # 0 => returned
  OBVIOUS
<1>11. p \in {"refund", "store"} /\ (p = "refund" => returned)
  OBVIOUS
<1>12. delta \in {worth, 0}
  OBVIOUS
<1> HIDE DEF p, delta
<1>13. req'[r] = [req[r] EXCEPT !.pc = p, !.credit = credit[row.user], !.row.status = status,
                                !.delta = delta]
       /\ \A s \in Ids \ {r} : req'[s] = req[s]
  <2> HIDE DEF status, row
  <2> QED BY <1>8, <1>9
<1>14. /\ req'[r].pc = p /\ req'[r].ask = req[r].ask /\ req'[r].row = new
       /\ req'[r].before = req[r].before /\ req'[r].credit = credit[row.user]
       /\ req'[r].delta = delta
  <2> HIDE DEF status
  <2> QED BY <1>9, <1>13 DEF Handling
<1> HIDE DEF status, new
<1>15. req' \in [Ids -> Handling]
  <2>1. req'[r] = [ask |-> req[r].ask, pc |-> p, credit |-> credit[row.user], delta |-> delta,
                   row |-> new, before |-> req[r].before]
    BY <1>9, <1>13, <1>14 DEF Handling
  <2>2. req'[r] \in Handling
    BY <1>5, <1>7, <1>9, <1>11, <2>1 DEF Handling, Busy
  <2> QED BY <1>8, <1>9, <2>2
<1>16. Moves(r)
  BY <1>1, <1>11, <1>13, <1>14 DEF Moves, Busy
<1>17. TypeOK'
  BY <1>1, <1>15 DEF Kept, TypeOK
<1>18. GoesOn(r) /\ Claims(r)
  BY <1>2, <1>11, <1>14 DEF GoesOn, Claims, Course, Ask
<1>19. OwnRow(r)'
  BY <1>1, <1>2, <1>3, <1>4, <1>6, <1>7, <1>10, <1>14 DEF OwnRow, Ask, User
<1>20. Refunds(r)' => Refunds(r)
  BY <1>1, <1>2, <1>3, <1>10, <1>11, <1>14 DEF Refunds
<1>21. Holds(r)
  BY <1>3, <1>7, <1>14, <1>19, <1>20 DEF Holds
<1>22. AllPositive => NotBelow(credit[row.user] + delta)
  <2> SUFFICES ASSUME AllPositive PROVE NotBelow(credit[row.user] + delta)
    OBVIOUS
  <2>1. row.quantity >= 0 /\ Price[row.product] >= 0
    BY <1>3 DEF Kept, Balances
  <2>2. worth >= 0
    BY <1>4, <1>5, <2>1
  <2>3. PICK low \in Lows : low <= credit[row.user]
    BY <1>4 DEF Kept, CreditFloor, NotBelow
  <2>4. low \in Int
    BY ShopAssumption, AskFields DEF Lows
  <2>5. low <= credit[row.user] + delta
    <3> HIDE DEF worth
    <3> QED BY <1>5, <1>12, <2>2, <2>3, <2>4
  <2> QED BY <2>5 DEF NotBelow
<1>23. RowsStay /\ NoLower(r)
  <2>1. AllPositive => row.quantity >= 0
    BY <1>3 DEF Kept, Balances
  <2> HIDE DEF row
  <2> QED BY <1>1, <1>7, <1>14, <1>22, <2>1, SameTables DEF NoLower
<1>24. Pays(r)
  <2>1. p = "store" => delta = 0
    BY DEF p, delta
  <2>2. Share(r)' = Share(r)
    BY <1>1, <1>11, <1>14, <2>1 DEF Share
  <2>3. req'[r].credit = credit[User(r)]
    BY <1>4, <1>14
  <2> QED BY <1>1, <1>2, <1>16, <2>2, <2>3, PaysNothing
<1> QED BY <1>16, <1>17, <1>18, <1>21, <1>23, <1>24, Statement

\* order.save(): the row of the user replaces one of the user's own.  A status that
\* moves away from returned is moved by a request that asked for it, and an update
\* that is saved over a return overlapped with it.
LEMMA SaveStep ==
  ASSUME Kept, NEW r \in Ids, SaveOrder(r)
  PROVE  Kept'
<1> DEFINE row == req[r].row
           n == Ask(r).order
<1>1. req[r].pc = "store" /\ req[r].pc \in Busy /\ UNCHANGED <<credit, shelf, applied, tampered>>
      /\ orders' = [orders EXCEPT ![n] = row]
  BY DEF SaveOrder, At, Busy
<1>2. Ask(r) \in Requests /\ Ask(r).op \in {"update", "return"}
  BY <1>1, OpAt
<1>3. Holding(r) /\ OwnRow(r) /\ row.product \in shelf
  BY <1>1 DEF Kept, RowHeld, Stock, Holding
<1>4. n \in 1..Len(orders) /\ orders[n].user = User(r) /\ row \in Order /\ row.user = User(r)
  BY <1>3 DEF OwnRow
<1>5. /\ Moves(r) /\ req' \in [Ids -> Handling]
      /\ req'[r].pc = "answered" /\ req'[r].ask = req[r].ask /\ req'[r].row = req[r].row
      /\ req'[r].delta = req[r].delta
  BY <1>1, GoMoves DEF SaveOrder, Kept, Over
<1> HIDE DEF n, row
<1>6. /\ orders \in Seq(Order) /\ orders' \in Seq(Order)
      /\ Len(orders) \in Nat /\ Len(orders') = Len(orders)
      /\ \A o \in 1..Len(orders) : orders'[o] = IF o = n THEN row ELSE orders[o]
  BY <1>1, <1>4 DEF Kept, TypeOK
<1>7. TypeOK'
  BY <1>1, <1>5, <1>6 DEF Kept, TypeOK
<1>8. InCourse'
  BY <1>5, CourseKept DEF Kept, Busy
<1>9. Claimed'
  BY <1>1, <1>2, <1>5, ClaimedKept DEF Kept, Ask
<1>10. RowHeld'
  <2>1. \A o \in 1..Len(orders) : orders'[o].user = orders[o].user
    BY <1>4, <1>6
  <2>2. OwnRow(r)'
    BY <1>1, <1>3, <1>5, <1>6, <2>1 DEF OwnRow, Ask, User
  <2> QED BY <1>5, <1>6, <2>1, <2>2, RowKept DEF Kept
<1>11. ReturnSticks'
  <2> SUFFICES ASSUME NEW q \in Ids, Answered(q, "return")',
                      \A x \in Ids : Asked(x, "update")' /\ Ask(x)'.order = Ask(q)'.order
                                       => Precedes(x, q)'
               PROVE  orders'[Ask(q)'.order].status = "return pending"
    BY DEF ReturnSticks
  <2>1. CASE q = r
    BY <1>3, <1>4, <1>5, <1>6, <2>1 DEF OwnRow, Answered, Ask, n, row
  <2>2. CASE q # r
    <3>1. req'[q] = req[q] /\ Answered(q, "return")
      BY <1>5, <2>2 DEF Moves, Answered, Ask
    <3>2. Ask(q).order \in 1..Len(orders)
      BY <3>1 DEF Kept, RowHeld, Holding, OwnRow
    <3>3. ASSUME NEW x \in Ids, Asked(x, "update"), Ask(x).order = Ask(q).order
          PROVE  Precedes(x, q)
      <4>1. req'[x].pc # "idle" /\ req'[x].ask = req[x].ask
        BY <1>5, <3>3, HistoryKept DEF Asked, Kept
      <4>2. Precedes(x, q)'
        BY <3>1, <3>3, <4>1 DEF Asked, Ask
      <4> QED BY <3>1, <4>2 DEF Precedes
    <3>4. orders[Ask(q).order].status = "return pending"
      BY <3>1, <3>3 DEF Kept, ReturnSticks
    <3>5. CASE Ask(q).order # n
      BY <1>6, <3>1, <3>2, <3>4, <3>5 DEF Ask
    <3>6. CASE Ask(q).order = n
      <4>1. ~Precedes(r, q)
        BY <1>5, NotYetBefore DEF Kept
      <4>2. Ask(r).op # "update"
        BY <1>1, <3>3, <3>6, <4>1 DEF Asked, n
      <4>3. row.status = "return pending"
        BY <1>2, <1>3, <4>2 DEF OwnRow, row
      <4> QED BY <1>4, <1>6, <3>1, <3>6, <4>3 DEF Ask
    <3> QED BY <3>5, <3>6
  <2> QED BY <2>1, <2>2
<1>12. ASSUME NEW q \in Ids, Ask(q).order = n, row.status # "returned" PROVE Mover(r, q)
  <2>1. Asked(r, Ask(r).op)
    BY <1>1 DEF Asked
  <2>2. Ask(r).op = "update" => Ask(r).status # "returned"
    BY <1>1, <1>3, <1>12 DEF OwnRow, row
  <2>3. ~Precedes(r, q)
    BY <1>5, NotYetBefore DEF Kept
  <2> QED BY <1>2, <1>12, <2>1, <2>2, <2>3 DEF Mover, MovesStatus, n
<1>13. RefundKept'
  <2>1. ASSUME NEW q \in Ids, Refunded(q)'
        PROVE  orders'[Ask(q)'.order].status = "returned" \/ \E x \in Ids : Mover(x, q)'
    <3>1. CASE q = r
      <4>1. row.status = "returned"
        BY <1>1, <1>3, <1>5, <2>1, <3>1 DEF Refunded, Answered, Ask, OwnRow, row
      <4> QED BY <1>4, <1>5, <1>6, <3>1, <4>1 DEF Ask, n
    <3>2. CASE q # r
      <4>1. req'[q] = req[q] /\ Refunded(q) /\ req[q].pc # "idle"
        BY <1>5, <2>1, <3>2 DEF Moves, Refunded, Answered, Ask
      <4>2. Ask(q).order \in 1..Len(orders)
        BY <4>1 DEF Kept, RowHeld, Holding, Refunded, OwnRow
      <4>3. CASE \E x \in Ids : Mover(x, q)
        BY <1>5, <4>1, <4>3, MoverKept DEF Kept
      <4>4. CASE orders[Ask(q).order].status = "returned" /\ Ask(q).order # n
        BY <1>6, <4>1, <4>2, <4>4 DEF Ask
      <4>5. CASE Ask(q).order = n /\ row.status = "returned"
        BY <1>4, <1>6, <4>1, <4>5 DEF Ask
      <4>6. CASE Ask(q).order = n /\ row.status # "returned"
        BY <1>5, <1>12, <4>1, <4>6, MoverKept DEF Kept
      <4>7. orders[Ask(q).order].status = "returned" \/ \E x \in Ids : Mover(x, q)
        BY <4>1 DEF Kept, RefundKept
      <4> QED BY <4>3, <4>4, <4>5, <4>6, <4>7
    <3> QED BY <3>1, <3>2
  <2>2. ASSUME NEW q \in Ids, NEW s \in Ids, Refunded(q)', Precedes(q, s)', Refunds(s)',
               Ask(s)'.order = Ask(q)'.order
        PROVE  \E x \in Ids : Mover(x, q)' /\ ~Precedes(s, x)'
    <3>1. q # r
      BY <1>5, <2>2, NotYetBefore DEF Kept
    <3>2. req'[q] = req[q] /\ Refunded(q) /\ req[q].pc # "idle"
      BY <1>5, <2>2, <3>1 DEF Moves, Refunded, Answered, Ask
    <3>3. Precedes(q, s) /\ Ask(s).order = Ask(q).order
      BY <1>5, <2>2, <3>2 DEF Moves, Precedes, Ask
    <3>4. Refunds(s)
      <4>1. CASE s = r
        BY <1>1, <1>3, <1>5, <2>2, <4>1 DEF Refunds, Ask
      <4>2. CASE s # r
        BY <1>5, <2>2, <4>2 DEF Moves, Refunds, Holding, Answered, Ask
      <4> QED BY <4>1, <4>2
    <3>5. PICK x \in Ids : Mover(x, q) /\ ~Precedes(s, x)
      BY <3>2, <3>3, <3>4 DEF Kept, RefundKept
    <3> QED BY <1>5, <3>2, <3>5, MoverKept DEF Kept
  <2> QED BY <2>1, <2>2 DEF RefundKept
<1>14. Stock'
  <2>1. \A o \in 1..Len(orders') : orders'[o].product \in shelf
    BY <1>3, <1>6 DEF Kept, Stock
  <2> QED BY <1>1, <1>3, <1>5, <2>1, StockKept DEF Kept, row
<1>15. Balances' /\ CreditFloor'
  <2>1. AllPositive => row.quantity >= 0
    BY <1>3 DEF Kept, Balances, row
  <2>2. AllPositive => \A o \in 1..Len(orders') : orders'[o].quantity >= 0
    BY <1>6, <2>1 DEF Kept, Balances
  <2>3. AllPositive => (\A p \in shelf' : Price[p] >= 0) /\ \A u \in Users : NotBelow(credit'[u])
    BY <1>1 DEF Kept, Balances, CreditFloor
  <2> QED BY <1>5, <2>1, <2>2, <2>3, BalancesKept DEF Kept, row
<1>16. CouponOnce'
  BY <1>9 DEF Claimed, CouponOnce, Answered
<1>17. RefundOnce'
  BY <1>13 DEF RefundKept, RefundOnce, Refunds, Mover, Refunded, Holding, Answered
<1>18. Accounts'
  <2>1. Share(r)' = Share(r)
    BY <1>1, <1>5 DEF Share
  <2>2. Pays(r)
    BY <1>1, <1>5, <2>1, PaysNothing DEF Held
  <2> QED BY <1>5, <1>7, <2>2, AccountsKept DEF Kept
<1> QED
  BY <1>7, <1>8, <1>9, <1>10, <1>11, <1>13, <1>14, <1>15, <1>16, <1>17, <1>18 DEF Kept

\* ReturnOrder.post
LEMMA ReturnStep ==
  ASSUME Kept, NEW r \in Ids, ReturnOrder(r)
  PROVE  Kept'
<1> DEFINE new == [Row(r) EXCEPT !.status = "return pending"]
<1>1. req[r].pc = "return" /\ req[r].pc \in Busy /\ UNCHANGED <<credit, shelf, orders, applied, tampered>>
  BY DEF ReturnOrder, At, Busy
<1>2. Ask(r) \in Requests /\ Ask(r).op = "return"
  BY <1>1, OpAt
<1>3. CASE Go(r, "failed") \/ Go(r, "refused")
  BY <1>1, <1>3, GivesUp
<1>4. CASE /\ Row(r) # NoOrder /\ Row(r).user = User(r)
           /\ req' = [req EXCEPT ![r].pc = "store", ![r].row = new]
  <2>1. /\ req[r] \in Handling /\ req \in [Ids -> Handling]
        /\ Ask(r).order \in 1..Len(orders) /\ Row(r) = orders[Ask(r).order] /\ Row(r) \in Order
        /\ Row(r).product \in shelf /\ (AllPositive => Row(r).quantity >= 0)
    BY <1>4, RowRead DEF Kept, TypeOK
  <2>2. /\ new \in Order /\ new.user = Row(r).user /\ new.product = Row(r).product
        /\ new.status = "return pending" /\ new.quantity = Row(r).quantity
    BY <2>1 DEF Order, Statuses
  <2> HIDE DEF new
  <2>3. req'[r] = [req[r] EXCEPT !.pc = "store", !.row = new]
        /\ \A s \in Ids \ {r} : req'[s] = req[s]
    BY <1>4, <2>1
  <2>4. /\ req'[r].pc = "store" /\ req'[r].ask = req[r].ask /\ req'[r].row = new
        /\ req'[r].before = req[r].before
    BY <2>1, <2>3 DEF Handling
  <2>5. req'[r] \in Handling
    BY <2>1, <2>2, <2>3 DEF Handling, Busy
  <2>6. req' \in [Ids -> Handling]
    BY <1>4, <2>1, <2>5
  <2>7. Moves(r)
    BY <1>1, <2>3, <2>4 DEF Moves, Busy
  <2>8. TypeOK'
    BY <1>1, <2>6 DEF Kept, TypeOK
  <2>9. GoesOn(r) /\ Claims(r)
    BY <1>2, <2>4 DEF GoesOn, Claims, Course, Ask
  <2>10. OwnRow(r)'
    BY <1>1, <1>2, <1>4, <2>1, <2>2, <2>4 DEF OwnRow, Ask, User
  <2>11. ~Refunds(r)'
    BY <1>2, <2>4 DEF Refunds, Ask
  <2>12. Holds(r)
    BY <2>1, <2>2, <2>4, <2>10, <2>11 DEF Holds
  <2>13. RowsStay /\ NoLower(r)
    BY <1>1, <2>1, <2>2, <2>4, SameTables DEF NoLower
  <2>14. Pays(r)
    <3>1. req'[r].delta = req[r].delta
      BY <2>1, <2>3 DEF Handling
    <3>2. req[r].delta = 0
      BY <1>1, <1>2 DEF Kept, Accounts, Asked
    <3> QED BY <1>1, <2>4, <2>7, <3>1, <3>2, PaysNothing DEF Share, Held
  <2> QED BY <2>7, <2>8, <2>9, <2>12, <2>13, <2>14, Statement
<1>5. Go(r, "refused") \/ Go(r, "failed") \/
      /\ Row(r) # NoOrder /\ Row(r).user = User(r)
      /\ req' = [req EXCEPT ![r].pc = "store", ![r].row = new]
  BY DEF ReturnOrder
<1> QED BY <1>3, <1>4, <1>5

\* ApplyCouponView.post: no row of it yet
LEMMA CouponStep ==
  ASSUME Kept, NEW r \in Ids, ApplyCoupon(r)
  PROVE  Kept'
<1>1. req[r].pc = "coupon" /\ req[r].pc \in Busy /\ UNCHANGED <<credit, shelf, orders, applied, tampered>>
  BY DEF ApplyCoupon, At, Busy
<1>2. Ask(r) \in Requests /\ Ask(r).op = "coupon"
  BY <1>1, OpAt
<1>3. CASE Go(r, "refused")
  BY <1>1, <1>3, GivesUp
<1>4. CASE Go(r, "claim") /\ <<User(r), Ask(r).code>> \notin applied
  <2>1. Moves(r) /\ req' \in [Ids -> Handling] /\ req'[r].pc = "claim"
    BY <1>1, <1>4, GoMoves DEF Kept, Busy
  <2>2. TypeOK'
    BY <1>1, <2>1 DEF Kept, TypeOK
  <2>3. ~Holding(r)' /\ ~Refunds(r)'
    BY <2>1 DEF Refunds, Holding, Answered
  <2>4. GoesOn(r) /\ Claims(r) /\ Holds(r)
    BY <1>2, <1>4, <2>1, <2>3 DEF GoesOn, Claims, Holds, Course, Ask, User
  <2>5. RowsStay /\ NoLower(r)
    BY <1>1, <2>1, <2>3, SameTables DEF NoLower
  <2>6. Pays(r)
    BY <1>1, <1>2, <2>1, PaysNothing DEF Share, Held
  <2> QED BY <2>1, <2>2, <2>4, <2>5, <2>6, Statement
<1> QED BY <1>3, <1>4 DEF ApplyCoupon

\* AppliedCoupon.objects.create
LEMMA ClaimStep ==
  ASSUME Kept, NEW r \in Ids, ClaimCoupon(r)
  PROVE  Kept'
<1>1. req[r].pc = "claim" /\ req[r].pc \in Busy /\ UNCHANGED <<credit, shelf, orders, tampered>>
      /\ applied' = applied \cup {<<User(r), Ask(r).code>>}
  BY DEF ClaimCoupon, At, Busy
<1>2. Ask(r) \in Requests /\ Ask(r).op = "coupon" /\ User(r) \in Users /\ Ask(r).code \in STRING
  BY <1>1, OpAt, AskFields DEF User
<1>3. Moves(r) /\ req' \in [Ids -> Handling] /\ req'[r].pc = "amount"
  BY <1>1, GoMoves DEF ClaimCoupon, Kept, Busy
<1>4. TypeOK'
  BY <1>1, <1>2, <1>3 DEF Kept, TypeOK
<1>5. ~Holding(r)' /\ ~Refunds(r)'
  BY <1>3 DEF Refunds, Holding, Answered
<1>6. GoesOn(r) /\ Claims(r) /\ Holds(r)
  BY <1>1, <1>2, <1>3, <1>5 DEF GoesOn, Claims, Holds, Course, Ask, User
<1>7. RowsStay
  BY <1>1 DEF RowsStay, Kept, TypeOK, Stock
<1>8. NoLower(r)
  BY <1>1, <1>3, <1>5 DEF NoLower, Kept, Balances, CreditFloor
<1>9. Pays(r)
  BY <1>1, <1>2, <1>3, PaysNothing DEF Share, Held
<1> QED BY <1>3, <1>4, <1>6, <1>7, <1>8, <1>9, Statement

\* The amount of the request is added to the balance.
LEMMA AmountStep ==
  ASSUME Kept, NEW r \in Ids, ReadAmount(r)
  PROVE  Kept'
<1> DEFINE ask == Ask(r)
<1>1. req[r].pc = "amount" /\ req[r].pc \in Busy /\ UNCHANGED <<credit, shelf, orders, applied, tampered>>
  BY DEF ReadAmount, At, Busy
<1>2. /\ ask \in Requests /\ ask.op = "coupon" /\ ask.user \in Users
      /\ ask.amount \in Int \cup {NotANumber} /\ credit[ask.user] \in Int
  BY <1>1, OpAt, AskFields DEF Kept, TypeOK
<1>3. CASE Go(r, "failed")
  BY <1>1, <1>3, GivesUp
<1>4. CASE /\ ask.amount # NotANumber
           /\ req' = [req EXCEPT ![r].pc = "charge", ![r].credit = credit[ask.user],
                                 ![r].delta = ask.amount]
  <2>1. req[r] \in Handling /\ req \in [Ids -> Handling] /\ ask.amount \in Int
    BY <1>2, <1>4 DEF Kept, TypeOK
  <2> HIDE DEF ask
  <2>2. req'[r] = [req[r] EXCEPT !.pc = "charge", !.credit = credit[ask.user],
                                 !.delta = ask.amount]
        /\ \A s \in Ids \ {r} : req'[s] = req[s]
    BY <1>4, <2>1
  <2>3. /\ req'[r].pc = "charge" /\ req'[r].ask = req[r].ask /\ req'[r].row = req[r].row
        /\ req'[r].before = req[r].before /\ req'[r].credit = credit[ask.user]
        /\ req'[r].delta = ask.amount
    BY <2>1, <2>2 DEF Handling
  <2>4. req'[r] \in Handling
    BY <1>2, <2>1, <2>2 DEF Handling, Busy
  <2>5. req' \in [Ids -> Handling]
    BY <1>4, <2>1, <2>4
  <2>6. Moves(r)
    BY <1>1, <2>2, <2>3 DEF Moves, Busy
  <2>7. TypeOK'
    BY <1>1, <2>5 DEF Kept, TypeOK
  <2>8. ~Holding(r)' /\ ~Refunds(r)'
    BY <2>3 DEF Refunds, Holding, Answered
  <2>9. GoesOn(r) /\ Holds(r)
    BY <1>2, <2>3, <2>8 DEF GoesOn, Holds, Course, ask, Ask
  <2>10. Claims(r)
    BY <1>1, <1>2, <2>3 DEF Claims, Kept, Claimed, User, ask, Ask
  <2>11. AllPositive => NotBelow(req'[r].credit + req'[r].delta)
    <3> SUFFICES ASSUME AllPositive PROVE NotBelow(req'[r].credit + req'[r].delta)
      OBVIOUS
    <3>1. ask.amount >= 0
      BY <1>1, <1>2, <1>4 DEF AllPositive, Positive, ask
    <3>2. PICK low \in Lows : low <= credit[ask.user]
      BY <1>2 DEF Kept, CreditFloor, NotBelow
    <3>3. low \in Int
      BY ShopAssumption, AskFields DEF Lows
    <3>4. low <= req'[r].credit + req'[r].delta
      BY <1>2, <2>1, <2>3, <3>1, <3>2, <3>3
    <3> QED BY <3>4 DEF NotBelow
  <2>12. RowsStay /\ NoLower(r)
    BY <1>1, <2>3, <2>8, <2>11, SameTables DEF NoLower
  <2>13. Pays(r)
    <3>1. Ask(r).op = "coupon" /\ req'[r].credit = credit[User(r)]
      BY <1>2, <2>3 DEF ask, User
    <3>2. Share(r)' = Share(r)
      BY <1>1, <2>3 DEF Share
    <3> QED BY <1>1, <2>6, <3>1, <3>2, PaysNothing
  <2> QED BY <2>6, <2>7, <2>9, <2>10, <2>12, <2>13, Statement
<1> QED BY <1>3, <1>4 DEF ReadAmount, User

\* A request that arrives has done nothing, and it comes after those that are over.
LEMMA ArriveStep ==
  ASSUME Kept, NEW r \in Ids, Arrive(r)
  PROVE  Kept'
<1>1. PICK ask \in Requests, valid \in BOOLEAN :
        req' = [req EXCEPT ![r] = [Idle EXCEPT
                  !.ask = ask, !.pc = IF valid THEN ask.op ELSE "refused",
                  !.before = {s \in Ids : req[s].pc \in Over}]]
  BY DEF Arrive
<1>2. req[r].pc = "idle" /\ UNCHANGED <<credit, shelf, orders, applied, tampered>>
  BY DEF Arrive, At
<1>3. req \in [Ids -> Handling] /\ ask.op \in {"stock", "order", "update", "return", "coupon"}
  BY AskFields DEF Kept, TypeOK
<1>4. req'[r] = [ask |-> ask, pc |-> IF valid THEN ask.op ELSE "refused", credit |-> 0,
                 delta |-> 0, row |-> NoOrder, before |-> {s \in Ids : req[s].pc \in Over}]
      /\ \A s \in Ids \ {r} : req'[s] = req[s]
  BY <1>1, <1>3 DEF Idle
<1>5. /\ req'[r].ask = ask /\ req'[r].pc \in {ask.op, "refused"}
      /\ req'[r].before = {s \in Ids : req[s].pc \in Over}
  BY <1>4
<1>6. req'[r] \in Handling
  BY <1>3, <1>4 DEF Handling, Busy, Over
<1>7. Arrives(r)
  BY <1>2, <1>4, <1>5 DEF Arrives
<1>8. TypeOK'
  BY <1>1, <1>2, <1>3, <1>6 DEF Kept, TypeOK
<1>9. \A s \in Ids : ~Precedes(r, s)'
  BY <1>2, <1>4, <1>5 DEF Kept, InCourse, Precedes, Over
<1>10. req'[r].pc \notin {"create", "charge", "refund", "claim", "amount", "answered", "idle"}
       /\ ~Holding(r)'
  BY <1>3, <1>5 DEF Holding, Answered
<1>11. InCourse'
  <2>1. ASSUME NEW s \in Ids
        PROVE  /\ req'[s].pc # "idle" => req'[s].ask \in Requests
               /\ req'[s].pc \in Busy => <<req'[s].ask.op, req'[s].pc>> \in Course
    <3>1. CASE s = r
      BY <1>3, <1>5, <3>1 DEF Course, Busy
    <3>2. CASE s # r
      BY <1>4, <3>2 DEF Kept, InCourse, Ask
    <3> QED BY <3>1, <3>2
  <2>2. ASSUME NEW s \in Ids, NEW q \in req'[s].before PROVE req'[q].pc \in Over
    <3>1. q \in Ids /\ req[q].pc \in Over
      BY <1>4, <1>5, HandlingFields DEF Kept, InCourse
    <3> QED BY <1>7, <3>1, HistoryKept DEF Kept
  <2> QED BY <2>1, <2>2 DEF InCourse, Ask
<1>12. RowHeld'
  <2> SUFFICES ASSUME NEW s \in Ids, Holding(s)' PROVE OwnRow(s)'
    BY DEF RowHeld
  <2>1. s # r /\ req'[s] = req[s]
    BY <1>4, <1>10
  <2>2. OwnRow(s)
    BY <2>1 DEF Kept, RowHeld, Holding, Answered, Ask
  <2> QED BY <1>2, <2>1, <2>2 DEF OwnRow, Ask, User
<1>13. Claimed'
  BY <1>2, <1>4, <1>9, <1>10 DEF Kept, Claimed, Answered, Ask, User, Precedes
<1>14. ReturnSticks'
  <2> SUFFICES ASSUME NEW q \in Ids, Answered(q, "return")',
                      \A x \in Ids : Asked(x, "update")' /\ Ask(x)'.order = Ask(q)'.order
                                       => Precedes(x, q)'
               PROVE  orders'[Ask(q)'.order].status = "return pending"
    BY DEF ReturnSticks
  <2>1. req'[q] = req[q] /\ Answered(q, "return")
    BY <1>4, <1>10 DEF Answered, Ask
  <2>2. ASSUME NEW x \in Ids, Asked(x, "update"), Ask(x).order = Ask(q).order
        PROVE  Precedes(x, q)
    <3>1. req'[x] = req[x]
      BY <1>2, <1>4, <2>2 DEF Asked
    <3> QED BY <2>1, <2>2, <3>1 DEF Asked, Ask, Precedes
  <2> QED BY <1>2, <2>1, <2>2 DEF Kept, ReturnSticks, Ask
<1>15. RefundKept'
  <2>1. ASSUME NEW q \in Ids, Refunded(q)'
        PROVE  q # r /\ req'[q] = req[q] /\ Refunded(q) /\ req[q].pc # "idle"
    BY <1>4, <1>10, <2>1 DEF Refunded, Answered, Ask
  <2>2. ASSUME NEW q \in Ids, Refunded(q)'
        PROVE  orders'[Ask(q)'.order].status = "returned" \/ \E x \in Ids : Mover(x, q)'
    <3>1. orders[Ask(q).order].status = "returned" \/ \E x \in Ids : Mover(x, q)
      BY <2>1, <2>2 DEF Kept, RefundKept
    <3>2. (\E x \in Ids : Mover(x, q)) => \E x \in Ids : Mover(x, q)'
      BY <1>7, <2>1, <2>2, MoverKept DEF Kept
    <3> QED BY <1>2, <2>1, <2>2, <3>1, <3>2 DEF Ask
  <2>3. ASSUME NEW q \in Ids, NEW s \in Ids, Refunded(q)', Precedes(q, s)', Refunds(s)',
               Ask(s)'.order = Ask(q)'.order
        PROVE  \E x \in Ids : Mover(x, q)' /\ ~Precedes(s, x)'
    <3>1. s # r /\ req'[s] = req[s]
      BY <1>4, <1>10, <2>3 DEF Refunds
    <3>2. PICK x \in Ids : Mover(x, q) /\ ~Precedes(s, x)
      BY <2>1, <2>3, <3>1 DEF Kept, RefundKept, Refunds, Holding, Answered, Ask, Precedes
    <3> QED BY <1>7, <2>1, <2>3, <3>2, MoverKept DEF Kept
  <2> QED BY <2>2, <2>3 DEF RefundKept
<1>16. Stock'
  BY <1>2, <1>4, <1>10 DEF Kept, Stock, Holding, Answered, Ask
<1>17. Balances' /\ CreditFloor'
  <2> SUFFICES ASSUME AllPositive' PROVE Balances' /\ CreditFloor'
    BY DEF Balances, CreditFloor
  <2>1. AllPositive
    BY <1>7, PositiveKept DEF Kept
  <2>2. ASSUME NEW s \in Ids
        PROVE  /\ Holding(s)' => req'[s].row.quantity >= 0
               /\ req'[s].pc \in {"create", "charge", "refund"} =>
                    NotBelow(req[s].credit + req[s].delta)'
    BY <1>4, <1>10, <2>1 DEF Kept, Balances, Holding, Answered, Ask, NotBelow, Lows
  <2> QED BY <1>2, <2>1, <2>2 DEF Kept, Balances, CreditFloor, NotBelow, Lows
<1>18. CouponOnce'
  BY <1>13 DEF Claimed, CouponOnce, Answered
<1>19. RefundOnce'
  BY <1>15 DEF RefundKept, RefundOnce, Refunds, Mover, Refunded, Holding, Answered
<1>20. Accounts'
  <2>1. req'[r].delta = 0 /\ Share(r) = 0 /\ Share(r)' = 0 /\ req'[r].pc \notin Held
    BY <1>2, <1>4, <1>10 DEF Share, Held
  <2>2. \A u \in Users : credit[u] \in Int
    BY DEF Kept, TypeOK
  <2>3. Pays(r)
    BY <1>2, <2>1, <2>2 DEF Pays
  <2> QED BY <1>2, <1>7, <1>8, <2>3, AccountsKept DEF Kept
<1> QED
  BY <1>8, <1>11, <1>12, <1>13, <1>14, <1>15, <1>16, <1>17, <1>18, <1>19, <1>20 DEF Kept

------------------------------------------------------------------------------
\* Nobody has asked anything yet, and the seeded orders are of stocked products.
LEMMA InitKept ==
  ASSUME Init PROVE Kept
<1>1. Idle \in Handling
  BY DEF Idle, Handling
<1>2. \A r \in Ids : req[r].pc = "idle" /\ req[r].before = {}
  BY DEF Init, Idle
<1>3. TypeOK
  BY <1>1, ShopAssumption DEF Init, TypeOK
<1>4. \A r \in Ids : \A op : ~Holding(r) /\ ~Answered(r, op) /\ ~Asked(r, op)
  BY <1>2 DEF Holding, Answered, Asked
<1>5. CouponOnce /\ RefundOnce /\ ReturnSticks
  BY <1>4 DEF CouponOnce, RefundOnce, Refunded, ReturnSticks
<1>6. \A u \in Users : NotBelow(credit[u])
  <2>1. ASSUME NEW u \in Users PROVE Opening[u] \in Lows /\ Opening[u] <= Opening[u]
    BY <2>1, ShopAssumption DEF Lows
  <2> QED BY <2>1 DEF Init, NotBelow
<1>7. CreditFloor
  BY <1>6 DEF CreditFloor
<1>8. InCourse
  BY <1>2 DEF InCourse, Busy
<1>9. RowHeld /\ Claimed /\ RefundKept
  BY <1>2, <1>4 DEF RowHeld, Claimed, RefundKept, Refunded
<1>10. Stock
  BY <1>2, <1>4, SeedAssumption DEF Init, Stock
<1>11. Balances
  BY <1>2, <1>4, SeedAssumption DEF Init, Balances
<1>12. Accounts
  <2>1. \A u : Of(u) = {} /\ Paid(u) = {}
    BY <1>2 DEF Of, Paid
  <2>2. Credited({}) = 0
    BY SumEmpty DEF Credited
  <2>3. \A u \in Users : credit[u] = Opening[u] /\ Opening[u] \in Int
    BY ShopAssumption DEF Init
  <2>4. \A u \in Users : credit[u] = Opening[u] + Credited(Paid(u))
    BY <2>1, <2>2, <2>3
  <2> QED BY <1>4, <2>1, <2>4 DEF Accounts
<1> QED BY <1>3, <1>5, <1>7, <1>8, <1>9, <1>10, <1>11, <1>12 DEF Kept

\* What was tampered with stays so.
LEMMA NotTampered ==
  ASSUME [Next]_vars, ~tampered'
  PROVE  ~tampered
<1>1. ASSUME NEW r \in Ids, ApplyCrafted(r) PROVE FALSE
  BY <1>1 DEF ApplyCrafted
<1>2. CASE Next
  <2>1. PICK r \in Ids :
          \/ Arrive(r) \/ AddProduct(r)
          \/ ReadBalance(r) \/ CreateOrder(r) \/ SaveDetails(r)
          \/ UpdateOrder(r) \/ ReadDetails(r) \/ SaveOrder(r)
          \/ ReturnOrder(r)
          \/ ApplyCoupon(r) \/ ClaimCoupon(r) \/ ReadAmount(r)
          \/ Fail(r)
    BY <1>1, <1>2 DEF Next
  <2> QED
    BY <2>1 DEF Arrive, AddProduct, ReadBalance, CreateOrder, SaveDetails, UpdateOrder, ReadDetails,
                SaveOrder, ReturnOrder, ApplyCoupon, ClaimCoupon, ReadAmount, Fail
<1> QED BY <1>2 DEF vars

\* As long as no code is run as SQL, every step keeps what the shop promises.
LEMMA KeptStep ==
  ASSUME Kept, [Next]_vars, ~tampered'
  PROVE  Kept'
<1>1. ASSUME NEW r \in Ids, Fail(r) PROVE Kept'
  BY <1>1, GivesUp DEF Fail
<1>2. CASE Next
  <2>1. PICK r \in Ids :
          \/ Arrive(r) \/ AddProduct(r)
          \/ ReadBalance(r) \/ CreateOrder(r) \/ SaveDetails(r)
          \/ UpdateOrder(r) \/ ReadDetails(r) \/ SaveOrder(r)
          \/ ReturnOrder(r)
          \/ ApplyCoupon(r) \/ ClaimCoupon(r) \/ ReadAmount(r)
          \/ Fail(r)
    BY <1>2 DEF Next, ApplyCrafted
  <2> QED
    BY <1>1, <2>1, ArriveStep, StockStep, BalanceStep, OrderStep, DetailsStep, UpdateStep,
       RefundStep, SaveStep, ReturnStep, CouponStep, ClaimStep, AmountStep
<1>3. CASE UNCHANGED vars
  <2>1. TypeOK' /\ CouponOnce' /\ RefundOnce' /\ ReturnSticks'
    BY <1>3 DEF vars, Kept, TypeOK, CouponOnce, RefundOnce, ReturnSticks, Refunded, Answered,
                MovesStatus, Asked, Ask, User, Precedes
  <2>2. CreditFloor' /\ Balances'
    BY <1>3 DEF vars, Kept, CreditFloor, Balances, AllPositive, Positive, NotBelow, Lows, Holding,
                Answered, Ask
  <2>3. InCourse' /\ RowHeld' /\ Claimed' /\ Stock'
    BY <1>3 DEF vars, Kept, InCourse, RowHeld, Claimed, Stock, Holding, OwnRow, Answered, Ask,
                User, Precedes
  <2>4. RefundKept'
    BY <1>3 DEF vars, Kept, RefundKept, Refunded, Refunds, Mover, MovesStatus, Asked, Holding,
                Answered, Ask, Precedes
  <2>5. Accounts'
    BY <1>3 DEF vars, Kept, Accounts, Orderly, Credited, Paid, Of, User, Asked, Ask, Precedes
  <2> QED BY <2>1, <2>2, <2>3, <2>4, <2>5 DEF Kept
<1> QED BY <1>2, <1>3

\* The invariant is that, and before a code is run also what is promised.
LEMMA InvIsKept ==
  Inv <=> Typed /\ (~tampered => Kept)
  BY DEF Inv, Typed, Kept, Promised

\* It holds at first,
LEMMA InitInv ==
  ASSUME Init PROVE Inv
<1>1. Kept
  BY InitKept
<1>2. RowTyped
  BY DEF Init, Idle, RowTyped
<1> QED BY <1>1, <1>2, InvIsKept DEF Typed, Kept

\* and every step keeps it.
LEMMA StepInv ==
  ASSUME Inv, [Next]_vars
  PROVE  Inv'
<1>1. Typed'
  BY InvIsKept, TypedStep
<1>2. ASSUME ~tampered' PROVE Kept /\ Kept'
  <2>1. ~tampered
    BY <1>2, NotTampered
  <2> QED BY <1>2, <2>1, InvIsKept, KeptStep
<1> QED BY <1>1, <1>2 DEF Inv, Typed, Kept, Promised

\* What the shop keeps however its requests overlap or fail, until one of them has
\* its coupon_code run as SQL: a coupon is credited twice and an order refunded
\* twice only by requests that overlapped, a return stays on record, and no
\* balance falls below the floor (the four views).
THEOREM ShopInvariance == Spec => []Inv
<1>1. Init => Inv
  BY InitInv
<1>2. Inv /\ [Next]_vars => Inv'
  BY StepInv
<1> QED BY <1>1, <1>2, PTL DEF Spec

\* A user whose requests came one after the other and were all answered or refused
\* has the opening credit and what the answers add up to, whatever the requests of
\* others did meanwhile, but for a coupon_code that was run as SQL (the
\* read-modify-write of available_credit in the four views).
THEOREM CreditIsAccounted == Spec => []CreditAccounted
<1>1. ASSUME Inv PROVE CreditAccounted
  <2> SUFFICES ASSUME ~tampered, NEW u \in Users, Undisturbed(u)
               PROVE  credit[u] = Opening[u] + Credited({r \in Of(u) : req[r].pc = "answered"})
    BY DEF CreditAccounted
  <2>1. Orderly(u)
    BY DEF Undisturbed, Orderly
  <2>2. Paid(u) = {r \in Of(u) : req[r].pc = "answered"}
    BY DEF Undisturbed, Paid
  <2> QED BY <1>1, <2>1, <2>2 DEF Inv, Promised, Accounts
<1> QED BY <1>1, ShopInvariance, PTL

\* Until a coupon_code is run as SQL, a step changes the credit and the orders of
\* no user but the one whose request it handles (OrderControlView.put pays the
\* owner of the order).
THEOREM OwnRequestsOnly == Spec => OnlyOwnRequests
<1> DEFINE Touches(u) == \/ credit'[u] # credit[u]
                         \/ \E o \in DOMAIN orders : orders[o].user = u /\ orders'[o] # orders[o]
           Own(u) == \E r \in Of(u) : req[r].pc \in Busy /\ req'[r].pc # req[r].pc
<1>1. ASSUME Kept, NEW r \in Ids, NEW u \in Users, SaveDetails(r), Touches(u) PROVE Own(u)
  <2>1. /\ req[r].pc \in {"charge", "refund"} /\ UNCHANGED orders
        /\ credit' = [credit EXCEPT ![User(r)] = req[r].credit + req[r].delta]
        /\ Go(r, IF Ask(r).op = "update" THEN "store" ELSE "answered")
    BY <1>1 DEF SaveDetails, At
  <2>2. User(r) = u
    BY <1>1, <2>1 DEF Kept, TypeOK
  <2>3. req'[r].pc \in {"store", "answered"}
    BY <1>1, <2>1 DEF Go, Kept, TypeOK, Handling
  <2> QED BY <2>1, <2>2, <2>3 DEF Of, Busy
<1>2. ASSUME Kept, NEW r \in Ids, NEW u \in Users, SaveOrder(r), Touches(u) PROVE Own(u)
  <2>1. /\ req[r].pc = "store" /\ UNCHANGED credit /\ Go(r, "answered")
        /\ orders' = [orders EXCEPT ![Ask(r).order] = req[r].row]
    BY <1>2 DEF SaveOrder, At
  <2>2. PICK o \in DOMAIN orders : orders[o].user = u /\ orders'[o] # orders[o]
    BY <1>2, <2>1
  <2>3. o = Ask(r).order
    BY <2>1, <2>2
  <2>4. User(r) = u
    BY <1>2, <2>1, <2>2, <2>3 DEF Kept, RowHeld, Holding, OwnRow
  <2>5. req'[r].pc = "answered"
    BY <1>2, <2>1 DEF Go, Kept, TypeOK, Handling
  <2> QED BY <2>1, <2>4, <2>5 DEF Of, Busy
<1>3. ASSUME Kept, NEW r \in Ids, NEW u \in Users, CreateOrder(r) PROVE ~Touches(u)
  <2>1. orders \in Seq(Order) /\ credit' = credit
        /\ \E x : orders' = Append(orders, x)
    BY <1>3 DEF Kept, TypeOK, CreateOrder
  <2>2. \A o \in DOMAIN orders : orders'[o] = orders[o]
    BY <2>1
  <2> QED BY <2>1, <2>2
<1>4. ASSUME NEW u \in Users, credit' = credit, orders' = orders PROVE ~Touches(u)
  BY <1>4
<1>5. ASSUME Kept, [Next]_vars, ~tampered', NEW u \in Users, Touches(u) PROVE Own(u)
  <2>1. CASE Next
    <3>1. PICK r \in Ids :
            \/ Arrive(r) \/ AddProduct(r)
            \/ ReadBalance(r) \/ CreateOrder(r) \/ SaveDetails(r)
            \/ UpdateOrder(r) \/ ReadDetails(r) \/ SaveOrder(r)
            \/ ReturnOrder(r)
            \/ ApplyCoupon(r) \/ ClaimCoupon(r) \/ ReadAmount(r)
            \/ Fail(r)
      BY <1>5, <2>1 DEF Next, ApplyCrafted
    <3>2. SaveDetails(r) \/ SaveOrder(r) \/ CreateOrder(r) \/ (credit' = credit /\ orders' = orders)
      BY <3>1 DEF Arrive, AddProduct, ReadBalance, UpdateOrder, ReadDetails, ReturnOrder,
                  ApplyCoupon, ClaimCoupon, ReadAmount, Fail
    <3> HIDE DEF Touches, Own
    <3> QED BY <1>1, <1>2, <1>3, <1>4, <1>5, <3>2
  <2>2. CASE UNCHANGED vars
    BY <1>4, <1>5, <2>2 DEF vars
  <2> QED BY <1>5, <2>1, <2>2
<1>6. ASSUME Inv, [Next]_vars PROVE ~tampered' => \A u \in Users : Touches(u) => Own(u)
  <2> SUFFICES ASSUME ~tampered', NEW u \in Users, Touches(u) PROVE Own(u)
    OBVIOUS
  <2>1. Kept
    BY <1>6, NotTampered, InvIsKept
  <2> HIDE DEF Touches, Own
  <2> QED BY <1>5, <1>6, <2>1
<1>7. Inv /\ [Next]_vars => [~tampered' => \A u \in Users : Touches(u) => Own(u)]_vars
  BY <1>6
<1>8. Spec => [][~tampered' => \A u \in Users : Touches(u) => Own(u)]_vars
  BY <1>7, ShopInvariance, PTL DEF Spec
<1> QED BY <1>8 DEF OnlyOwnRequests

==============================================================================
