-------------------------------- MODULE MCShop --------------------------------
(* Two users and two products, one of them not stocked yet; the third request *)
(* is the first that can tell two overlapping ones from a sequence.  The code *)
(* Q is run as SQL, which may leave the tables of MCRewritten.                *)
EXTENDS Shop

CONSTANTS alice, bob, seat, wheel

MCPrice == [p \in {seat, wheel} |-> IF p = seat THEN 2 ELSE 3]
MCOpening == [u \in {alice, bob} |-> IF u = alice THEN 3 ELSE 1]
MCSeeded == <<[user |-> alice, product |-> seat, quantity |-> 2, status |-> "delivered"]>>

Buy(u, p, q) == [op |-> "order", user |-> u, product |-> p, quantity |-> q]
Put(u, o, q, s) == [op |-> "update", user |-> u, order |-> o, quantity |-> q, status |-> s]
Claim(u, c, a) == [op |-> "coupon", user |-> u, code |-> c, amount |-> a]
MCRequests ==
  {Buy(alice, seat, 3), Buy(alice, seat, -2), Buy(bob, wheel, 1),
   [op |-> "stock", user |-> bob, product |-> wheel],
   Put(alice, 1, 1, Keep), Put(alice, 1, Keep, "returned"),
   Put(bob, 1, Keep, "returned"), Put(alice, 2, Keep, "bogus"),
   [op |-> "return", user |-> alice, order |-> 1],
   Claim(alice, "C", 4), Claim(bob, "Q", NotANumber)}
MCRewritten ==
  {[credit |-> [u \in {alice, bob} |-> 9], shelf |-> {},
    orders |-> <<[MCSeeded[1] EXCEPT !.user = bob], MCSeeded[1]>>, applied |-> {}]}
==============================================================================
