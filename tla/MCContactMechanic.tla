-------------------------- MODULE MCContactMechanic --------------------------
(* Three calls to the own server, one to another and one that ends at once, *)
(* on two threads: enough for two calls to hold both while a third waits.   *)
EXTENDS ContactMechanic, TLC

CONSTANTS patient, wrong, stray, greedy, typo
MCAsk ==
  (patient :> [repeat |-> TRUE, repeats |-> 2, to |-> "own", known |-> TRUE]) @@
  (wrong :> [repeat |-> TRUE, repeats |-> 1, to |-> "own", known |-> FALSE]) @@
  (stray :> [repeat |-> FALSE, repeats |-> 0, to |-> "elsewhere", known |-> TRUE]) @@
  (greedy :> [repeat |-> TRUE, repeats |-> 3, to |-> "own", known |-> TRUE]) @@
  (typo :> [repeat |-> TRUE, repeats |-> 1, to |-> "malformed", known |-> TRUE])
==============================================================================
