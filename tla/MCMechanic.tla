------------------------------ MODULE MCMechanic ------------------------------
(* Three requests: two that overlap and one before, between or after them. *)
EXTENDS Mechanic

CONSTANTS ann, ben, old, x, y

SignUpOf(e, c) == [op |-> "sign_up", email |-> e, code |-> c]
MCRequests ==
  {SignUpOf(ann, x), SignUpOf(ben, x), SignUpOf(old, y), [op |-> "receive"],
   [op |-> "comment", row |-> 1],
   [op |-> "status", row |-> 1, to |-> "completed"],
   [op |-> "status", row |-> 2, to |-> "inprogress"]}
  \cup {[op |-> "report", report |-> f] : f \in {"1", "01", "2"}}
\* "1" and "01" spell the same id; service request 2 is there once it was received
MCIdOf == [f \in {"1", "01", "2"} |-> IF f = "2" THEN 2 ELSE 1]
==============================================================================
