------------------------------- MODULE Matching -------------------------------
(***************************************************************************)
(* What a reader of a correlation relies on: alerts of two layers are      *)
(* joined one to one, only when they have the same key, and when the list  *)
(* is closed no two that could be joined are left.  Which of several equal *)
(* ones are joined is not said.                                            *)
(***************************************************************************)
EXTENDS Naturals, Sequences

CONSTANT Keys

VARIABLES
  left, right,   \* the keys of the alerts of either layer, by position
  joined,        \* the pairs of positions joined so far
  closed

vars == <<left, right, joined, closed>>

\* the pairs that may still be joined
Joinable ==
  {p \in (1..Len(left)) \X (1..Len(right)) :
     /\ left[p[1]] = right[p[2]]
     /\ \A q \in joined : q[1] # p[1] /\ q[2] # p[2]}

Init ==
  /\ left \in Seq(Keys) /\ right \in Seq(Keys)
  /\ joined = {} /\ closed = FALSE

Join ==
  /\ ~closed
  /\ \E p \in Joinable : joined' = joined \cup {p}
  /\ UNCHANGED <<left, right, closed>>

Close ==
  /\ ~closed /\ Joinable = {}
  /\ closed' = TRUE
  /\ UNCHANGED <<left, right, joined>>

Next == Join \/ Close

Spec == Init /\ [][Next]_vars
==============================================================================
