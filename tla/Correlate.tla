------------------------------- MODULE Correlate -------------------------------
(***************************************************************************)
(* src/heimdall/correlate.py: the alerts of a live scan, one after the     *)
(* other, each take the first static alert of their key that is not taken. *)
(* The findings of a report are told apart by their position, as the code  *)
(* does by id(); a report may hold several with one key.                   *)
(***************************************************************************)
EXTENDS Naturals, Sequences

CONSTANTS
  Methods,   \* spellings of a method, "UNKNOWN" among them
  Upper,     \* str.upper on those spellings
  Paths,     \* path templates; one of them is "", an unresolved route
  Cwes,
  MaxLen     \* bound: findings in a report

ASSUME CorrelateAssumption ==
  /\ Upper \in [Methods -> Methods]
  /\ MaxLen \in Nat

VARIABLES
  dast, sast,   \* the two reports
  next,         \* the DAST finding the loop looks at
  correlated,   \* pairs of positions
  dast_only, sast_only,
  returned

vars == <<dast, sast, next, correlated, dast_only, sast_only, returned>>

Finding == [method : Methods, path_template : Paths, cwe : Cwes]
Report == UNION {[1..n -> Finding] : n \in 0..MaxLen}
Key == Methods \X Paths \X Cwes

\* mutant: the method as it is spelled
_key_AsSpelled(f) == <<f.method, f.path_template, f.cwe>>
_key(f) == <<Upper[f.method], f.path_template, f.cwe>>

DastPositions == 1..Len(dast)
SastPositions == 1..Len(sast)
Pairs == DastPositions \X SastPositions

TypeOK ==
  /\ dast \in Report /\ sast \in Report
  /\ next \in 1..(Len(dast) + 1)
  /\ correlated \subseteq Pairs
  /\ dast_only \subseteq DastPositions /\ sast_only \subseteq SastPositions
  /\ returned \in BOOLEAN

Init ==
  /\ dast \in Report /\ sast \in Report
  /\ next = 1
  /\ correlated = {} /\ dast_only = {} /\ sast_only = {}
  /\ returned = FALSE

Matched == {p[2] : p \in correlated}

\* unmatched_candidates
Unmatched(d) == {s \in SastPositions \ Matched : _key(sast[s]) = _key(dast[d])}

\* unmatched_candidates[0]
Correlated ==
  /\ ~returned /\ next \in DastPositions
  /\ \E s \in Unmatched(next) :
       /\ \A t \in Unmatched(next) : s <= t
       /\ correlated' = correlated \cup {<<next, s>>}
  /\ next' = next + 1
  /\ UNCHANGED <<dast, sast, dast_only, sast_only, returned>>

\* mutant: a DAST finding whose key was paired before is a duplicate
DastOnly_Once ==
  /\ ~returned /\ next \in DastPositions
  /\ Unmatched(next) = {}
  /\ dast_only' = IF \E p \in correlated : _key(dast[p[1]]) = _key(dast[next])
                  THEN dast_only ELSE dast_only \cup {next}
  /\ next' = next + 1
  /\ UNCHANGED <<dast, sast, correlated, sast_only, returned>>
DastOnly ==
  /\ ~returned /\ next \in DastPositions
  /\ Unmatched(next) = {}
  /\ dast_only' = dast_only \cup {next}
  /\ next' = next + 1
  /\ UNCHANGED <<dast, sast, correlated, sast_only, returned>>

Return ==
  /\ ~returned /\ next \notin DastPositions
  /\ sast_only' = SastPositions \ Matched
  /\ returned' = TRUE
  /\ UNCHANGED <<dast, sast, next, correlated, dast_only>>

Next == Correlated \/ DastOnly \/ Return

Spec == Init /\ [][Next]_vars

------------------------------------------------------------------------------
\* No finding is lost and none is reported twice: when correlate returns, every
\* finding of either report is in exactly one pair or in the list of its layer.
InOnePlace ==
  returned =>
    /\ \A d \in DastPositions : d \in dast_only <=> ~ \E p \in correlated : p[1] = d
    /\ \A s \in SastPositions : s \in sast_only <=> ~ \E p \in correlated : p[2] = s
    /\ \A p, q \in correlated : p[1] = q[1] \/ p[2] = q[2] => p = q

\* Of several findings with one key the earlier ones are served first, and with
\* the earlier partners (unmatched_candidates[0]).
FirstServed ==
  \A p \in correlated :
    /\ \A q \in correlated : _key(dast[p[1]]) = _key(dast[q[1]]) /\ p[1] < q[1] => p[2] < q[2]
    /\ \A d \in dast_only : _key(dast[d]) = _key(dast[p[1]]) => p[1] < d

\* The pairs are a one-to-one matching on keys to which no pair can be added
\* when correlate returns, however the methods are spelled and in whatever order.
Joined == INSTANCE Matching WITH
  Keys <- Key,
  left <- [i \in DastPositions |-> <<Upper[dast[i].method], dast[i].path_template, dast[i].cwe>>],
  right <- [i \in SastPositions |-> <<Upper[sast[i].method], sast[i].path_template, sast[i].cwe>>],
  joined <- correlated,
  closed <- returned
IsMatching == Joined!Spec

------------------------------------------------------------------------------
\* The parts of the inductive invariant.

\* the findings the loop has passed are paired or set aside, and not both
Sorted ==
  /\ \A p \in correlated : p[1] < next /\ p[1] \notin dast_only
  /\ \A d \in dast_only : d < next
  /\ \A d \in 1..(next - 1) : d \in dast_only \/ \E p \in correlated : p[1] = d

\* the pairs have one key, and no finding is in two of them
OneToOne ==
  /\ \A p \in correlated : _key(dast[p[1]]) = _key(sast[p[2]])
  /\ \A p, q \in correlated : p[1] = q[1] \/ p[2] = q[2] => p = q

\* what was set aside had no partner, and matches are never taken back
NoPartner == \A d \in dast_only : Unmatched(d) = {}

\* a partner is the earliest that was left, and stays earlier than those still left
Earliest == \A p \in correlated : \A s \in Unmatched(p[1]) : p[2] < s

\* What the loop of correlate keeps at every step.
IInv ==
  /\ TypeOK /\ Sorted /\ OneToOne /\ NoPartner /\ Earliest /\ FirstServed
  /\ returned => next = Len(dast) + 1 /\ sast_only = SastPositions \ Matched

\* What correlate owes its caller: the invariant of its loop, with the earlier of
\* several findings with one key served first, and no finding lost or reported
\* twice when it returns (correlate, lines 55-80).
Inv == IInv /\ InOnePlace
==============================================================================
