----------------------------- MODULE ScanContract -----------------------------
(***************************************************************************)
(* What engine.scan promises its callers (the CLI and the benchmark        *)
(* harness), without a word about checks, crawling or identities.          *)
(***************************************************************************)
EXTENDS Naturals

VARIABLES
  phase,   \* closed: nothing validated yet; open; returned or raised
  sent,    \* how many requests have left
  found,   \* fingerprints of the findings collected
  result   \* fingerprints of the findings handed to the caller

vars == <<phase, sent, found, result>>

Init == phase = "closed" /\ sent = 0 /\ found = {} /\ result = {}

\* the arguments are refused before anything is sent, or the scan opens
Decide ==
  /\ phase = "closed" /\ phase' \in {"open", "raised"}
  /\ UNCHANGED <<sent, found, result>>

\* an open scan sends at most one request at a time and takes nothing back
Progress ==
  /\ phase = "open" /\ phase' = "open"
  /\ sent' \in {sent, sent + 1} /\ found \subseteq found'
  /\ UNCHANGED result

\* an exception: no findings reach the caller
Raise ==
  /\ phase = "open" /\ phase' = "raised"
  /\ sent' \in {sent, sent + 1}
  /\ UNCHANGED <<found, result>>

\* everything found, and nothing else, is returned
Close ==
  /\ phase = "open" /\ phase' = "returned"
  /\ result' = found
  /\ UNCHANGED <<sent, found>>

Next == Decide \/ Progress \/ Raise \/ Close

Spec == Init /\ [][Next]_vars
==============================================================================
