------------------------------- MODULE RiskGate -------------------------------
(***************************************************************************)
(* src/heimdall/risk.py: which findings of a report still count after the  *)
(* accepted-risk register and a baseline, and whether they fail the build. *)
(* The order of a report is not looked at, so a report is the set of its   *)
(* fingerprints; a severity belongs to a fingerprint.                      *)
(***************************************************************************)
EXTENDS Integers

CONSTANTS
  Fingerprints,
  rank,        \* Severity.rank of the finding with this fingerprint
  threshold,   \* the rank --fail-on names
  NoEntry      \* a fingerprint the register does not list

ASSUME RiskAssumption ==
  /\ rank \in [Fingerprints -> Nat]
  /\ threshold \in Nat
  /\ NoEntry \notin Nat

\* The register, as load_register checks it: at most one entry, with an expiry
\* date, for a fingerprint.
Register == [Fingerprints -> Nat \cup {NoEntry}]

\* the last day counts
is_active(expiry, today) == expiry >= today

Accepted(register, today) ==
  {f \in Fingerprints : register[f] # NoEntry /\ is_active(register[f], today)}

\* mutant: an entry that expired suppresses, too
kept_Listed(report, register, today) == {f \in report : register[f] = NoEntry}
\* partition: what is kept
kept(report, register, today) == report \ Accepted(register, today)

\* mutant: a baseline replaces the register
apply_filters_Either(report, register, today, prior) ==
  IF prior # {} THEN report \ prior ELSE kept(report, register, today)
\* apply_filters: the register first, then the baseline
apply_filters(report, register, today, prior) == kept(report, register, today) \ prior

\* mutant: above the threshold, not at or above
fail_on_Above(report) == \E f \in report : rank[f] > threshold
fail_on(report) == \E f \in report : rank[f] >= threshold

\* what --fail-on looks at
Grave == {f \in Fingerprints : rank[f] >= threshold}
==============================================================================
