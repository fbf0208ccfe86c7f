------------------------------- MODULE MCCIGate -------------------------------
(* One finding at the threshold and one below it.  The gate decides about every *)
(* fingerprint by itself, so two tell all the cases apart.                      *)
EXTENDS CIGate

CONSTANTS grave, minor
MCFingerprints == {grave, minor}
MCRank == [f \in MCFingerprints |-> IF f = minor THEN 1 ELSE 3]
==============================================================================
