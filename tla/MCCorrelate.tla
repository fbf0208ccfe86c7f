------------------------------ MODULE MCCorrelate ------------------------------
(* Reports of up to three findings of three kinds, two of which differ only in *)
(* how the method is spelled: enough for keys that repeat in either report and *)
(* for more of them in one than in the other.                                  *)
EXTENDS Correlate

CONSTANTS p1, p2, cwe
MCMethods == {"get", "GET"}
MCUpper == [m \in MCMethods |-> "GET"]
MCPaths == {p1, p2}
MCCwes == {cwe}
==============================================================================
