-------------------------------- MODULE MCSeed --------------------------------
(* Two products, two mechanics, one or two customers and a mechanic who    *)
(* signs up; three starts, each of which may fail or be killed anywhere.   *)
EXTENDS Seed

CONSTANTS Jhon, James, Victim, Latecomer, Stranger

MCCatalogue == <<"Seat", "Wheel">>
MCMechanics == <<Jhon, James>>
MCEarly == <<Victim>>
MCCustomers == {Victim, Latecomer}
MCVisitors == {Stranger}
MCCodeOf == [m \in {Jhon, James} |-> IF m = Jhon THEN "TRAC_JHN" ELSE "TRAC_JME"]
==============================================================================
