------------------------------ MODULE MCReport ------------------------------
(* Values of the constants of Report for TLC.                              *)
EXTENDS Report, TLC

CONSTANTS a, b, c

\* The server alone, with one client, with two.
Jobs == { <<a>>, <<a, b>>, <<a, b, c>> }

\* Fewer calls and reports are enough where there are more clients.
Calls == [l \in Lists |-> IF Len(l) < 3 THEN 2 ELSE 1]
Halves == [l \in Lists |-> IF Len(l) < 3 THEN 4 ELSE 2]
Periods == [l \in Lists |-> 4 - Len(l)]

\* Every name has the same hash.
Collide == [k \in Key |-> 1]

=============================================================================
