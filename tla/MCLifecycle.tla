---------------------------- MODULE MCLifecycle -----------------------------
(* Values of the constants of Lifecycle for TLC.                           *)
EXTENDS Lifecycle, TLC

CONSTANTS p1, p2, m1, m2, w1, w2

\* One process has two more threads.
Threading == m1 :> p1 @@ m2 :> p2 @@ w1 :> p1 @@ w2 :> p1

=============================================================================
