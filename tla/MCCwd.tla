-------------------------------- MODULE MCCwd -------------------------------
(* Values of the constants of Cwd for TLC: a program that may create a second *)
(* thread, and a child that either thread may fork.                          *)
EXTENDS Cwd, TLC

CONSTANTS p1, c1, m1, w1, n1, work, tmp

MCProcessOf == m1 :> p1 @@ w1 :> p1 @@ n1 :> c1
MCMain      == p1 :> m1 @@ c1 :> n1
MCServerOf  == work :> 1 @@ tmp :> -1

=============================================================================
