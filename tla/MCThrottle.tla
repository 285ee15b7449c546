----------------------------- MODULE MCThrottle -----------------------------
(* Values of the constants of Throttle for TLC.                            *)
EXTENDS Throttle, TLC

CONSTANTS p1, p2, t1, t2

\* One thread in each of two processes; two threads in one process; one thread.
TwoProcesses == t1 :> p1 @@ t2 :> p2
OneProcess   == t1 :> p1 @@ t2 :> p1
OneThread    == t1 :> p1

=============================================================================
