------------------------------ MODULE MCParams ------------------------------
(* Values of the constants of Params for TLC.                              *)
EXTENDS Params, TLC

CONSTANTS p1, p2, t1, t2, q1, q2, v1, v2

\* One thread in each of two processes; two threads in one process.
TwoProcesses == t1 :> p1 @@ t2 :> p2
OneProcess   == t1 :> p1 @@ t2 :> p1

\* The two processes, each with its thread, are alike, and so are the runs of
\* set_io_param.
Stay == p1 :> p1 @@ p2 :> p2 @@ t1 :> t1 @@ t2 :> t2
Swap == p1 :> p2 @@ p2 :> p1 @@ t1 :> t2 @@ t2 :> t1
Alike == {s @@ q : s \in {Stay, Swap}, q \in Permutations({q1, q2})}

\* The configuration file gives every server the same settings.
AllV1 == [s \in Server |-> v1]

=============================================================================
