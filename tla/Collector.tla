----------------------------- MODULE Collector ------------------------------
(***************************************************************************)
(* What the report server promises: the total it publishes is the sum of   *)
(* one number per node, and the number of a node it has heard from is one  *)
(* the node's own counter had, no older than the number it replaces.       *)
(***************************************************************************)
EXTENDS Integers, FiniteSetsExt

CONSTANTS Node

VARIABLES
    calls,  \* the counter of each node
    heard,  \* the nodes whose number is known
    seen,   \* the number kept for each node, arbitrary for one not heard from
    total   \* the sum last published

vars == <<calls, heard, seen, total>>

SumOf(f) == MapThenSumSet(LAMBDA n : f[n], DOMAIN f)

Init ==
    /\ calls = [n \in Node |-> 0]
    /\ heard = {}
    /\ seen \in [Node -> Int]
    /\ total = 0

\* A program of node n opens a file.
Call(n) ==
    /\ calls' = [calls EXCEPT ![n] = @ + 1]
    /\ UNCHANGED <<heard, seen, total>>

\* The numbers of some nodes become newer and may be summed.
Collect ==
    /\ heard \subseteq heard'
    /\ DOMAIN seen' = Node
    /\ \A n \in Node :
        \/ seen'[n] = seen[n] /\ (n \in heard' => n \in heard)
        \/ /\ n \in heard'
           /\ seen'[n] <= calls[n]
           /\ n \in heard => seen'[n] >= seen[n]
    /\ total' \in {total, SumOf(seen')}
    /\ UNCHANGED calls

Next == Collect \/ \E n \in Node : Call(n)

Spec == Init /\ [][Next]_vars

=============================================================================
