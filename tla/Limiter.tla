------------------------------ MODULE Limiter -------------------------------
(***************************************************************************)
(* What the throttle promises a user whose processes share one node.  The  *)
(* calls on a server are numbered one after the other, and none twice; a   *)
(* call may be delayed, once, to a time of its own; delays of one kind are *)
(* served one at a time and none is cut short; and both are counted as     *)
(* they happen.  No mutex, ring or register is needed to say so.           *)
(***************************************************************************)
EXTENDS Integers

CONSTANTS Thread, Kind, FS

VARIABLES
    time,
    calls,   \* calls numbered, for each kind and server
    late,    \* delays served, likewise
    phase,   \* where the call of each thread is: "out": not numbered yet, or
             \* returned; "in"; "due": to be delayed; "delayed"; "served"
    ticket,  \* its kind, server and number, << >> while it is out
    due       \* the time to which it is delayed

vars == <<time, calls, late, phase, ticket, due>>

Kinds(t)   == ticket[t][1]
Servers(t) == ticket[t][2]

Move(t, from, to) == phase[t] = from /\ phase' = [phase EXCEPT ![t] = to]

Init ==
    /\ time \in Nat
    /\ calls = [k \in Kind |-> [f \in FS |-> 0]]
    /\ late = [k \in Kind |-> [f \in FS |-> 0]]
    /\ phase = [t \in Thread |-> "out"]
    /\ ticket = [t \in Thread |-> << >>]
    /\ due = [t \in Thread |-> 0]

\* The call of thread t gets the next number.
Take(t, k, f) ==
    /\ Move(t, "out", "in")
    /\ ticket' = [ticket EXCEPT ![t] = <<k, f, calls[k][f]>>]
    /\ calls' = [calls EXCEPT ![k][f] = @ + 1]
    /\ UNCHANGED <<time, late, due>>

\* It is to be delayed to some time.
Decide(t) ==
    /\ Move(t, "in", "due")
    /\ due'[t] \in Nat
    /\ due' = [due EXCEPT ![t] = due'[t]]
    /\ UNCHANGED <<time, calls, late, ticket>>

\* The delay begins when no other call of its kind is being delayed, ...
Delay(t) ==
    /\ Move(t, "due", "delayed")
    /\ \A u \in Thread : phase[u] = "delayed" => Kinds(u) # Kinds(t)
    /\ UNCHANGED <<time, calls, late, ticket, due>>

\* ... and ends, and is counted, when its time has come.
Serve(t) ==
    /\ Move(t, "delayed", "served")
    /\ time >= due[t]
    /\ late' = [late EXCEPT ![Kinds(t)][Servers(t)] = @ + 1]
    /\ UNCHANGED <<time, calls, ticket, due>>

\* The call returns, unless a delay is outstanding.
Return(t) ==
    /\ Move(t, "in", "out") \/ Move(t, "served", "out")
    /\ ticket' = [ticket EXCEPT ![t] = << >>]
    /\ due' = [due EXCEPT ![t] = 0]
    /\ UNCHANGED <<time, calls, late>>

Tick == time' = time + 1 /\ UNCHANGED <<calls, late, phase, ticket, due>>

Next ==
    \/ \E t \in Thread : \/ \E k \in Kind, f \in FS : Take(t, k, f)
                         \/ Decide(t) \/ Delay(t) \/ Serve(t) \/ Return(t)
    \/ Tick

Spec == Init /\ [][Next]_vars

=============================================================================
