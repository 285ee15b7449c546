----------------------------- MODULE WorkingDir -----------------------------
(***************************************************************************)
(* What a process with one thread may expect of its working directory      *)
(* while its calls are intercepted: getcwd() tells the directory it is in, *)
(* and a call with a relative name is accounted to the file server of that *)
(* directory.  Nothing is promised to a process with more threads.         *)
(***************************************************************************)
EXTENDS Integers

CONSTANTS
    Process,
    ServerOf, \* the index of the file server of each directory, or -1
    None      \* no directory

VARIABLES
    cwd,     \* the working directory of each process, None before its start
    single,  \* the processes with one thread
    tracked, \* the processes that knew the servers from their start
    told,    \* the last answer of getcwd()
    counted  \* the server the last call with a relative name was accounted to

vars == <<cwd, single, tracked, told, counted>>

Init == cwd = [p \in Process |-> None] /\ single = {}

Start(p) == cwd[p] = None /\ cwd'[p] # None

\* A second thread, and what happens then.
Threads(p) == p \notin single'

\* Steps of a process with one thread: chdir(), getcwd(), a call with a relative
\* name, nothing.  One that was started while the tool was off may not account
\* for the call.
Same(f, p)  == f'[p] = f[p]
Chdir(p)    == Same(told, p) /\ Same(counted, p)
Getcwd(p)   == Same(cwd, p) /\ told'[p] = cwd[p] /\ Same(counted, p)
Relative(p) ==
    /\ Same(cwd, p) /\ Same(told, p)
    /\ counted'[p] = ServerOf[cwd[p]] \/ (p \notin tracked /\ counted'[p] = -1)

Single(p) ==
    /\ p \in single /\ (p \in tracked <=> p \in tracked')
    /\ Chdir(p) \/ Getcwd(p) \/ Relative(p)

Next == \A p \in Process : Start(p) \/ Threads(p) \/ Single(p)

Spec == Init /\ [][Next]_vars

=============================================================================
