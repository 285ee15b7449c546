----------------------------- MODULE Lifecycle ------------------------------
(***************************************************************************)
(* The life of the processes of one user on one node, from the constructor *)
(* of the library to its destructor: creating, sizing and mapping the      *)
(* three segments of shared memory, waiting for the parameters,            *)
(* initialising the mutexes, patching the functions, calls of the threads  *)
(* through wrapper, trampoline and shared memory, and the way back.        *)
(* Processes may be killed anywhere.  An access to memory that is not      *)
(* there is a fault and ends the process.                                  *)
(*                                                                         *)
(* The mutexes are the C library's: one word, 0 when free, 1 when held, 2  *)
(* when held and perhaps waited for.  A thread that finds the word set     *)
(* stores 2 and sleeps in the kernel; an unlock stores 0 and, only if it   *)
(* found 2, wakes one of the sleepers, which then tries again.             *)
(***************************************************************************)
EXTENDS Integers, FiniteSets

CONSTANTS
    Process,    \* the processes of the user, each started at most once
    Thread,     \* their threads
    ProcessOf,  \* the process of each thread
    Main,       \* the threads that run constructors and destructors
    MaxKill     \* bound: processes killed

ASSUME LifecycleAssumption ==
    /\ ProcessOf \in [Thread -> Process]
    /\ Main \subseteq Thread
    /\ \A p \in Process : \E t \in Main : ProcessOf[t] = p
    /\ \A t, u \in Main : ProcessOf[t] = ProcessOf[u] => t = u
    /\ MaxKill \in Nat

\* /my_mutex_<uid>, /my_dt_<uid>, /my_io_param_<uid>, in the order of opening.
Segment == {"mutex", "dt", "param"}

VARIABLES
    seg,    \* each segment: "none", "empty" before ftruncate(), "sized"
    ready,  \* *p_Param_Mem_Ready
    word,   \* the word of the mutex, one of the two
    st,     \* where the main thread of each process is
    mapped, \* the processes whose mappings are in place
    hook,   \* the code of an intercepted function in each process: "off",
            \* "half" between the stores of a patch, "on"
    tramp,  \* the processes that have trampolines
    pc,     \* where each thread is in a call; "asleep" and "woken" in the
            \* kernel while it waits for the mutex
    fault,  \* how each process failed, "none" if it did not
    killed, \* history: the processes that were killed
    undone, \* history: what they left undone: creators' ftruncate() of a
            \* segment, by its name, or "publish"
    orphan, \* history: since the mutex was initialised last, a thread that
            \* held it or was woken to take it is gone
    lost    \* history: the threads asleep when the mutex was initialised and
            \* not woken since

shared == <<seg, ready>>
proc   == <<st, mapped, hook, tramp>>
past   == <<killed, undone>>
mutex  == <<word, orphan, lost>>
vars   == <<shared, mutex, proc, pc, fault, past>>

-----------------------------------------------------------------------------
Alive(p)  == st[p] \notin {"none", "dead"}
Move(p, l) == st' = [st EXCEPT ![p] = l]
Threads(p) == {t \in Thread : ProcessOf[t] = p}
Asleep     == {t \in Thread : pc[t] = "asleep"}

\* The creator of segment s between shm_open() and ftruncate().
Sizing(s) == CASE s = "mutex" -> "mutex_size"
               [] s = "dt"    -> "dt_size"
               [] s = "param" -> "param_size"

Init ==
    /\ seg = [s \in Segment |-> "none"]
    /\ ready = FALSE
    /\ word = 0
    /\ st = [p \in Process |-> "none"]
    /\ mapped = {}
    /\ hook = [p \in Process |-> "off"]
    /\ tramp = {}
    /\ pc = [t \in Thread |-> "out"]
    /\ fault = [p \in Process |-> "none"]
    /\ killed = {}
    /\ undone = {}
    /\ orphan = FALSE
    /\ lost = {}

\* The end of process p and of its threads; a mutex stays as it is.
End(p) ==
    /\ Move(p, "dead")
    /\ mapped' = mapped \ {p}
    /\ tramp' = tramp \ {p}
    /\ hook' = [hook EXCEPT ![p] = "off"]
    /\ pc' = [t \in Thread |-> IF ProcessOf[t] = p THEN "out" ELSE pc[t]]
    /\ orphan' = (orphan \/ \E t \in Threads(p) : pc[t] \in {"hold", "woken"})
    /\ lost' = lost \ Threads(p)
    /\ UNCHANGED <<shared, word>>

\* SIGBUS, SIGSEGV or an instruction made of two.
Fail(p, f) ==
    /\ End(p)
    /\ fault' = [fault EXCEPT ![p] = f]
    /\ UNCHANGED past

Kill(p) ==
    /\ Alive(p) /\ Cardinality(killed) < MaxKill
    /\ End(p)
    /\ killed' = killed \cup {p}
    /\ undone' = undone \cup {s \in Segment : st[p] = Sizing(s)}
                          \cup ({st[p]} \cap {"publish"})
    /\ UNCHANGED fault

-----------------------------------------------------------------------------
(* The constructor: init, Init_Shared_Mutex.                               *)

Begin(p) ==
    /\ st[p] = "none"
    /\ Move(p, "mutex")
    /\ UNCHANGED <<shared, mutex, mapped, hook, tramp, pc, fault, past>>

\* Where a process goes when a segment is there.
After(s) == CASE s = "mutex" -> "dt"
              [] s = "dt"    -> "data_sleep"
              [] s = "param" -> "wait"

\* shm_open, with O_CREAT | O_EXCL if the segment does not exist.
Open(p, s) ==
    /\ st[p] = s
    /\ \/ /\ seg[s] = "none"
          /\ seg' = [seg EXCEPT ![s] = "empty"]
          /\ Move(p, Sizing(s))
       \/ seg[s] # "none" /\ Move(p, After(s)) /\ UNCHANGED seg
    /\ UNCHANGED <<ready, mutex, mapped, hook, tramp, pc, fault, past>>

\* Mutant: ftruncate() fails, which is reported and ignored.
TruncateFails(p, s) ==
    /\ st[p] = Sizing(s)
    /\ Move(p, IF s = "param" THEN "publish" ELSE After(s))
    /\ UNCHANGED <<shared, mutex, mapped, hook, tramp, pc, fault, past>>

\* ftruncate; who created the parameter segment publishes the parameters.
Truncate(p, s) ==
    /\ st[p] = Sizing(s)
    /\ seg' = [seg EXCEPT ![s] = "sized"]
    /\ Move(p, IF s = "param" THEN "publish" ELSE After(s))
    /\ UNCHANGED <<ready, mutex, mapped, hook, tramp, pc, fault, past>>

\* The first access to /my_dt: the initial values of p_Data_Sleep.
InitDataSleep(p) ==
    /\ st[p] = "data_sleep"
    /\ \/ seg["dt"] = "empty" /\ Fail(p, "bus")
       \/ /\ seg["dt"] = "sized" /\ Move(p, "param")
          /\ UNCHANGED <<shared, mutex, mapped, hook, tramp, pc, fault, past>>

\* Mutant: the parameters are not declared ready.
PublishUnready(p) ==
    /\ st[p] = "publish"
    /\ Move(p, "init")
    /\ UNCHANGED <<shared, mutex, mapped, hook, tramp, pc, fault, past>>

\* Mutant: the functions are patched before the mutexes are in place.
PublishHooked(p) ==
    /\ st[p] = "publish"
    /\ ready' = TRUE
    /\ Move(p, "patch")
    /\ UNCHANGED <<seg, mutex, mapped, hook, tramp, pc, fault, past>>

\* Read_Config, Publish_Parameters.
Publish(p) ==
    /\ st[p] = "publish"
    /\ ready' = TRUE
    /\ Move(p, "init")
    /\ UNCHANGED <<seg, mutex, mapped, hook, tramp, pc, fault, past>>

\* Mutant: *p_Param_Mem_Ready is read once.
WaitNot(p) ==
    /\ st[p] = "wait"
    /\ \/ seg["param"] = "empty" /\ Fail(p, "bus")
       \/ /\ seg["param"] = "sized" /\ Move(p, "init")
          /\ UNCHANGED <<shared, mutex, mapped, hook, tramp, pc, fault, past>>

\* The others wait until *p_Param_Mem_Ready is set, then copy the parameters.
Wait(p) ==
    /\ st[p] = "wait"
    /\ \/ seg["param"] = "empty" /\ Fail(p, "bus")
       \/ /\ seg["param"] = "sized" /\ ready /\ Move(p, "init")
          /\ UNCHANGED <<shared, mutex, mapped, hook, tramp, pc, fault, past>>

\* pthread_mutex_init, also of a mutex others use; the first access to
\* /my_mutex.  It stores zeros and wakes nobody.  Shm_Ready is set.
InitMutex(p) ==
    /\ st[p] = "init"
    /\ \/ seg["mutex"] = "empty" /\ Fail(p, "bus")
       \/ /\ seg["mutex"] = "sized"
          /\ word' = 0 /\ orphan' = FALSE /\ lost' = Asleep
          /\ mapped' = mapped \cup {p}
          /\ Move(p, "patch")
          /\ UNCHANGED <<shared, hook, tramp, pc, fault, past>>

\* install_hook: the trampolines are there before the first byte of a patch,
\* which is two stores.
Patch(p) ==
    /\ st[p] = "patch"
    /\ tramp' = tramp \cup {p}
    /\ \/ hook[p] = "off"  /\ hook' = [hook EXCEPT ![p] = "half"] /\ UNCHANGED st
       \/ hook[p] = "half" /\ hook' = [hook EXCEPT ![p] = "on"] /\ Move(p, "run")
    /\ UNCHANGED <<shared, mutex, mapped, pc, fault, past>>

-----------------------------------------------------------------------------
(* A call of an intercepted function by thread t.                          *)

Goto(t, l) == pc' = [pc EXCEPT ![t] = l]

\* Main threads make calls between constructor and finalize and, from later
\* destructors, after it; other threads make them any time, since exit() does
\* not stop them and another library may have started them before.  Only a
\* call that meets a patch is a step.
Call(t) ==
    LET p == ProcessOf[t]
    IN  /\ Alive(p) /\ pc[t] = "out"
        /\ t \in Main => st[p] \in {"run", "end"}
        /\ \/ hook[p] = "half" /\ Fail(p, "torn")
           \/ hook[p] = "on" /\ Goto(t, "wrapper")
              /\ UNCHANGED <<shared, mutex, proc, fault, past>>

\* The wrapper calls the original function through the trampoline.
Real(t) ==
    LET p == ProcessOf[t]
    IN  /\ pc[t] = "wrapper"
        /\ \/ p \notin tramp /\ Fail(p, "segv")
           \/ p \in tramp /\ Goto(t, "post")
              /\ UNCHANGED <<shared, mutex, proc, fault, past>>

\* It looks at the time stamp and takes the mutex if it is free; after a sleep
\* it cannot know whether others wait.
Acquire(t) ==
    /\ pc[t] \in {"post", "woken"} /\ ProcessOf[t] \in mapped
    /\ word = 0
    /\ word' = IF pc[t] = "post" THEN 1 ELSE 2
    /\ Goto(t, "hold")
    /\ UNCHANGED <<shared, proc, orphan, lost, fault, past>>

\* Else it marks the mutex and sleeps.
Sleep(t) ==
    /\ pc[t] \in {"post", "woken"} /\ ProcessOf[t] \in mapped
    /\ word # 0
    /\ word' = 2
    /\ Goto(t, "asleep")
    /\ UNCHANGED <<shared, proc, orphan, lost, fault, past>>

\* The time stamp and the mutexes are not there any more.
Unmapped(t) ==
    /\ pc[t] \in {"post", "woken", "hold"} /\ ProcessOf[t] \notin mapped
    /\ Fail(ProcessOf[t], "segv")

\* Mutant: the call returns without unlocking.
UnlockNot(t) ==
    /\ pc[t] = "hold" /\ ProcessOf[t] \in mapped
    /\ Goto(t, "out")
    /\ UNCHANGED <<shared, mutex, proc, fault, past>>

\* It counts, sleeps and unlocks, and wakes a sleeper if the mutex is marked.
Unlock(t) ==
    /\ pc[t] = "hold" /\ ProcessOf[t] \in mapped
    /\ word' = 0
    /\ \/ /\ word = 2
          /\ \E u \in Asleep :
                /\ pc' = [pc EXCEPT ![t] = "out", ![u] = "woken"]
                /\ lost' = lost \ {u}
       \/ (word # 2 \/ Asleep = {}) /\ Goto(t, "out") /\ UNCHANGED lost
    /\ UNCHANGED <<shared, proc, orphan, fault, past>>

-----------------------------------------------------------------------------
(* The destructor: finalize.                                               *)

Exit(p) ==
    /\ st[p] = "run"
    /\ \A t \in Main \cap Threads(p) : pc[t] = "out"
    /\ Move(p, "close")
    /\ UNCHANGED <<shared, mutex, mapped, hook, tramp, pc, fault, past>>

\* Mutant: the patches stay.
CloseOnly(p) ==
    /\ st[p] = "close"
    /\ mapped' = mapped \ {p}
    /\ Move(p, "end")
    /\ UNCHANGED <<shared, mutex, hook, tramp, pc, fault, past>>

\* Close_Shared_Mutex; Shm_Ready stays set.
Close(p) ==
    /\ st[p] = "close"
    /\ mapped' = mapped \ {p}
    /\ Move(p, "unpatch")
    /\ UNCHANGED <<shared, mutex, hook, tramp, pc, fault, past>>

\* uninstall_hook: the five bytes are copied back, then the trampolines are
\* unmapped.
Unpatch(p) ==
    /\ st[p] = "unpatch"
    /\ \/ hook[p] = "on"   /\ hook' = [hook EXCEPT ![p] = "half"] /\ UNCHANGED st
       \/ hook[p] = "half" /\ hook' = [hook EXCEPT ![p] = "off"]
                           /\ Move(p, "free")
    /\ UNCHANGED <<shared, mutex, mapped, tramp, pc, fault, past>>

Free(p) ==
    /\ st[p] = "free"
    /\ tramp' = tramp \ {p}
    /\ Move(p, "end")
    /\ UNCHANGED <<shared, mutex, mapped, hook, pc, fault, past>>

\* Later destructors have run; the process ends.
Quit(p) ==
    /\ st[p] = "end"
    /\ \A t \in Main \cap Threads(p) : pc[t] = "out"
    /\ End(p)
    /\ UNCHANGED <<past, fault>>

-----------------------------------------------------------------------------
Step(p) ==
    \/ \E s \in Segment : Open(p, s) \/ Truncate(p, s)
    \/ InitDataSleep(p) \/ Publish(p) \/ Wait(p) \/ InitMutex(p) \/ Patch(p)
    \/ Close(p) \/ Unpatch(p) \/ Free(p) \/ Quit(p)

InCall(t) == Real(t) \/ Acquire(t) \/ Sleep(t) \/ Unmapped(t) \/ Unlock(t)

Next ==
    \/ \E p \in Process : Begin(p) \/ Kill(p) \/ Exit(p) \/ Step(p)
    \/ \E t \in Thread : Call(t) \/ InCall(t)

Spec == Init /\ [][Next]_vars

\* An unlock wakes t.
Woken(t) == \E u \in Thread : Unlock(u) /\ pc[t] = "asleep" /\ pc'[t] = "woken"

\* Every process and every thread is scheduled.  The kernel wakes the sleepers
\* of a word in turn, and a thread that finds the mutex free again and again
\* obtains it in the end.
FairSpec ==
    /\ Spec
    /\ \A p \in Process : WF_vars(Step(p))
    /\ \A t \in Thread :
          WF_vars(InCall(t)) /\ SF_vars(Acquire(t)) /\ SF_vars(Woken(t))

-----------------------------------------------------------------------------
(* Properties.                                                             *)

\* The types; a process has trampolines while a byte of a patch is left, and
\* after finalize it has no patch, no trampoline and no segment.
TypeOK ==
    /\ ready \in BOOLEAN /\ word \in 0 .. 2
    /\ seg \in [Segment -> {"none", "empty", "sized"}]
    /\ st \in [Process -> {"none", "mutex", "mutex_size", "dt", "dt_size",
                           "data_sleep", "param", "param_size", "publish",
                           "wait", "init", "patch", "run", "close", "unpatch",
                           "free", "end", "dead"}]
    /\ mapped \subseteq Process /\ tramp \subseteq Process
    /\ hook \in [Process -> {"off", "half", "on"}]
    /\ pc \in [Thread -> {"out", "wrapper", "post", "asleep", "woken", "hold"}]
    /\ fault \in [Process -> {"none", "bus", "segv", "torn"}]
    /\ killed \subseteq Process /\ undone \subseteq Segment \cup {"publish"}
    /\ orphan \in BOOLEAN /\ lost \subseteq Thread
    /\ \A p \in Process :
          /\ hook[p] # "off" => p \in tramp
          /\ st[p] \in {"none", "end", "dead"} =>
                hook[p] = "off" /\ p \notin tramp \cup mapped

\* A process that intercepts calls has found all the memory it uses: every
\* segment has its size and the parameters are published, whoever created what
\* (Init_Shared_Mutex).
InterceptsWhenReady ==
    \A p \in Process :
        hook[p] # "off" => ready /\ \A s \in Segment : seg[s] = "sized"

\* A process is hit by SIGBUS in its constructor only if, at that moment, another
\* one stands between creating a segment and sizing it, or was killed there
\* (Init_Shared_Mutex: shm_open, ftruncate and first access of each segment).
BusFromCreator ==
    [][\A p \in Process :
          fault'[p] = "bus" /\ fault[p] # "bus" =>
          \E s \in Segment :
             \/ s \in undone
             \/ \E q \in Process \ {p} : st[q] = Sizing(s)]_vars

\* Every process that starts comes to run, or dies, unless the one that created
\* the parameters was killed before it published them: then all others wait for
\* ever (Init_Shared_Mutex).
StartEnds ==
    \A p \in Process :
        (st[p] = "mutex") ~> (st[p] \in {"run", "dead"} \/ "publish" \in undone)

\* A process with one thread never faults in a call, also not in a destructor
\* that runs after finalize (the patches are removed before it returns).
SingleThreadSafe ==
    \A p \in Process :
        Cardinality(Threads(p)) = 1 => fault[p] \notin {"segv", "torn"}

\* In a process with several threads memory is missing only once finalize has
\* begun: hooks are installed after everything else is in place.
SegvOnlyAtExit ==
    [][\A p \in Process :
          fault'[p] = "segv" /\ fault[p] # "segv"
          => st[p] \in {"unpatch", "free", "end"}]_vars

\* A thread that waits for the mutex can be woken: somebody will unlock it while
\* it is marked, or is awake to take it, unless a thread that held it or was to
\* take it died, or the mutex was initialised by a starting process while the
\* thread slept (init, Update_open_Count).
SleepersHaveWaker ==
    /\ word # 0 => orphan \/ \E u \in Thread : pc[u] = "hold"
    /\ \A t \in Asleep :
          \/ orphan \/ t \in lost
          \/ word = 2 \/ \E u \in Thread : pc[u] = "woken"

\* So these are the only ways in which a call may stay blocked for ever.
BlockedByTheDead ==
    \A t \in Thread :
        (pc[t] = "post") ~> (pc[t] \in {"out", "hold"} \/ orphan \/ t \in lost)

=============================================================================
