------------------------------ MODULE Throttle ------------------------------
(***************************************************************************)
(* The throttle of the preloaded library: what Update_open_Count and       *)
(* post_lxstat do after an intercepted open() or stat() on a tracked file  *)
(* server.  The two functions have one shape and are modelled once, with   *)
(* the kind of call as a parameter; each kind has its own shared mutex.    *)
(*                                                                         *)
(* Shared by every process of the user on the node: the two mutexes, the   *)
(* call counters, the counters of delayed calls, the rings of time stamps  *)
(* and the published parameters.  Private to a process: its copy of the    *)
(* parameters and the static variable tim1.  Private to a thread: the      *)
(* registers of the call it is in.                                         *)
(*                                                                         *)
(* Time is a global clock in ticks.  A frequency F is represented by its   *)
(* window N_SAMPLE_FOR_AVG / F, in ticks.  Update_Parameters is one step   *)
(* here; module Params takes it apart, and with it the switch and the test  *)
(* of the path: here the tool is on and every call is on a tracked server.  *)
(***************************************************************************)
EXTENDS Integers, FiniteSets

CONSTANTS
    Process,            \* the user's processes on one node
    Thread,             \* their threads
    ProcessOf,          \* the process of each thread
    Kind,               \* the kinds of call, each with a mutex: open, stat
    FS,                 \* the tracked file servers
    MAX_REC,            \* slots in a ring of time stamps
    N_SAMPLE_FOR_AVG,   \* how many calls back the rate is measured
    Window,             \* the windows an operator may publish
    Threshold,          \* a call that took longer is treated as too slow
    QuietStart,         \* TRUE: no process starts while a mutex is in use
    MaxCall,            \* bound: calls begun
    MaxTime,            \* bound: the clock, but for threads still asleep
    MaxPublish,         \* bound: runs of set_io_param
    MaxStart            \* bound: process starts

ASSUME ThrottleAssumption ==
    /\ ProcessOf \in [Thread -> Process]
    /\ MAX_REC \in Nat \ {0}
    /\ N_SAMPLE_FOR_AVG \in 1 .. MAX_REC - 1
    /\ Kind # {} /\ FS # {}
    /\ Window \subseteq Nat \ {0}
    /\ Threshold \in Nat
    /\ QuietStart \in BOOLEAN
    /\ {MaxCall, MaxTime, MaxPublish, MaxStart} \subseteq Nat

VARIABLES
    now,        \* the clock
    locked,     \* the word of each shared mutex; it does not know its owner
    count,      \* *p_open_Count[], *p_lxstat_Count[]
    delayed,    \* *p_open_Delayed_Count[], *p_lxstat_Delayed_Count[]
    tlist,      \* p_T_list_open[], p_T_list_lxstat[]: rings of time stamps
    shared,     \* the published parameters
    param,      \* each process's copy of them
    tim1,       \* each process's static variable tim1
    running,    \* the processes whose constructor has run
    starts,     \* how many constructors have run
    pc,         \* where each thread is
    call,       \* the registers of each thread's call
    begun,      \* how many calls have begun
    done        \* history: the counted calls that have returned

shm   == <<count, delayed, tlist>>
procs == <<param, tim1>>
life  == <<running, starts>>
vars  == <<now, locked, shm, shared, procs, life, pc, call, begun, done>>

-----------------------------------------------------------------------------
Slot(n) == n % MAX_REC

Limits == [Kind -> [FS -> Window]]

\* The registers of a call.  n is nCall_New when it holds a call number and
\* reg when it holds a count of delayed calls; limit and due are history: the
\* window published when the call was counted, the time it must sleep to.
NoCall(k, f) == [kind |-> k, fs |-> f, start |-> 0, slow |-> FALSE, n |-> 0,
                 reg |-> 0, dT |-> 0, wake |-> 0, limit |-> 0, due |-> 0]

\* Points of Update_open_Count and post_lxstat where a thread holds the mutex.
InCount == {"counting"}
InSleep == {"asleep", "unsleep"}
Inside  == InCount \cup InSleep

Proc(t) == ProcessOf[t]
K(t)    == call[t].kind
F(t)    == call[t].fs

Goto(t, l) == pc' = [pc EXCEPT ![t] = l]

Init ==
    /\ now = 1
    /\ locked = [k \in Kind |-> FALSE]
    /\ count = [k \in Kind |-> [f \in FS |-> 0]]
    /\ delayed = [k \in Kind |-> [f \in FS |-> 0]]
    /\ tlist = [k \in Kind |-> [f \in FS |-> [s \in 0 .. MAX_REC - 1 |-> 0]]]
    /\ \E w \in Limits :
          /\ shared = [stamp |-> 1, window |-> w]
          /\ param = [p \in Process |-> [stamp |-> 0, window |-> w]]
    /\ tim1 = [p \in Process |-> 0]
    /\ running = {}
    /\ starts = 0
    /\ pc = [t \in Thread |-> "idle"]
    /\ call = [t \in Thread |->
                 NoCall(CHOOSE k \in Kind : TRUE, CHOOSE f \in FS : TRUE)]
    /\ begun = 0
    /\ done = [k \in Kind |-> [f \in FS |-> {}]]

-----------------------------------------------------------------------------
(* Parameters.                                                             *)

\* set_io_param server_idx t_open max_open_freq t_stat max_stat_freq: the
\* limits of one server.
SetIoParam(f, w) ==
    /\ shared.stamp <= MaxPublish
    /\ shared' = [stamp |-> shared.stamp + 1,
                  window |-> [k \in Kind |->
                                [shared.window[k] EXCEPT ![f] = w[k]]]]
    /\ UNCHANGED <<now, locked, shm, procs, life, pc, call, begun, done>>

-----------------------------------------------------------------------------
(* Processes.                                                              *)

\* A start is quiet when no thread of the user is at or inside a mutex.
Quiet == \A t \in Thread : pc[t] \notin Inside \cup {"lock", "sleeplock"}

\* Mutant: every process clears the segment of the counters as it starts.
StartClearing(p) ==
    /\ starts < MaxStart
    /\ p \notin running
    /\ QuietStart => Quiet
    /\ running' = running \cup {p}
    /\ starts' = starts + 1
    /\ param' = [param EXCEPT ![p] = shared]
    /\ locked' = [k \in Kind |-> FALSE]
    /\ count' = [k \in Kind |-> [f \in FS |-> 0]]
    /\ UNCHANGED <<now, delayed, tlist, shared, tim1, pc, call, begun, done>>

\* init(), on segments that exist: Init_Shared_Mutex copies the parameters
\* and both shared mutexes are initialised again, whoever holds them.
Start(p) ==
    /\ starts < MaxStart
    /\ p \notin running
    /\ QuietStart => Quiet
    /\ running' = running \cup {p}
    /\ starts' = starts + 1
    /\ param' = [param EXCEPT ![p] = shared]
    /\ locked' = [k \in Kind |-> FALSE]
    /\ UNCHANGED <<now, shm, shared, tim1, pc, call, begun, done>>

\* The process ends; none of its threads is inside the library.
Exit(p) ==
    /\ p \in running
    /\ \A t \in Thread : Proc(t) = p => pc[t] = "idle"
    /\ running' = running \ {p}
    /\ UNCHANGED <<now, locked, shm, shared, procs, starts, pc, call, begun,
                   done>>

-----------------------------------------------------------------------------
(* One intercepted call of thread t.                                       *)

\* GetTime(0), pre_lxstat: the time stamp before the real call.
Begin(t, k, f) ==
    /\ pc[t] = "idle"
    /\ Proc(t) \in running
    /\ begun < MaxCall
    /\ begun' = begun + 1
    /\ call' = [call EXCEPT ![t] = [NoCall(k, f) EXCEPT !.start = now]]
    /\ Goto(t, "called")
    /\ UNCHANGED <<now, locked, shm, shared, procs, life, done>>

\* The real call has returned: when the published stamp is not the process's
\* own, Update_Parameters copies the stamp and the limits.
Post(t) ==
    /\ pc[t] = "called"
    /\ param' = [param EXCEPT ![Proc(t)] =
                   IF @.stamp # shared.stamp THEN shared ELSE @]
    /\ call' = [call EXCEPT ![t].limit = shared.window[K(t)][F(t)]]
    /\ Goto(t, "lock")
    /\ UNCHANGED <<now, locked, shm, shared, tim1, life, begun, done>>

\* Mutant: the counter is read without the mutex.
CountUnlocked(t) ==
    /\ pc[t] = "lock"
    /\ call' = [call EXCEPT ![t].n = count[K(t)][F(t)]]
    /\ Goto(t, "counting")
    /\ UNCHANGED <<now, locked, shm, shared, procs, life, begun, done>>

\* Lock, and read the counter.
Count(t) ==
    /\ pc[t] = "lock"
    /\ ~locked[K(t)]
    /\ locked' = [locked EXCEPT ![K(t)] = TRUE]
    /\ call' = [call EXCEPT ![t].n = count[K(t)][F(t)]]
    /\ Goto(t, "counting")
    /\ UNCHANGED <<now, shm, shared, procs, life, begun, done>>

\* Mutant: the counter is left as it was.
CountedUnstored(t) ==
    /\ pc[t] = "counting"
    /\ locked' = [locked EXCEPT ![K(t)] = FALSE]
    /\ Goto(t, "stamp")
    /\ UNCHANGED <<now, shm, shared, procs, life, call, begun, done>>

\* Store the counter, and unlock: the word becomes 0 whoever set it.
Counted(t) ==
    /\ pc[t] = "counting"
    /\ count' = [count EXCEPT ![K(t)][F(t)] = call[t].n + 1]
    /\ locked' = [locked EXCEPT ![K(t)] = FALSE]
    /\ Goto(t, "stamp")
    /\ UNCHANGED <<now, delayed, tlist, shared, procs, life, call, begun, done>>

\* Note whether the call, with its wait for the mutex, took longer than the
\* threshold, and write the time into its slot.
Stamp(t) ==
    /\ pc[t] = "stamp"
    /\ call' = [call EXCEPT ![t].slow = now - call[t].start > Threshold]
    /\ tlist' = [tlist EXCEPT ![K(t)][F(t)][Slot(call[t].n)] = now]
    /\ Goto(t, "decide")
    /\ UNCHANGED <<now, locked, count, delayed, shared, procs, life, begun,
                   done>>

\* Mutant: the sign of the earlier stamp is lost.
TimeToSleepAdded(w, ring, n) ==
    w - (ring[Slot(n)] + ring[Slot(n - N_SAMPLE_FOR_AVG)])

\* How long the call at slots cur and prev must sleep: the window minus the
\* time between the two stamps.
TimeToSleep(w, ring, n) ==
    w - (ring[Slot(n)] - ring[Slot(n - N_SAMPLE_FOR_AVG)])

\* The call returns to the application; a counted call enters the history
\* with the time stamped last for it.
Return(t, at) ==
    /\ Goto(t, "idle")
    /\ call' = [call EXCEPT ![t] = NoCall(K(t), F(t))]
    /\ done' = [done EXCEPT ![K(t)][F(t)] =
                  @ \cup {[n |-> call[t].n, at |-> at,
                           limit |-> call[t].limit, due |-> call[t].due]}]

\* The first calls are never delayed, nor is one that is neither slow nor
\* early with respect to the call N_SAMPLE_FOR_AVG before it.
Pass(t) ==
    LET ring == tlist[K(t)][F(t)]
    IN  /\ pc[t] = "decide"
        /\ \/ call[t].n <= N_SAMPLE_FOR_AVG
           \/ /\ ~call[t].slow
              /\ TimeToSleep(param[Proc(t)].window[K(t)][F(t)], ring,
                             call[t].n) <= 0
        /\ Return(t, ring[Slot(call[t].n)])
        /\ UNCHANGED <<now, locked, shm, shared, procs, life, begun>>

\* Mutant: a call that is slow but not early leaves tim1 as it was.
DelayUnset(t) ==
    LET ring == tlist[K(t)][F(t)]
        dT == TimeToSleep(param[Proc(t)].window[K(t)][F(t)], ring, call[t].n)
    IN  /\ pc[t] = "decide"
        /\ call[t].n > N_SAMPLE_FOR_AVG
        /\ call[t].slow \/ dT > 0
        /\ tim1' = [tim1 EXCEPT ![Proc(t)] = IF dT > 0 THEN dT ELSE @]
        /\ call' = [call EXCEPT ![t].dT = dT,
                                ![t].due = ring[Slot(call[t].n)] + dT]
        /\ Goto(t, "sleeplock")
        /\ UNCHANGED <<now, locked, shm, shared, param, life, begun, done>>

\* A slow or early call puts its time to sleep, which may be negative when it
\* is only slow, in the static variable tim1.
Delay(t) ==
    LET ring == tlist[K(t)][F(t)]
        dT == TimeToSleep(param[Proc(t)].window[K(t)][F(t)], ring, call[t].n)
    IN  /\ pc[t] = "decide"
        /\ call[t].n > N_SAMPLE_FOR_AVG
        /\ call[t].slow \/ dT > 0
        /\ tim1' = [tim1 EXCEPT ![Proc(t)] = dT]
        /\ call' = [call EXCEPT ![t].dT = dT,
                                ![t].due = ring[Slot(call[t].n)] + dT]
        /\ Goto(t, "sleeplock")
        /\ UNCHANGED <<now, locked, shm, shared, param, life, begun, done>>

\* Mutant: nanosleep before the mutex is taken.
SleepUnlocked(t) ==
    /\ pc[t] = "sleeplock"
    /\ call' = [call EXCEPT ![t].wake =
                  IF tim1[Proc(t)] > 0 THEN now + tim1[Proc(t)] ELSE now]
    /\ Goto(t, "asleep")
    /\ UNCHANGED <<now, locked, shm, shared, procs, life, begun, done>>

\* Mutant: the time to sleep is counted from the start of the real call.
SleepFromStart(t) ==
    /\ pc[t] = "sleeplock"
    /\ ~locked[K(t)]
    /\ locked' = [locked EXCEPT ![K(t)] = TRUE]
    /\ call' = [call EXCEPT ![t].wake =
                  IF tim1[Proc(t)] > 0 THEN call[t].start + tim1[Proc(t)]
                                       ELSE now]
    /\ Goto(t, "asleep")
    /\ UNCHANGED <<now, shm, shared, procs, life, begun, done>>

\* Lock, and nanosleep for what tim1 now holds; nanosleep refuses a negative
\* time and returns at once.
Sleep(t) ==
    /\ pc[t] = "sleeplock"
    /\ ~locked[K(t)]
    /\ locked' = [locked EXCEPT ![K(t)] = TRUE]
    /\ call' = [call EXCEPT ![t].wake =
                  IF tim1[Proc(t)] > 0 THEN now + tim1[Proc(t)] ELSE now]
    /\ Goto(t, "asleep")
    /\ UNCHANGED <<now, shm, shared, procs, life, begun, done>>

\* Mutant: nanosleep may return before its time.
WakeEarly(t) ==
    /\ pc[t] = "asleep"
    /\ call' = [call EXCEPT ![t].reg = delayed[K(t)][F(t)]]
    /\ Goto(t, "unsleep")
    /\ UNCHANGED <<now, locked, shm, shared, procs, life, begun, done>>

\* nanosleep returns; the counter of delayed calls is read.
Wake(t) ==
    /\ pc[t] = "asleep"
    /\ now >= call[t].wake
    /\ call' = [call EXCEPT ![t].reg = delayed[K(t)][F(t)]]
    /\ Goto(t, "unsleep")
    /\ UNCHANGED <<now, locked, shm, shared, procs, life, begun, done>>

\* Mutant: a call that was slow but not early is not counted as delayed.
UnsleepIfEarly(t) ==
    /\ pc[t] = "unsleep"
    /\ delayed' = [delayed EXCEPT ![K(t)][F(t)] =
                     IF call[t].dT > 0 THEN call[t].reg + 1 ELSE @]
    /\ locked' = [locked EXCEPT ![K(t)] = FALSE]
    /\ Goto(t, "restamp")
    /\ UNCHANGED <<now, count, tlist, shared, procs, life, call, begun, done>>

\* Mutant: the path on which nanosleep fails leaves the mutex locked.
UnsleepNoUnlock(t) ==
    /\ pc[t] = "unsleep"
    /\ delayed' = [delayed EXCEPT ![K(t)][F(t)] = call[t].reg + 1]
    /\ locked' = [locked EXCEPT ![K(t)] = call[t].dT < 0]
    /\ Goto(t, "restamp")
    /\ UNCHANGED <<now, count, tlist, shared, procs, life, call, begun, done>>

\* The counter of delayed calls is stored, and the mutex unlocked.
Unsleep(t) ==
    /\ pc[t] = "unsleep"
    /\ delayed' = [delayed EXCEPT ![K(t)][F(t)] = call[t].reg + 1]
    /\ locked' = [locked EXCEPT ![K(t)] = FALSE]
    /\ Goto(t, "restamp")
    /\ UNCHANGED <<now, count, tlist, shared, procs, life, call, begun, done>>

\* Mutant: the slot keeps the stamp from before the sleep.
ReturnUnstamped(t) ==
    /\ pc[t] = "restamp"
    /\ Return(t, now)
    /\ UNCHANGED <<now, locked, shm, shared, procs, life, begun>>

\* A delayed call stamps its slot again and returns.
Restamp(t) ==
    /\ pc[t] = "restamp"
    /\ tlist' = [tlist EXCEPT ![K(t)][F(t)][Slot(call[t].n)] = now]
    /\ Return(t, now)
    /\ UNCHANGED <<now, locked, count, delayed, shared, procs, life, begun>>

-----------------------------------------------------------------------------
\* The clock; past the bound it runs on only while a thread is asleep.
Tick ==
    /\ \/ now < MaxTime
       \/ \E t \in Thread : pc[t] = "asleep" /\ now < call[t].wake
    /\ now' = now + 1
    /\ UNCHANGED <<locked, shm, shared, procs, life, pc, call, begun, done>>

\* What thread t does once its call has begun.
Step(t) ==
    \/ Post(t) \/ Count(t) \/ Counted(t) \/ Stamp(t) \/ Pass(t) \/ Delay(t)
    \/ Sleep(t) \/ Wake(t) \/ Unsleep(t) \/ Restamp(t)

Next ==
    \/ \E t \in Thread : Step(t)
    \/ \E t \in Thread, k \in Kind, f \in FS : Begin(t, k, f)
    \/ \E p \in Process : Start(p) \/ Exit(p)
    \/ \E f \in FS, w \in [Kind -> Window] : SetIoParam(f, w)
    \/ Tick

Spec == Init /\ [][Next]_vars

\* The kernel schedules every thread and the clock moves; no fairness is
\* asked of the mutexes, nor that anyone begins a call or runs set_io_param.
Fairness ==
    /\ \A t \in Thread : WF_vars(Step(t))
    /\ WF_vars(Tick)

FairSpec == Spec /\ Fairness

-----------------------------------------------------------------------------
(* Properties.                                                             *)

PCs == {"idle", "called", "lock", "counting", "stamp", "decide", "sleeplock",
        "asleep", "unsleep", "restamp"}

CallRec == [kind : Kind, fs : FS, start : Nat, slow : BOOLEAN, n : Nat,
            reg : Nat, dT : Int, wake : Nat, limit : Nat, due : Nat]

DoneRec == [n : Nat, at : Nat, limit : Nat, due : Nat]

\* Every variable holds a value of the kind the code gives it; in particular a
\* time stamp is stored in one of the MAX_REC slots, and the time a delayed
\* call must sleep to, the window after the stamp it looked back at, is never
\* before the epoch even when its time to sleep is negative.
TypeOK ==
    /\ now \in Nat /\ begun \in Nat /\ starts \in Nat
    /\ locked \in [Kind -> BOOLEAN]
    /\ count \in [Kind -> [FS -> Nat]]
    /\ delayed \in [Kind -> [FS -> Nat]]
    /\ tlist \in [Kind -> [FS -> [0 .. MAX_REC - 1 -> Nat]]]
    /\ shared \in [stamp : Nat, window : Limits]
    /\ param \in [Process -> [stamp : Nat, window : Limits]]
    /\ tim1 \in [Process -> Int]
    /\ running \subseteq Process
    /\ pc \in [Thread -> PCs]
    /\ call \in [Thread -> CallRec]
    /\ done \in [Kind -> [FS -> SUBSET DoneRec]]

\* "Sleep() needs to be serialized": no two threads, of one process or of two,
\* sleep for calls of the same kind at the same time.
SleepSerialized ==
    \A t, u \in Thread :
        t # u /\ pc[t] = "asleep" /\ pc[u] = "asleep" => K(t) # K(u)

\* The threads that hold the number of a call on server f.
Ticketed == {"stamp", "decide", "sleeplock", "asleep", "unsleep", "restamp"}
Holding(k, f) == {t \in Thread : pc[t] \in Ticketed /\ K(t) = k /\ F(t) = f}

\* No update of the shared counter is lost, whichever processes race for it:
\* calls on one server that are under way have different numbers, and none has
\* the number of a call that has returned (numbers MAX_REC apart share a slot).
TicketsDistinct ==
    \A k \in Kind, f \in FS :
        /\ \A t, u \in Holding(k, f) : t # u => call[t].n # call[u].n
        /\ \A t \in Holding(k, f), d \in done[k][f] : call[t].n # d.n
        /\ \A d, e \in done[k][f] : d # e => d.n # e.n

\* The reason for the two properties above, when starts are quiet.  A thread at
\* a point where it holds a mutex finds it locked, and alone; the counter it
\* has read is still the shared one when it stores it; and every number given
\* so far is below the counter.
Exclusive ==
    /\ \A t \in Thread : pc[t] \in Inside => locked[K(t)]
    /\ \A t, u \in Thread :
          t # u /\ pc[t] \in Inside /\ pc[u] \in Inside => K(t) # K(u)

Numbered ==
    /\ \A t \in Thread :
          pc[t] = "counting" => call[t].n = count[K(t)][F(t)]
    /\ \A k \in Kind, f \in FS :
          /\ \A t \in Holding(k, f) : call[t].n < count[k][f]
          /\ \A d \in done[k][f] : d.n < count[k][f]

TicketInv == TypeOK /\ Exclusive /\ Numbered /\ TicketsDistinct

\* The shared counter, which the report server shows, is the number of calls
\* that were counted: those that returned and those under way.
CallsAccounted ==
    \A k \in Kind, f \in FS :
        count[k][f] = Cardinality(done[k][f]) + Cardinality(Holding(k, f))

\* Each delayed call is counted as delayed once, and no other call is.
DelaysAccounted ==
    \A k \in Kind, f \in FS :
        delayed[k][f] =
            Cardinality({d \in done[k][f] : d.due > 0})
            + Cardinality({t \in Holding(k, f) : pc[t] = "restamp"})

\* A call that was delayed is stamped again only when its own time to sleep,
\* counted from its first stamp, has gone by.
DelayHonoured ==
    \A k \in Kind, f \in FS : \A d \in done[k][f] : d.at >= d.due

\* The reason for DelayHonoured, when each process has one thread: from Delay to
\* Sleep nobody else writes tim1, so the thread sleeps for its own time.
DelayInv ==
    /\ \A k \in Kind, f \in FS, s \in 0 .. MAX_REC - 1 : tlist[k][f][s] <= now
    /\ \A t \in Thread :
          /\ pc[t] \in {"idle", "called", "lock", "counting", "stamp", "decide"}
                => call[t].due = 0
          /\ pc[t] = "sleeplock" => /\ tim1[Proc(t)] = call[t].dT
                                    /\ call[t].due <= now + call[t].dT
          /\ pc[t] = "asleep" => call[t].due <= call[t].wake
          /\ pc[t] \in {"unsleep", "restamp"} => call[t].due <= now
    /\ DelayHonoured

\* MAX_OPEN_FREQ, MAX_STAT_FREQ: between the stamps of a call and of the call
\* N_SAMPLE_FOR_AVG before it lies at least the window that was published when
\* the later call was counted, also when the limit has just been changed.
RateLimit ==
    \A k \in Kind, f \in FS : \A d, e \in done[k][f] :
        e.n > 0 /\ d.n = e.n + N_SAMPLE_FOR_AVG => d.at - e.at >= d.limit

\* What a user is promised, whatever mutexes and rings it takes: calls on a
\* server are numbered one after the other, each is delayed at most once, delays
\* of one kind are served one at a time and to their end, and counted one by one.
Phase(l) ==
    CASE l \in {"idle", "called", "lock", "counting"} -> "out"
      [] l \in {"stamp", "decide"} -> "in"
      [] l = "sleeplock" -> "due"
      [] l \in {"asleep", "unsleep"} -> "delayed"
      [] l = "restamp" -> "served"

Promise == INSTANCE Limiter WITH
    time <- now, calls <- count, late <- delayed,
    phase <- [t \in Thread |-> Phase(pc[t])],
    ticket <- [t \in Thread |-> IF pc[t] \in Ticketed
                                  THEN <<K(t), F(t), call[t].n>> ELSE << >>],
    due <- [t \in Thread |-> call[t].due]

LimiterSpec == Promise!Spec

\* Every intercepted call returns to the application.
CallReturns == \A t \in Thread : pc[t] # "idle" ~> pc[t] = "idle"

=============================================================================
