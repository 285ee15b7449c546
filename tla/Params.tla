------------------------------- MODULE Params -------------------------------
(***************************************************************************)
(* The parameters of the throttle, word by word: how set_io_param and the  *)
(* first process of the user publish them in shared memory, and how every  *)
(* intercepted call notices a new time stamp and copies them.  There is no *)
(* lock: a publisher stores its words and then the stamp, a reader loads   *)
(* the switch, the stamp and then the words.                               *)
(*                                                                         *)
(* A call is followed from Check_FS_Server to the point where it is        *)
(* counted or left alone; module Throttle takes it from there.             *)
(***************************************************************************)
EXTENDS Integers, FiniteSets

CONSTANTS
    Process,            \* the user's processes on one node
    Thread,             \* their threads
    ProcessOf,          \* the process of each thread
    Publisher,          \* the runs of set_io_param there may be
    MAX_FS_SERVER,      \* room for servers in every table
    NConfigured,        \* the servers of the configuration file
    Value,              \* settings of a server: thresholds and frequencies
    Config,             \* the settings of the configuration file
    Zero,               \* what the memory of a new segment or process holds
    MaxCall             \* bound: calls begun

Server == 0 .. NConfigured - 1

ASSUME ParamsAssumption ==
    /\ ProcessOf \in [Thread -> Process]
    /\ MAX_FS_SERVER \in Nat /\ NConfigured \in 1 .. MAX_FS_SERVER
    /\ Config \in [Server -> Value]
    /\ Zero \notin Value
    /\ MaxCall \in Nat

VARIABLES
    created,    \* the parameter segment exists
    word,       \* p_t_threshold_*_int64[], p_Max_*_Freq_Share[], per server
    disabled,   \* *p_Disabled = 1
    stamp,      \* *p_t_Updated_Param
    ready,      \* *p_Param_Mem_Ready
    clock,      \* the time stamp counter, read by rdtscp
    own,        \* each process's copy of the settings
    ownStamp,   \* its t_Updated_Param
    active,     \* its Active
    nfs,        \* its n_fs_server
    running,    \* the processes whose constructor has run
    pub,        \* where each run of set_io_param is
    pc,         \* where each thread is
    call,       \* the registers of each thread
    begun       \* how many calls have begun

seg   == <<created, word, disabled, stamp, ready>>
copy  == <<own, ownStamp, active, nfs>>
vars  == <<seg, clock, copy, running, pub, pc, call, begun>>

-----------------------------------------------------------------------------
Proc(t) == ProcessOf[t]
Goto(t, l) == pc' = [pc EXCEPT ![t] = l]

Kind == {"open", "stat"}

\* The server of a file on none: Check_FS_Server's -1.
None == -1

\* The registers of a call: its kind, the server its path names, the server
\* Check_FS_Server found for it, the index and the word of the copying loop.
\* calm is history: no store of set_io_param has been made since it began.
NoCall == [kind |-> "open", file |-> None, idx |-> None, i |-> 0, reg |-> Zero,
           calm |-> FALSE]

\* Thread t leaves the library.
Idle(t) == Goto(t, "idle") /\ call' = [call EXCEPT ![t] = NoCall]

Init ==
    /\ created = FALSE
    /\ word = [s \in Server |-> Zero]
    /\ disabled = FALSE
    /\ stamp = 0
    /\ ready = FALSE
    /\ clock = 1
    /\ own = [p \in Process |-> [s \in Server |-> Zero]]
    /\ ownStamp = [p \in Process |-> 0]
    /\ active = [p \in Process |-> FALSE]
    /\ nfs = [p \in Process |-> 0]
    /\ running = {}
    /\ pub = [q \in Publisher |-> "none"]
    /\ pc = [t \in Thread |-> "idle"]
    /\ call = [t \in Thread |-> NoCall]
    /\ begun = 0

-----------------------------------------------------------------------------
(* set_io_param.                                                           *)

\* Every store of a run of set_io_param disturbs the calls under way.
Disturb == call' = [t \in Thread |-> [call[t] EXCEPT !.calm = FALSE]]

\* No run of set_io_param is between two of its stores, nor was killed there.
NoPublisher == \A q \in Publisher : pub[q] \in {"none", "end"}

\* set_io_param 0, set_io_param 1: store the switch.
Switch(q, off) ==
    /\ created
    /\ pub[q] = "none"
    /\ disabled' = off
    /\ pub' = [pub EXCEPT ![q] = "stamp"]
    /\ Disturb
    /\ UNCHANGED <<created, word, stamp, ready, clock, copy, running, pc, begun>>

\* set_io_param with the settings of a server: store them.
PublishWord(q, s, v) ==
    /\ created
    /\ pub[q] = "none"
    /\ word' = [word EXCEPT ![s] = v]
    /\ pub' = [pub EXCEPT ![q] = "on"]
    /\ Disturb
    /\ UNCHANGED <<created, disabled, stamp, ready, clock, copy, running, pc,
                   begun>>

\* Mutant: new settings are published without a new stamp.
PublishOnUnstamped(q) ==
    /\ pub[q] = "on"
    /\ disabled' = FALSE
    /\ pub' = [pub EXCEPT ![q] = "end"]
    /\ Disturb
    /\ UNCHANGED <<created, word, stamp, ready, clock, copy, running, pc, begun>>

\* Publishing switches the tool on.
PublishOn(q) ==
    /\ pub[q] = "on"
    /\ disabled' = FALSE
    /\ pub' = [pub EXCEPT ![q] = "stamp"]
    /\ Disturb
    /\ UNCHANGED <<created, word, stamp, ready, clock, copy, running, pc, begun>>

\* The time stamp, which no other publication has, is stored last.
PublishStamp(q) ==
    /\ pub[q] = "stamp"
    /\ clock' = clock + 1
    /\ stamp' = clock
    /\ pub' = [pub EXCEPT ![q] = "end"]
    /\ Disturb
    /\ UNCHANGED <<created, word, disabled, ready, copy, running, pc, begun>>

-----------------------------------------------------------------------------
(* The constructor, run by the first thread of a process.                  *)

Starting(p) == \E t \in Thread : Proc(t) = p /\ pc[t] # "idle"

\* Mutant: half a record of the configuration file counts as a server.
CreateMiscounted(t) ==
    LET p == Proc(t)
    IN  /\ p \notin running /\ ~Starting(p)
        /\ ~created
        /\ created' = TRUE
        /\ own' = [own EXCEPT ![p] = Config]
        /\ nfs' = [nfs EXCEPT ![p] = 2 * NConfigured]
        /\ call' = [call EXCEPT ![t] = NoCall]
        /\ Goto(t, "create")
        /\ UNCHANGED <<word, disabled, stamp, ready, clock, ownStamp, active,
                       running, pub, begun>>

\* No segment yet: this process creates it, and reads the configuration file.
Create(t) ==
    LET p == Proc(t)
    IN  /\ p \notin running /\ ~Starting(p)
        /\ ~created
        /\ created' = TRUE
        /\ own' = [own EXCEPT ![p] = Config]
        /\ nfs' = [nfs EXCEPT ![p] = NConfigured]
        /\ call' = [call EXCEPT ![t] = NoCall]
        /\ Goto(t, "create")
        /\ UNCHANGED <<word, disabled, stamp, ready, clock, ownStamp, active,
                       running, pub, begun>>

\* It publishes: the stamp is stored first, and its own copy of it stays 0.
CreateStamp(t) ==
    /\ pc[t] = "create"
    /\ stamp' = clock
    /\ clock' = clock + 1
    /\ disabled' = FALSE
    /\ active' = [active EXCEPT ![Proc(t)] = TRUE]
    /\ Goto(t, "publish")
    /\ UNCHANGED <<created, word, ready, own, ownStamp, nfs, running, pub, call,
                   begun>>

\* Store the settings of one server after the other.
CreateWord(t) ==
    LET i == call[t].i
    IN  /\ pc[t] = "publish"
        /\ i < NConfigured
        /\ word' = [word EXCEPT ![i] = own[Proc(t)][i]]
        /\ call' = [call EXCEPT ![t].i = i + 1]
        /\ UNCHANGED <<created, disabled, stamp, ready, clock, copy, running,
                       pub, pc, begun>>

\* The segment is declared ready last, and the process runs.
CreateReady(t) ==
    /\ pc[t] = "publish"
    /\ call[t].i = NConfigured
    /\ ready' = TRUE
    /\ running' = running \cup {Proc(t)}
    /\ Idle(t)
    /\ UNCHANGED <<created, word, disabled, stamp, clock, copy, pub, begun>>

\* A later process waits for that, then refreshes its parameters.
Join(t) ==
    /\ Proc(t) \notin running /\ ~Starting(Proc(t))
    /\ created
    /\ call' = [call EXCEPT ![t] = NoCall]
    /\ Goto(t, "wait")
    /\ UNCHANGED <<seg, clock, copy, running, pub, begun>>

\* Mutant: it does not wait.
JoinAtOnce(t) ==
    /\ pc[t] = "wait"
    /\ Goto(t, "refresh")
    /\ UNCHANGED <<seg, clock, copy, running, pub, call, begun>>

\* The segment is ready.
JoinReady(t) ==
    /\ pc[t] = "wait"
    /\ ready
    /\ Goto(t, "refresh")
    /\ UNCHANGED <<seg, clock, copy, running, pub, call, begun>>

-----------------------------------------------------------------------------
(* Update_Parameters.                                                      *)

\* Where Update_Parameters returns to: the call that found a new stamp, or
\* the constructor.
AfterRefresh(t) ==
    /\ call' = [call EXCEPT ![t].i = 0, ![t].reg = Zero]
    /\ IF Proc(t) \in running
       THEN Goto(t, "gate") /\ UNCHANGED running
       ELSE Goto(t, "idle") /\ running' = running \cup {Proc(t)}

\* Switched off: return at once, the copy of the stamp stays as it was.
RefreshOff(t) ==
    /\ pc[t] = "refresh"
    /\ disabled
    /\ active' = [active EXCEPT ![Proc(t)] = FALSE]
    /\ AfterRefresh(t)
    /\ UNCHANGED <<seg, clock, own, ownStamp, nfs, pub, begun>>

\* Mutant: the servers known before are counted again.
RefreshOnCounting(t) ==
    /\ pc[t] = "refresh"
    /\ ~disabled
    /\ active' = [active EXCEPT ![Proc(t)] = TRUE]
    /\ call' = [call EXCEPT ![t].i = 0]
    /\ Goto(t, "stamp")
    /\ UNCHANGED <<seg, clock, own, ownStamp, nfs, running, pub, begun>>

\* Switched on: forget the servers.
RefreshOn(t) ==
    /\ pc[t] = "refresh"
    /\ ~disabled
    /\ active' = [active EXCEPT ![Proc(t)] = TRUE]
    /\ nfs' = [nfs EXCEPT ![Proc(t)] = 0]
    /\ call' = [call EXCEPT ![t].i = 0]
    /\ Goto(t, "stamp")
    /\ UNCHANGED <<seg, clock, own, ownStamp, running, pub, begun>>

\* Copy the stamp.
RefreshStamp(t) ==
    /\ pc[t] = "stamp"
    /\ ownStamp' = [ownStamp EXCEPT ![Proc(t)] = stamp]
    /\ Goto(t, "load")
    /\ UNCHANGED <<seg, clock, own, active, nfs, running, pub, call, begun>>

\* Load the settings of the next server.
RefreshLoad(t) ==
    /\ pc[t] = "load"
    /\ call[t].i < NConfigured
    /\ call' = [call EXCEPT ![t].reg = word[call[t].i]]
    /\ Goto(t, "store")
    /\ UNCHANGED <<seg, clock, copy, running, pub, begun>>

\* Store them and count the server.
RefreshStore(t) ==
    LET p == Proc(t)
        i == call[t].i
    IN  /\ pc[t] = "store"
        /\ own' = [own EXCEPT ![p][i] = call[t].reg]
        /\ nfs' = [nfs EXCEPT ![p] = @ + 1]
        /\ call' = [call EXCEPT ![t].i = i + 1, ![t].reg = Zero]
        /\ Goto(t, "load")
        /\ UNCHANGED <<seg, clock, ownStamp, active, running, pub, begun>>

\* Mutant: the stamp is copied last.
RefreshEndStamp(t) ==
    /\ pc[t] = "load"
    /\ call[t].i = NConfigured
    /\ ownStamp' = [ownStamp EXCEPT ![Proc(t)] = stamp]
    /\ AfterRefresh(t)
    /\ UNCHANGED <<seg, clock, own, active, nfs, pub, begun>>

\* Every server is copied.
RefreshEnd(t) ==
    /\ pc[t] = "load"
    /\ call[t].i = NConfigured
    /\ AfterRefresh(t)
    /\ UNCHANGED <<seg, clock, copy, pub, begun>>

-----------------------------------------------------------------------------
(* One intercepted call.                                                   *)

\* Check_FS_Server: the first of the n servers whose tag starts the path.  A
\* table entry past the configured ones has an empty tag, which starts every
\* path.
Check_FS_Server(n, file) ==
    IF file \in 0 .. n - 1 THEN file
    ELSE IF n > NConfigured THEN NConfigured
    ELSE None

Begin(t, k, file) ==
    /\ pc[t] = "idle"
    /\ Proc(t) \in running
    /\ begun < MaxCall
    /\ begun' = begun + 1
    /\ call' = [call EXCEPT ![t] =
                  [NoCall EXCEPT !.kind = k, !.file = file,
                                 !.idx = Check_FS_Server(nfs[Proc(t)], file),
                                 !.calm = NoPublisher]]
    /\ Goto(t, "called")
    /\ UNCHANGED <<seg, clock, copy, running, pub>>

\* GetTime(1): an open() of a file on no known server, or made while no server
\* is known, looks no further.
Skip(t) ==
    /\ pc[t] = "called"
    /\ call[t].kind = "open"
    /\ call[t].idx = None \/ nfs[Proc(t)] < 1
    /\ Idle(t)
    /\ UNCHANGED <<seg, clock, copy, running, pub, begun>>

\* Update_open_Count and post_lxstat look at the stamp; post_lxstat does so
\* for a file on any server.
Look(t) ==
    /\ pc[t] = "called"
    /\ call[t].kind = "open" => call[t].idx # None /\ nfs[Proc(t)] >= 1
    /\ Goto(t, IF ownStamp[Proc(t)] # stamp THEN "refresh" ELSE "gate")
    /\ UNCHANGED <<seg, clock, copy, running, pub, call, begun>>

\* Switched off, or a file on no known server: the call is left alone.
Leave(t) ==
    /\ pc[t] = "gate"
    /\ ~active[Proc(t)] \/ call[t].idx = None
    /\ Idle(t)
    /\ UNCHANGED <<seg, clock, copy, running, pub, begun>>

\* The call goes on to be counted and perhaps delayed, with the settings
\* its process now has.
Throttled(t) ==
    /\ pc[t] = "gate"
    /\ active[Proc(t)] /\ call[t].idx # None
    /\ Goto(t, "counted")
    /\ UNCHANGED <<seg, clock, copy, running, pub, call, begun>>

Finish(t) ==
    /\ pc[t] = "counted"
    /\ Idle(t)
    /\ UNCHANGED <<seg, clock, copy, running, pub, begun>>

-----------------------------------------------------------------------------
Construct(t) ==
    \/ Create(t) \/ CreateStamp(t) \/ CreateWord(t) \/ CreateReady(t)
    \/ Join(t) \/ JoinReady(t)

Refresh(t) ==
    \/ RefreshOff(t) \/ RefreshOn(t) \/ RefreshStamp(t)
    \/ RefreshLoad(t) \/ RefreshStore(t) \/ RefreshEnd(t)

InCall(t) == Skip(t) \/ Look(t) \/ Leave(t) \/ Throttled(t) \/ Finish(t)

Publish(q) ==
    \/ \E off \in BOOLEAN : Switch(q, off)
    \/ \E s \in Server, v \in Value : PublishWord(q, s, v)
    \/ PublishOn(q)
    \/ PublishStamp(q)

Next ==
    \/ \E t \in Thread : Construct(t) \/ Refresh(t) \/ InCall(t)
    \/ \E t \in Thread, k \in Kind, f \in Server \cup {None} : Begin(t, k, f)
    \/ \E q \in Publisher : Publish(q)

Spec == Init /\ [][Next]_vars

-----------------------------------------------------------------------------
(* Properties.                                                             *)

PCs == {"idle", "create", "publish", "wait", "refresh", "stamp", "load",
        "store", "called", "gate", "counted"}

Setting == Value \cup {Zero}

\* Every variable holds a value of the kind the code gives it; the number of
\* servers never passes the room there is for them.
TypeOK ==
    /\ created \in BOOLEAN /\ disabled \in BOOLEAN /\ ready \in BOOLEAN
    /\ word \in [Server -> Setting]
    /\ stamp \in Nat /\ clock \in Nat /\ begun \in Nat
    /\ own \in [Process -> [Server -> Setting]]
    /\ ownStamp \in [Process -> Nat]
    /\ active \in [Process -> BOOLEAN]
    /\ nfs \in [Process -> 0 .. MAX_FS_SERVER]
    /\ running \subseteq Process
    /\ pub \in [Publisher -> {"none", "on", "stamp", "end"}]
    /\ pc \in [Thread -> PCs]
    /\ call \in [Thread -> [kind : Kind, file : Server \cup {None},
                            idx : 0 .. MAX_FS_SERVER \cup {None},
                            i : 0 .. NConfigured, reg : Setting,
                            calm : BOOLEAN]]

Refreshing == {"refresh", "stamp", "load", "store"}
Settled(p) ==
    p \in running /\ \A t \in Thread : Proc(t) = p => pc[t] \notin Refreshing

\* The stamp is worth comparing: a process whose copy of it is the published
\* one, while no publication is under way, has the published settings of every
\* server, knows all the servers, and is not left switched off.
SyncedAgree ==
    \A p \in Process :
        Settled(p) /\ NoPublisher /\ ownStamp[p] = stamp
            => own[p] = word /\ nfs[p] = NConfigured /\ active[p]

\* The reason for SyncedAgree, when each process has one thread.  One process
\* creates the segment, alone until it is ready; a refresh begins only when the
\* stamps differ; and while nothing is published and the stamp a process has
\* copied is still the published one, the words it has copied are too.
Creating == {"create", "publish"}

Alone ==
    /\ stamp < clock /\ \A p \in Process : ownStamp[p] < clock
    /\ \A t, u \in Thread : pc[t] \in Creating /\ pc[u] \in Creating => t = u
    /\ ready \/ (\E t \in Thread : pc[t] \in Creating) => created
    /\ ready \/ (\E t \in Thread : pc[t] = "publish") => stamp > 0
    /\ ready => \A t \in Thread : pc[t] \notin Creating
    /\ ~ready => /\ running = {}
                 /\ \A t \in Thread : pc[t] \in Creating \cup {"idle", "wait"}

Copying(t) ==
    LET p == Proc(t)
    IN  /\ pc[t] \in {"called", "gate", "counted"} => p \in running
        /\ pc[t] \in Creating \cup {"wait"} => ownStamp[p] = 0
        /\ pc[t] = "idle" => p \in running \/ ownStamp[p] = 0
        /\ pc[t] = "refresh" => ownStamp[p] # stamp
        /\ pc[t] \in {"stamp", "load", "store"} => active[p] /\ nfs[p] = call[t].i
        /\ pc[t] = "stamp" => call[t].i = 0
        /\ pc[t] = "store" => call[t].i < NConfigured
        /\ pc[t] \in {"load", "store"} /\ NoPublisher /\ ownStamp[p] = stamp
             => /\ \A s \in Server : s < call[t].i => own[p][s] = word[s]
                /\ pc[t] = "store" => call[t].reg = word[call[t].i]

SyncInv == Alone /\ \A t \in Thread : Copying(t)

\* "Dynamically throttling with set_io_param": a call during which nothing is
\* published finds, if the tool is on, its process switched on with the settings
\* published last.
CalmCallObeys ==
    \A t \in Thread :
        pc[t] = "gate" /\ call[t].calm
            => /\ ~disabled => active[Proc(t)]
               /\ ~disabled => own[Proc(t)] = word

\* No process uses settings that were never published: it waits until the
\* segment is declared ready.
NoGarbage ==
    \A p \in running : \A s \in Server : s < nfs[p] => own[p][s] \in Value

\* "not interested files. e.g., local disk I/O": a call on a file of no tracked
\* server is never counted.
LocalNotCounted ==
    \A t \in Thread : pc[t] = "counted" => call[t].file # None

\* "set_io_param 0  # Disable OOOPS": a call during which nothing is published
\* finds its process switched off if the tool is.
DisableObeyed ==
    \A t \in Thread :
        pc[t] = "gate" /\ call[t].calm /\ disabled => ~active[Proc(t)]

\* "set_io_param 1  # Enable OOOPS": with the tool switched on, an open() of a
\* file on a tracked server during which nothing is published is throttled.
EnableObeyed ==
    [][\A t \in Thread :
         Skip(t) /\ call[t].calm /\ ~disabled => call[t].file = None]_vars

=============================================================================
