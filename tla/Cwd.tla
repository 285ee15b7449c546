-------------------------------- MODULE Cwd ---------------------------------
(***************************************************************************)
(* The copies that the threads of a process keep of its working directory: *)
(* the name, for getcwd(), and the index of its file server, for calls     *)
(* with relative names.  Both are thread-local, zero in a new thread, and  *)
(* are refreshed by the thread's own chdir() or fchdir() only.  What the   *)
(* index is looked up in, the table of servers and n_fs_server, belongs to *)
(* the process, and any thread's call may count the servers anew meanwhile.*)
(***************************************************************************)
EXTENDS Integers

CONSTANTS
    Process,
    Thread,
    ProcessOf,   \* the process of each thread
    Main,        \* the first thread of each process
    Exec,        \* processes that start by exec(), the others by fork()
    Dir,         \* directories
    NServers,    \* the configured servers; the tables have room for more
    ServerOf,    \* the index of the file server of each directory, or -1
    None,        \* no directory, no thread
    MaxCall      \* bound: calls of chdir() and of Update_Parameters

ASSUME CwdAssumption ==
    /\ ProcessOf \in [Thread -> Process]
    /\ Main \in [Process -> Thread]
    /\ \A p \in Process : ProcessOf[Main[p]] = p
    /\ Exec \subseteq Process
    /\ NServers \in Nat
    /\ ServerOf \in [Dir -> -1 .. NServers - 1]
    /\ None \notin Dir \cup Thread
    /\ MaxCall \in Nat

VARIABLES
    cwd,               \* of each process, None before it starts
    nfs,               \* n_fs_server of each process
    pc,                \* "none", "idle", "changed" and "copied" within chdir(),
                       \* "count" within Update_Parameters
    i,                 \* the servers each thread has counted there
    calls,             \* how many calls MaxCall bounds have begun
    szUpdatedDir,      \* of each thread, None: empty
    Idx_fs_Server_CWD, \* of each thread
    told,              \* the last answer of getcwd() in each process
    counted,           \* Idx_fs_Server of its last call with a relative name
    tracked,           \* history: the processes that started with the tool on
    crossed,           \* history: the processes in which a thread counted the
                       \* servers while another one did or was in chdir()
    single,            \* history: processes that had one thread all the time,
                       \* back to the program they were forked from
    changer,           \* history: the thread of the last chdir() of a process
    updater            \* history: the last thread that copied the directory

local == <<szUpdatedDir, Idx_fs_Server_CWD>>
seen  == <<told, counted>>
past  == <<tracked, crossed, single, changer, updater>>
vars  == <<cwd, nfs, pc, i, calls, local, seen, past>>

Threads(p) == {t \in Thread : ProcessOf[t] = p}
\* One more of the calls that are bounded.
Bounded == calls < MaxCall /\ calls' = calls + 1

Goto(t, l) == pc' = [pc EXCEPT ![t] = l]

\* Threads other than t are at one of the places L in t's process.
OthersAt(t, L) == \E u \in Threads(ProcessOf[t]) \ {t} : pc[u] \in L

\* p is crossed from now on if C.
Cross(p, C) == crossed' = IF C THEN crossed \cup {p} ELSE crossed

Init ==
    /\ cwd = [p \in Process |-> None]
    /\ nfs = [p \in Process |-> 0]
    /\ pc = [t \in Thread |-> "none"]
    /\ i = [t \in Thread |-> 0]
    /\ calls = 0
    /\ szUpdatedDir = [t \in Thread |-> None]
    /\ Idx_fs_Server_CWD = [t \in Thread |-> 0]
    /\ told = [p \in Process |-> None]
    /\ counted = [p \in Process |-> -1]
    /\ tracked = {}
    /\ crossed = {}
    /\ single = {}
    /\ changer = [p \in Process |-> None]
    /\ updater = [p \in Process |-> None]

-----------------------------------------------------------------------------
\* Mutant: the loop ends at n_fs_server without a match.
IndexOfEnd(n, d) == IF ServerOf[d] \in 0 .. n - 1 THEN ServerOf[d] ELSE NServers + 1

\* The first of the n servers whose tag is the beginning of the name.  An entry
\* past the configured ones has an empty tag, the beginning of every name.
IndexOf(n, d) ==
    IF ServerOf[d] \in 0 .. n - 1 THEN ServerOf[d]
    ELSE IF n > NServers THEN NServers
    ELSE -1

-----------------------------------------------------------------------------
(* Processes and threads.                                                  *)

\* init() of a program in directory d, with the tool on or off.
Start(p, d, on) ==
    LET t == Main[p]
    IN  /\ p \in Exec /\ cwd[p] = None
        /\ cwd' = [cwd EXCEPT ![p] = d]
        /\ Goto(t, "idle")
        /\ nfs' = [nfs EXCEPT ![p] = IF on THEN NServers ELSE 0]
        /\ tracked' = IF on THEN tracked \cup {p} ELSE tracked
        /\ single' = single \cup {p}
        /\ szUpdatedDir' = [szUpdatedDir EXCEPT ![t] = d]
        /\ Idx_fs_Server_CWD' = [Idx_fs_Server_CWD EXCEPT ![t] =
              IndexOf(IF on THEN NServers ELSE 0, d)]
        /\ told' = [told EXCEPT ![p] = d]
        /\ changer' = [changer EXCEPT ![p] = t]
        /\ updater' = [updater EXCEPT ![p] = t]
        /\ UNCHANGED <<i, calls, counted, crossed>>

\* fork() by thread t: the child has a copy of everything, of its caller's
\* thread-local data too, and of a table another thread is just counting.
Fork(t, q) ==
    LET p == ProcessOf[t]
        u == Main[q]
    IN  /\ q \notin Exec /\ cwd[q] = None
        /\ pc[t] = "idle"
        /\ cwd' = [cwd EXCEPT ![q] = cwd[p]]
        /\ Goto(u, "idle")
        /\ nfs' = [nfs EXCEPT ![q] = nfs[p]]
        /\ szUpdatedDir' = [szUpdatedDir EXCEPT ![u] = szUpdatedDir[t]]
        /\ Idx_fs_Server_CWD' =
              [Idx_fs_Server_CWD EXCEPT ![u] = Idx_fs_Server_CWD[t]]
        /\ tracked' = IF p \in tracked THEN tracked \cup {q} ELSE tracked
        /\ single' = IF p \in single THEN single \cup {q} ELSE single
        /\ Cross(q, p \in crossed \/ OthersAt(t, {"count"}))
        /\ UNCHANGED <<i, calls, seen, changer, updater>>

\* A new thread, with szUpdatedDir empty and Idx_fs_Server_CWD 0.
Create(t) ==
    LET p == ProcessOf[t]
    IN  /\ t # Main[p] /\ cwd[p] # None /\ pc[t] = "none"
        /\ Goto(t, "idle")
        /\ single' = single \ {p}
        /\ UNCHANGED <<cwd, nfs, i, calls, local, seen, tracked, crossed,
                       changer, updater>>

-----------------------------------------------------------------------------
(* Update_Parameters, in a call that finds a new stamp and the tool on; while *)
(* it is off the servers stay as they are.                                   *)

\* n_fs_server = 0.
Refresh(t) ==
    /\ pc[t] = "idle" /\ Bounded
    /\ nfs' = [nfs EXCEPT ![ProcessOf[t]] = 0]
    /\ Goto(t, "count")
    /\ Cross(ProcessOf[t], OthersAt(t, {"count", "changed", "copied"}))
    /\ UNCHANGED <<cwd, i, local, seen, tracked, single, changer, updater>>

\* One server is copied and counted.
Count(t) ==
    /\ pc[t] = "count" /\ i[t] < NServers
    /\ nfs' = [nfs EXCEPT ![ProcessOf[t]] = @ + 1]
    /\ i' = [i EXCEPT ![t] = @ + 1]
    /\ UNCHANGED <<cwd, pc, calls, local, seen, past>>

Counted(t) ==
    /\ pc[t] = "count" /\ i[t] = NServers
    /\ i' = [i EXCEPT ![t] = 0]
    /\ Goto(t, "idle")
    /\ UNCHANGED <<cwd, nfs, calls, local, seen, past>>

-----------------------------------------------------------------------------
(* my_chdir, my_fchdir                                                     *)

\* Mutant: the directory is copied before it is changed.
Change_Late(t, d) ==
    LET p == ProcessOf[t]
    IN  /\ pc[t] = "idle" /\ Bounded
        /\ Goto(t, "copied")
        /\ cwd' = [cwd EXCEPT ![p] = d]
        /\ changer' = [changer EXCEPT ![p] = t]
        /\ updater' = [updater EXCEPT ![p] = t]
        /\ szUpdatedDir' = [szUpdatedDir EXCEPT ![t] = cwd[p]]
        /\ Cross(p, OthersAt(t, {"count"}))
        /\ UNCHANGED <<nfs, i, Idx_fs_Server_CWD, seen, tracked, single>>

\* The original function; it fails if d is the directory the process is in
\* already (which then stands for the one that is not there).
Change(t, d) ==
    LET p == ProcessOf[t]
    IN  /\ pc[t] = "idle" /\ Bounded
        /\ Goto(t, "changed")
        /\ cwd' = [cwd EXCEPT ![p] = d]
        /\ changer' = [changer EXCEPT ![p] = t]
        /\ Cross(p, OthersAt(t, {"count"}))
        /\ UNCHANGED <<nfs, i, local, seen, tracked, single, updater>>

\* Update_CWD, also if the original function failed: the name is copied.
Copy(t) ==
    LET p == ProcessOf[t]
    IN  /\ pc[t] = "changed"
        /\ Goto(t, "copied")
        /\ szUpdatedDir' = [szUpdatedDir EXCEPT ![t] = cwd[p]]
        /\ updater' = [updater EXCEPT ![p] = t]
        /\ UNCHANGED <<cwd, nfs, i, calls, Idx_fs_Server_CWD, seen, tracked,
                       crossed, single, changer>>

\* Mutant: Idx_fs_Server_CWD is not reset.
LookKeep(t) ==
    LET idx == IndexOf(nfs[ProcessOf[t]], szUpdatedDir[t])
    IN  /\ pc[t] = "copied"
        /\ Goto(t, "idle")
        /\ Idx_fs_Server_CWD' =
              [Idx_fs_Server_CWD EXCEPT ![t] = IF idx = -1 THEN @ ELSE idx]
        /\ UNCHANGED <<cwd, nfs, i, calls, szUpdatedDir, seen, past>>

\* The name is looked up among the servers counted so far.  The loop reads
\* n_fs_server for each entry; the one that ends it decides.
Look(t) ==
    /\ pc[t] = "copied"
    /\ Goto(t, "idle")
    /\ Idx_fs_Server_CWD' = [Idx_fs_Server_CWD EXCEPT ![t] =
          IndexOf(nfs[ProcessOf[t]], szUpdatedDir[t])]
    /\ UNCHANGED <<cwd, nfs, i, calls, szUpdatedDir, seen, past>>

-----------------------------------------------------------------------------
(* my_getcwd_ld, my_getcwd_libc; Check_FS_Server                           *)

\* The copy if there is one, else the answer of the original function, which is
\* kept.  A buffer that is too small changes nothing.
Getcwd(t) ==
    LET answer == IF szUpdatedDir[t] = None THEN cwd[ProcessOf[t]]
                                            ELSE szUpdatedDir[t]
    IN  /\ pc[t] = "idle"
        /\ told' = [told EXCEPT ![ProcessOf[t]] = answer]
        /\ szUpdatedDir' = [szUpdatedDir EXCEPT ![t] = answer]
        /\ UNCHANGED <<cwd, nfs, pc, i, calls, Idx_fs_Server_CWD, counted,
                       past>>

\* A call with a relative name, which no tag begins but an empty one.
Relative(t) ==
    LET p == ProcessOf[t]
    IN  /\ pc[t] = "idle"
        /\ counted' = [counted EXCEPT ![p] =
              IF nfs[p] > NServers THEN NServers ELSE Idx_fs_Server_CWD[t]]
        /\ UNCHANGED <<cwd, nfs, pc, i, calls, local, told, past>>

Next ==
    \/ \E p \in Process : \/ \E d \in Dir, on \in BOOLEAN : Start(p, d, on)
                          \/ \E t \in Thread : Fork(t, p)
    \/ \E t \in Thread : \/ Create(t) \/ Refresh(t) \/ Count(t) \/ Counted(t)
                         \/ \E d \in Dir : Change(t, d)
                         \/ Copy(t) \/ Look(t) \/ Getcwd(t) \/ Relative(t)

Spec == Init /\ [][Next]_vars

-----------------------------------------------------------------------------
(* Properties.                                                             *)

\* The types; an index is that of a server, -1, the 0 of a new thread, or
\* that of the entry after the last server.
TypeOK ==
    /\ cwd \in [Process -> Dir \cup {None}]
    /\ nfs \in [Process -> Nat]
    /\ {tracked, crossed, single} \subseteq SUBSET Process
    /\ pc \in [Thread -> {"none", "idle", "changed", "copied", "count"}]
    /\ i \in [Thread -> 0 .. NServers] /\ calls \in 0 .. MaxCall
    /\ szUpdatedDir \in [Thread -> Dir \cup {None}]
    /\ told \in [Process -> Dir \cup {None}]
    /\ Idx_fs_Server_CWD \in [Thread -> -1 .. NServers]
    /\ counted \in [Process -> -1 .. NServers]
    /\ changer \in [Process -> Thread \cup {None}]
    /\ updater \in [Process -> Thread \cup {None}]

Started == {p \in Process : cwd[p] # None}

\* The working directories as WorkingDir has them.
W == INSTANCE WorkingDir

\* A program with one thread, and a child it forks, is never told another
\* directory than the one it is in, and its calls with relative names are
\* accounted to the server of that directory: every process implements
\* WorkingDir (my_chdir, my_getcwd, Check_FS_Server).
WorkingDirSpec == W!Spec

\* When no chdir() is under way in a process, the thread that changed the
\* directory last and the one that refreshed its copies last have the right
\* name, however their calls overlapped.  Their index is never that of another
\* server: it is the right one, or -1, or, for a directory on no server, that
\* of no server.  It is right in a process that started with the tool on and in
\* which no thread counted the servers while another one did or was in chdir()
\* (Update_CWD, Update_Parameters).
LastIsRight ==
    \A p \in Started : (\A t \in Threads(p) : pc[t] \notin {"changed", "copied"}) =>
        \A t \in Threads(p) \cap {changer[p], updater[p]} :
            LET idx   == Idx_fs_Server_CWD[t]
                right == ServerOf[cwd[p]]
            IN  /\ szUpdatedDir[t] = cwd[p]
                /\ idx \in {right, -1} \/ (right = -1 /\ idx = NServers)
                /\ p \in tracked \ crossed => idx = right

=============================================================================
