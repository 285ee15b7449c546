------------------------------ MODULE CwdProofs ------------------------------
(***************************************************************************)
(* Theorems about Cwd for any processes, threads, directories and servers: *)
(* the types, the refinement of WorkingDir, and whose copies are right.    *)
(***************************************************************************)
EXTENDS Cwd, TLAPS

USE DEF local, seen, past, Goto

-----------------------------------------------------------------------------
(* The inductive invariant, process by process.                            *)

\* Nothing runs, or has run, in a process that has not started.
Inactive(p) ==
    cwd[p] = None =>
        /\ p \notin tracked \cup crossed \cup single
        /\ \A t \in Threads(p) : pc[t] = "none"
        /\ changer[p] = None /\ updater[p] = None

\* The last thread that changed the directory of a process is one of its own.
ChangerOwn(p) == changer[p] \in Thread => changer[p] \in Threads(p)

\* While a process is not crossed, one thread at most counts its servers, no
\* other is in chdir() then, and between counts it knows all of them or, when
\* it was started with the tool off, perhaps none.
CountsRight(p) ==
    p \notin crossed =>
    /\ \A t \in Threads(p) : pc[t] = "count" =>
          /\ nfs[p] = i[t]
          /\ \A u \in Threads(p) \ {t} : pc[u] \in {"none", "idle"}
    /\ (\A t \in Threads(p) : pc[t] # "count") =>
          nfs[p] = NServers \/ (p \notin tracked /\ nfs[p] = 0)

\* The index that goes with directory d, in a process that knows the servers or
\* may not, and that is crossed or not.
IndexFor(idx, d, known, mixed) ==
    /\ idx \in {ServerOf[d], -1} \/ (ServerOf[d] = -1 /\ idx = NServers)
    /\ ~mixed => idx = ServerOf[d] \/ (~known /\ idx = -1)

\* The copies of thread t of process p are those of one directory.
Good(t, p) ==
    /\ szUpdatedDir[t] \in Dir
    /\ IndexFor(Idx_fs_Server_CWD[t], szUpdatedDir[t], p \in tracked,
                p \in crossed)

\* The only thread of a process has the copies of the directory it is in, unless
\* it is within chdir().
SingleRight(p) ==
    p \in single =>
    /\ p \notin crossed
    /\ \A t \in Threads(p) \ {Main[p]} : pc[t] = "none"
    /\ pc[Main[p]] # "changed" => szUpdatedDir[Main[p]] = cwd[p]
    /\ pc[Main[p]] \notin {"changed", "copied"} => Good(Main[p], p)

\* The last changer and the last updater have an index that goes with their name
\* once they have looked it up.
LastLooked(p) ==
    \A t \in Threads(p) :
        /\ t = changer[p] \/ t = updater[p]
        /\ pc[t] \notin {"changed", "copied"}
        => Good(t, p)

\* When the last changer has copied the name, so has the last updater.
LastNamed(p) ==
    cwd[p] # None /\ (changer[p] \in Thread => pc[changer[p]] # "changed")
    => \A t \in Threads(p) :
          t = changer[p] \/ t = updater[p] => szUpdatedDir[t] = cwd[p]

PInv(p) ==
    /\ Inactive(p) /\ ChangerOwn(p) /\ CountsRight(p)
    /\ SingleRight(p) /\ LastLooked(p) /\ LastNamed(p)

\* A thread begins to count at the first server, and one that looks an index up
\* has a name to look up.
Registers ==
    \A t \in Thread : /\ pc[t] # "count" => i[t] = 0
                      /\ pc[t] = "copied" => szUpdatedDir[t] \in Dir

IInv == TypeOK /\ Registers /\ \A p \in Process : PInv(p)

\* What Update_CWD finds is an index that goes with the name, and the right one
\* among all servers.
LEMMA IndexOfServer ==
    ASSUME NEW n \in Nat, NEW d \in Dir, NEW known, NEW mixed,
           ~mixed => n = NServers \/ (~known /\ n = 0)
    PROVE  /\ IndexOf(n, d) \in -1 .. NServers
           /\ IndexFor(IndexOf(n, d), d, known, mixed)
<1>1. ServerOf[d] \in -1 .. NServers - 1 /\ NServers \in Nat
  BY CwdAssumption
<1> QED
  BY <1>1 DEF IndexOf, IndexFor

\* A thread that is not "none" belongs to a process that has started.
LEMMA RunsInStarted ==
    ASSUME IInv, NEW t \in Thread, pc[t] # "none"
    PROVE  /\ ProcessOf[t] \in Process /\ t \in Threads(ProcessOf[t])
           /\ cwd[ProcessOf[t]] \in Dir /\ cwd[ProcessOf[t]] # None
<1>1. ProcessOf[t] \in Process /\ t \in Threads(ProcessOf[t])
  BY CwdAssumption DEF Threads
<1> QED
  BY <1>1 DEF IInv, TypeOK, PInv, Inactive

\* The main thread of a process is one of its threads, and no other process's.
LEMMA MainOwn ==
    ASSUME NEW p \in Process
    PROVE  Main[p] \in Threads(p) /\ Main[p] \in Thread
BY CwdAssumption DEF Threads

\* A process whose threads and words stay as they are keeps its invariant.
LEMMA Untouched ==
    ASSUME IInv, NEW p \in Process,
           cwd'[p] = cwd[p], nfs'[p] = nfs[p],
           \A t \in Threads(p) :
              /\ pc'[t] = pc[t] /\ i'[t] = i[t]
              /\ szUpdatedDir'[t] = szUpdatedDir[t]
              /\ Idx_fs_Server_CWD'[t] = Idx_fs_Server_CWD[t],
           p \in tracked' <=> p \in tracked, p \in crossed' <=> p \in crossed,
           p \in single' => p \in single,
           changer'[p] = changer[p], updater'[p] = updater[p]
    PROVE  PInv(p)'
<1>0. PInv(p) /\ Main[p] \in Threads(p)
  BY MainOwn DEF IInv
<1>1. Inactive(p)' /\ ChangerOwn(p)'
  BY <1>0 DEF PInv, Inactive, ChangerOwn, Threads
<1>2. CountsRight(p)'
  BY <1>0 DEF PInv, CountsRight, Threads
<1>3. \A t \in Threads(p) : Good(t, p)' <=> Good(t, p)
  BY DEF Good, Threads
<1>4. SingleRight(p)'
  BY <1>0, <1>3 DEF PInv, SingleRight, Threads
<1>5. LastLooked(p)'
  BY <1>0, <1>3 DEF PInv, LastLooked, Threads
<1>6. LastNamed(p)'
  BY <1>0 DEF PInv, LastNamed, ChangerOwn, Threads
<1> QED
  BY <1>1, <1>2, <1>4, <1>5, <1>6 DEF PInv

\* Before any process has started IInv holds.
LEMMA InitInv == Init => IInv
<1> SUFFICES ASSUME Init PROVE IInv
  OBVIOUS
<1>1. TypeOK /\ Registers
  BY CwdAssumption DEF Init, TypeOK, Registers
<1>2. ASSUME NEW p \in Process PROVE PInv(p)
  <2>1. Inactive(p) /\ ChangerOwn(p) /\ SingleRight(p) /\ LastNamed(p)
    BY CwdAssumption, <1>2
    DEF Init, Inactive, ChangerOwn, SingleRight, LastNamed, Threads
  <2>2. LastLooked(p) /\ CountsRight(p)
    BY CwdAssumption, <1>2 DEF Init, LastLooked, CountsRight, Threads
  <2> QED
    BY <2>1, <2>2 DEF PInv
<1> QED
  BY <1>1, <1>2 DEF IInv

-----------------------------------------------------------------------------
(* Steps of one thread.                                                    *)

\* A step of thread t of a process that has started, which touches neither other
\* threads nor other processes and, but for the cases below, leaves alone what
\* the invariant says: what is left to show for each action.
LEMMA ThreadStep ==
    ASSUME IInv, NEW t \in Thread, NEW p \in Process, p = ProcessOf[t],
           TypeOK', Registers',
           \A q \in Process : q # p =>
              /\ cwd'[q] = cwd[q] /\ nfs'[q] = nfs[q]
              /\ q \in tracked' <=> q \in tracked
              /\ q \in crossed' <=> q \in crossed
              /\ q \in single' => q \in single
              /\ changer'[q] = changer[q] /\ updater'[q] = updater[q],
           \A u \in Thread : u # t =>
              /\ pc'[u] = pc[u] /\ i'[u] = i[u]
              /\ szUpdatedDir'[u] = szUpdatedDir[u]
              /\ Idx_fs_Server_CWD'[u] = Idx_fs_Server_CWD[u],
           PInv(p)'
    PROVE  IInv'
<1>1. ASSUME NEW q \in Process, q # p PROVE PInv(q)'
  <2>1. \A u \in Threads(q) : u \in Thread /\ u # t
    BY <1>1 DEF Threads
  <2> QED
    BY <1>1, <2>1, Untouched
<1> QED
  BY <1>1 DEF IInv

\* A new thread starts with index 0; its process is single no longer.
LEMMA CreateInv ==
    ASSUME IInv, NEW t \in Thread, Create(t)
    PROVE  IInv'
<1> DEFINE p == ProcessOf[t]
<1> USE DEF IInv, Create
<1>0. /\ p \in Process /\ t \in Threads(p) /\ PInv(p)
      /\ cwd[p] # None /\ pc[t] = "none"
  BY CwdAssumption DEF Threads
<1>1. TypeOK' /\ Registers'
  BY DEF TypeOK, Registers
<1>2. PInv(p)'
  <2>1. pc' = [pc EXCEPT ![t] = "idle"] /\ Threads(p) \subseteq Thread
    BY DEF Threads
  <2>2. Inactive(p)' /\ ChangerOwn(p)' /\ SingleRight(p)'
    BY <1>0 DEF PInv, Inactive, ChangerOwn, SingleRight, Threads
  <2>3. CountsRight(p)'
    BY <1>0, <2>1 DEF TypeOK, PInv, CountsRight, Threads
  <2>4. LastLooked(p)'
    BY <1>0, <2>1 DEF TypeOK, PInv, LastLooked, Good, Threads
  <2>5. LastNamed(p)'
    BY <1>0, <2>1 DEF TypeOK, PInv, LastNamed, Threads
  <2> QED
    BY <2>2, <2>3, <2>4, <2>5 DEF PInv
<1>3. single' \subseteq single /\ \A u \in Thread : u # t => pc'[u] = pc[u]
  BY DEF TypeOK
<1> QED
  BY <1>0, <1>1, <1>2, <1>3, ThreadStep

\* A thread that begins to count makes its process crossed unless it is alone.
LEMMA RefreshInv ==
    ASSUME IInv, NEW t \in Thread, Refresh(t)
    PROVE  IInv'
<1> DEFINE p == ProcessOf[t]
<1> USE DEF IInv, Refresh, Bounded, Cross
<1>0. /\ p \in Process /\ t \in Threads(p) /\ PInv(p)
      /\ cwd[p] \in Dir /\ cwd[p] # None
  BY RunsInStarted
<1>1. TypeOK' /\ Registers'
  <2>0. nfs' \in [Process -> Nat]
    BY <1>0 DEF TypeOK
  <2>1. calls' \in 0 .. MaxCall
    <3>1. calls \in 0 .. MaxCall /\ calls < MaxCall /\ MaxCall \in Nat
      BY CwdAssumption DEF TypeOK
    <3> QED
      BY <3>1
  <2>2. /\ pc' \in [Thread -> {"none", "idle", "changed", "copied", "count"}]
        /\ crossed' \in SUBSET Process
    BY <1>0 DEF TypeOK
  <2> QED
    BY <2>0, <2>1, <2>2 DEF TypeOK, Registers
<1>2. PInv(p)'
  <2>1. /\ pc' = [pc EXCEPT ![t] = "count"] /\ Threads(p) \subseteq Thread
        /\ crossed \subseteq crossed'
    BY DEF Threads
  <2>2. \A u \in Threads(p) : Good(u, p) => Good(u, p)'
    BY <2>1 DEF Good, IndexFor
  <2>3. Inactive(p)' /\ ChangerOwn(p)'
    BY <1>0 DEF PInv, Inactive, ChangerOwn, Threads
  <2>4. CountsRight(p)'
    <3> SUFFICES ASSUME p \notin crossed' PROVE CountsRight(p)'
      BY DEF CountsRight
    <3>1. \A u \in Threads(p) \ {t} : pc[u] \in {"none", "idle"}
      BY <2>1 DEF OthersAt, TypeOK
    <3>2. nfs'[p] = 0 /\ i'[t] = 0 /\ pc'[t] = "count"
      BY <1>0 DEF TypeOK, Registers
    <3> QED
      BY <1>0, <2>1, <3>1, <3>2 DEF CountsRight, TypeOK, Threads
  <2>5. SingleRight(p)'
    <3> SUFFICES ASSUME p \in single PROVE SingleRight(p)'
      BY DEF SingleRight
    <3>1. t = Main[p] /\ \A u \in Threads(p) \ {t} : pc[u] = "none"
      BY <1>0 DEF PInv, SingleRight
    <3>2. p \notin crossed'
      BY <1>0, <3>1 DEF PInv, SingleRight, OthersAt
    <3> QED
      BY <1>0, <2>1, <2>2, <3>1, <3>2 DEF PInv, SingleRight, TypeOK, Threads
  <2>6. LastLooked(p)'
    BY <1>0, <2>1, <2>2 DEF TypeOK, PInv, LastLooked, Threads
  <2>7. LastNamed(p)'
    BY <1>0, <2>1 DEF TypeOK, PInv, LastNamed, Threads
  <2> QED
    BY <2>3, <2>4, <2>5, <2>6, <2>7 DEF PInv
<1>3. /\ \A u \in Thread : u # t => pc'[u] = pc[u]
      /\ \A q \in Process : q # p => nfs'[q] = nfs[q]
      /\ \A q \in Process : q # p => (q \in crossed' <=> q \in crossed)
  BY DEF TypeOK
<1> QED
  BY <1>0, <1>1, <1>2, <1>3, ThreadStep

\* One that counts alone has counted what n_fs_server says.
LEMMA CountInv ==
    ASSUME IInv, NEW t \in Thread, Count(t) \/ Counted(t)
    PROVE  IInv'
<1> DEFINE p == ProcessOf[t]
<1> USE DEF IInv, Count, Counted
<1>0. /\ p \in Process /\ t \in Threads(p) /\ PInv(p)
      /\ cwd[p] \in Dir /\ cwd[p] # None /\ pc[t] = "count"
  BY RunsInStarted
<1>a. /\ \A u \in Thread : u # t => pc'[u] = pc[u] /\ i'[u] = i[u]
      /\ pc'[t] \in {"idle", "count"}
      /\ \A q \in Process : q # p => nfs'[q] = nfs[q]
  BY DEF TypeOK
<1>1. TypeOK' /\ Registers'
  <2>1. /\ i[t] \in 0 .. NServers /\ nfs[p] \in Nat /\ NServers \in Nat
        /\ i[t] < NServers => i[t] + 1 \in 0 .. NServers
    BY <1>0, CwdAssumption DEF TypeOK
  <2>2. CASE Count(t)
    <3>0. nfs' \in [Process -> Nat]
      BY <1>0, <2>1, <2>2 DEF TypeOK
    <3>1. i' \in [Thread -> 0 .. NServers]
      BY <2>1, <2>2 DEF TypeOK
    <3>2. \A u \in Thread : pc[u] # "count" => i'[u] = i[u]
      BY <1>0, <1>a
    <3> QED
      BY <2>2, <3>0, <3>1, <3>2 DEF TypeOK, Registers
  <2>3. CASE Counted(t)
    BY <2>1, <2>3 DEF TypeOK, Registers
  <2> QED
    BY <2>2, <2>3
<1>2. PInv(p)'
  <2>1. Threads(p) \subseteq Thread
    BY DEF Threads
  <2>2. \A u \in Threads(p) : Good(u, p)' <=> Good(u, p)
    BY DEF Good
  <2>3. Inactive(p)' /\ ChangerOwn(p)'
    BY <1>0 DEF PInv, Inactive, ChangerOwn, Threads
  <2>4. CountsRight(p)'
    <3> SUFFICES ASSUME p \notin crossed PROVE CountsRight(p)'
      BY DEF CountsRight
    <3>1. /\ nfs[p] = i[t]
          /\ \A u \in Threads(p) \ {t} : pc[u] \in {"none", "idle"}
      BY <1>0 DEF PInv, CountsRight
    <3>2. CASE Count(t)
      <4>1. nfs'[p] = i'[t] /\ pc' = pc
        BY <1>0, <3>1, <3>2 DEF TypeOK
      <4> QED
        BY <1>0, <3>1, <4>1 DEF CountsRight, Threads
    <3>3. CASE Counted(t)
      <4>1. nfs'[p] = NServers /\ pc'[t] = "idle"
        BY <1>0, <3>1, <3>3 DEF TypeOK
      <4> QED
        BY <1>0, <1>a, <2>1, <3>1, <4>1 DEF CountsRight, Threads
    <3> QED
      BY <3>2, <3>3
  <2>5. SingleRight(p)'
    <3> SUFFICES ASSUME p \in single PROVE SingleRight(p)'
      BY DEF SingleRight
    <3>1. t = Main[p]
      BY <1>0 DEF PInv, SingleRight
    <3> QED
      BY <1>0, <1>a, <2>1, <2>2, <3>1 DEF PInv, SingleRight, Threads
  <2>6. LastLooked(p)'
    BY <1>0, <1>a, <2>1, <2>2 DEF PInv, LastLooked, Threads
  <2>7. LastNamed(p)'
    BY <1>0, <1>a, <2>1 DEF PInv, LastNamed, Threads
  <2> QED
    BY <2>3, <2>4, <2>5, <2>6, <2>7 DEF PInv
<1> QED
  BY <1>0, <1>1, <1>2, <1>a, ThreadStep

\* chdir() makes its thread the last changer, which is not yet right; its
\* process is crossed if another thread is counting.
LEMMA ChangeInv ==
    ASSUME IInv, NEW t \in Thread, NEW d \in Dir, Change(t, d)
    PROVE  IInv'
<1> DEFINE p == ProcessOf[t]
<1> USE DEF IInv, Change, Bounded, Cross
<1>0. /\ p \in Process /\ t \in Threads(p) /\ PInv(p) /\ d # None
      /\ cwd[p] \in Dir /\ cwd[p] # None /\ pc[t] = "idle"
  BY RunsInStarted, CwdAssumption
<1>a. /\ \A u \in Thread : u # t => pc'[u] = pc[u]
      /\ pc'[t] = "changed" /\ cwd'[p] = d /\ changer'[p] = t
      /\ \A q \in Process : q # p => cwd'[q] = cwd[q]
      /\ \A q \in Process : q # p => changer'[q] = changer[q]
      /\ \A q \in Process : q # p => (q \in crossed' <=> q \in crossed)
      /\ crossed \subseteq crossed' /\ Threads(p) \subseteq Thread
  BY <1>0 DEF TypeOK, Threads
<1>1. TypeOK' /\ Registers'
  <2>1. calls' \in 0 .. MaxCall
    <3>1. calls \in 0 .. MaxCall /\ calls < MaxCall /\ MaxCall \in Nat
      BY CwdAssumption DEF TypeOK
    <3> QED
      BY <3>1
  <2>2. /\ pc' \in [Thread -> {"none", "idle", "changed", "copied", "count"}]
        /\ cwd' \in [Process -> Dir \cup {None}]
        /\ changer' \in [Process -> Thread \cup {None}]
        /\ crossed' \in SUBSET Process
    BY <1>0 DEF TypeOK
  <2> QED
    BY <2>1, <2>2, <1>a DEF TypeOK, Registers
<1>2. PInv(p)'
  <2>2. \A u \in Threads(p) : Good(u, p) => Good(u, p)'
    BY <1>a DEF Good, IndexFor
  <2>3. Inactive(p)' /\ ChangerOwn(p)'
    BY <1>0, <1>a DEF PInv, Inactive, ChangerOwn, Threads
  <2>4. CountsRight(p)'
    <3> SUFFICES ASSUME p \notin crossed' PROVE CountsRight(p)'
      BY DEF CountsRight
    <3>1. \A u \in Threads(p) : pc[u] # "count"
      BY <1>0, <1>a DEF OthersAt
    <3>2. \A u \in Threads(p) : pc'[u] # "count"
      BY <3>1, <1>a
    <3> QED
      BY <1>0, <1>a, <3>1, <3>2 DEF PInv, CountsRight, Threads
  <2>5. SingleRight(p)'
    <3> SUFFICES ASSUME p \in single PROVE SingleRight(p)'
      BY DEF SingleRight
    <3>1. t = Main[p] /\ \A u \in Threads(p) \ {t} : pc[u] = "none"
      BY <1>0 DEF PInv, SingleRight
    <3>2. p \notin crossed'
      BY <1>0, <3>1 DEF PInv, SingleRight, OthersAt
    <3> QED
      BY <1>0, <1>a, <2>2, <3>1, <3>2 DEF PInv, SingleRight, Threads
  <2>6. LastLooked(p)'
    BY <1>0, <1>a, <2>2 DEF PInv, LastLooked, Threads
  <2>7. LastNamed(p)'
    BY <1>0, <1>a DEF PInv, LastNamed, Threads
  <2> QED
    BY <2>3, <2>4, <2>5, <2>6, <2>7 DEF PInv
<1> QED
  BY <1>0, <1>1, <1>2, <1>a, ThreadStep

\* What is counted does not depend on a thread that moves within chdir(), or
\* from there to idle.
LEMMA WithinChdir ==
    ASSUME IInv, NEW t \in Thread, NEW l \in {"copied", "idle"},
           pc[t] \in {"changed", "copied"}, pc' = [pc EXCEPT ![t] = l],
           UNCHANGED <<cwd, nfs, i, calls, tracked, crossed, single, changer>>
    PROVE  LET p == ProcessOf[t]
           IN  CountsRight(p)' /\ Inactive(p)' /\ ChangerOwn(p)'
<1> DEFINE p == ProcessOf[t]
<1>0. /\ p \in Process /\ t \in Threads(p) /\ PInv(p)
      /\ cwd[p] \in Dir /\ cwd[p] # None
  BY RunsInStarted DEF IInv
<1>a. /\ \A u \in Thread : u # t => pc'[u] = pc[u]
      /\ pc'[t] = l /\ Threads(p) \subseteq Thread
  BY DEF IInv, TypeOK, Threads
<1>1. Inactive(p)' /\ ChangerOwn(p)'
  BY <1>0 DEF PInv, Inactive, ChangerOwn, Threads
<1>2. CountsRight(p)'
  <2> SUFFICES ASSUME p \notin crossed PROVE CountsRight(p)'
    BY DEF CountsRight
  <2>1. \A u \in Threads(p) : pc[u] # "count"
    BY <1>0 DEF PInv, CountsRight
  <2>2. \A u \in Threads(p) : pc'[u] # "count"
    BY <1>a, <2>1
  <2> QED
    BY <1>0, <2>1, <2>2 DEF PInv, CountsRight, Threads
<1> QED
  BY <1>1, <1>2

\* Copying makes its thread the last updater.
LEMMA CopyInv ==
    ASSUME IInv, NEW t \in Thread, Copy(t)
    PROVE  IInv'
<1> DEFINE p == ProcessOf[t]
<1> USE DEF IInv, Copy
<1>0. /\ p \in Process /\ t \in Threads(p) /\ PInv(p)
      /\ cwd[p] \in Dir /\ cwd[p] # None /\ pc[t] = "changed"
  BY RunsInStarted
<1>a. /\ \A u \in Thread : u # t =>
            pc'[u] = pc[u] /\ szUpdatedDir'[u] = szUpdatedDir[u]
      /\ pc'[t] = "copied" /\ szUpdatedDir'[t] = cwd[p] /\ updater'[p] = t
      /\ \A q \in Process : q # p => updater'[q] = updater[q]
      /\ Threads(p) \subseteq Thread
  BY <1>0 DEF TypeOK, Threads
<1>1. CountsRight(p)' /\ Inactive(p)' /\ ChangerOwn(p)'
  BY <1>0, WithinChdir
<1>2. TypeOK' /\ Registers'
  BY <1>0, <1>a DEF TypeOK, Registers
<1>3. \A u \in Threads(p) : u # t => (Good(u, p)' <=> Good(u, p))
  BY <1>a DEF Good
<1>4. SingleRight(p)'
  BY <1>0, <1>a, <1>3 DEF PInv, SingleRight, Threads
<1>5. LastLooked(p)'
  BY <1>0, <1>a, <1>3 DEF PInv, LastLooked, Threads
<1>6. LastNamed(p)'
  <2> SUFFICES ASSUME changer[p] \in Thread => pc'[changer[p]] # "changed",
                      NEW u \in Threads(p), u = changer[p] \/ u = updater'[p]
               PROVE  szUpdatedDir'[u] = cwd[p]
    BY <1>0 DEF LastNamed, Threads
  <2>1. CASE u = t
    BY <1>a, <2>1
  <2>2. CASE u # t
    BY <1>0, <1>a, <2>2 DEF PInv, LastNamed
  <2> QED
    BY <2>1, <2>2
<1> QED
  BY <1>0, <1>1, <1>2, <1>4, <1>5, <1>6, <1>a, ThreadStep DEF PInv

\* What is looked up goes with the name, and is right unless the process is
\* crossed.
LEMMA LookInv ==
    ASSUME IInv, NEW t \in Thread, Look(t)
    PROVE  IInv'
<1> DEFINE p == ProcessOf[t]
<1> USE DEF IInv, Look
<1>0. /\ p \in Process /\ t \in Threads(p) /\ PInv(p)
      /\ cwd[p] \in Dir /\ cwd[p] # None /\ pc[t] = "copied"
  BY RunsInStarted
<1>a. /\ \A u \in Thread : u # t =>
            /\ pc'[u] = pc[u]
            /\ Idx_fs_Server_CWD'[u] = Idx_fs_Server_CWD[u]
      /\ pc'[t] = "idle"
      /\ Idx_fs_Server_CWD'[t] = IndexOf(nfs[p], szUpdatedDir[t])
      /\ Threads(p) \subseteq Thread
  BY <1>0 DEF TypeOK, Threads
<1>1. CountsRight(p)' /\ Inactive(p)' /\ ChangerOwn(p)'
  BY <1>0, WithinChdir
<1>b. p \notin crossed => nfs[p] = NServers \/ (p \notin tracked /\ nfs[p] = 0)
  <2>1. p \notin crossed => \A u \in Threads(p) : pc[u] # "count"
    BY <1>0 DEF PInv, CountsRight
  <2> QED
    BY <1>0, <2>1 DEF PInv, CountsRight
<1>c. szUpdatedDir[t] \in Dir =>
         /\ IndexOf(nfs[p], szUpdatedDir[t]) \in -1 .. NServers
         /\ IndexFor(IndexOf(nfs[p], szUpdatedDir[t]), szUpdatedDir[t],
                     p \in tracked, p \in crossed)
  <2>1. nfs[p] \in Nat
    BY <1>0 DEF TypeOK
  <2> QED
    BY <2>1, <1>b, IndexOfServer
<1>d. szUpdatedDir[t] \in Dir
  BY <1>0 DEF Registers
<1>2. TypeOK' /\ Registers'
  BY <1>0, <1>a, <1>c, <1>d DEF TypeOK, Registers
<1>3. /\ \A u \in Threads(p) : u # t => (Good(u, p)' <=> Good(u, p))
      /\ Good(t, p)'
  BY <1>a, <1>c, <1>d DEF Good
<1>4. SingleRight(p)'
  BY <1>0, <1>a, <1>3 DEF PInv, SingleRight, Threads
<1>5. LastLooked(p)'
  BY <1>0, <1>a, <1>3 DEF PInv, LastLooked, Threads
<1>6. LastNamed(p)'
  BY <1>0, <1>a DEF PInv, LastNamed, Threads
<1> QED
  BY <1>0, <1>1, <1>2, <1>4, <1>5, <1>6, <1>a, ThreadStep DEF PInv

\* getcwd() fills the copy of its thread, or finds it in place.
LEMMA GetcwdInv ==
    ASSUME IInv, NEW t \in Thread, Getcwd(t)
    PROVE  IInv'
<1> DEFINE p == ProcessOf[t]
           answer == IF szUpdatedDir[t] = None THEN cwd[p]
                                               ELSE szUpdatedDir[t]
<1> USE DEF IInv
<1>0. /\ p \in Process /\ t \in Threads(p) /\ PInv(p) /\ None \notin Dir
      /\ cwd[p] \in Dir /\ cwd[p] # None
  BY RunsInStarted, CwdAssumption DEF Getcwd
<1>a. /\ answer \in Dir
      /\ told' = [told EXCEPT ![p] = answer]
      /\ szUpdatedDir' = [szUpdatedDir EXCEPT ![t] = answer]
      /\ UNCHANGED <<cwd, nfs, pc, i, calls, Idx_fs_Server_CWD, counted, past>>
  BY <1>0 DEF Getcwd, TypeOK
<1>b. /\ \A u \in Thread : szUpdatedDir[u] # None =>
                              szUpdatedDir'[u] = szUpdatedDir[u]
      /\ \A u \in Thread : u # t => szUpdatedDir'[u] = szUpdatedDir[u]
      /\ Threads(p) \subseteq Thread
  BY <1>a DEF TypeOK, Threads
<1>1. TypeOK' /\ Registers'
  BY <1>0, <1>a, <1>b DEF TypeOK, Registers
<1>2. PInv(p)'
  <2>1. Inactive(p)' /\ ChangerOwn(p)' /\ CountsRight(p)'
    BY <1>0, <1>a DEF PInv, Inactive, ChangerOwn, CountsRight, Threads
  <2>2. \A u \in Threads(p) : Good(u, p) => Good(u, p)'
    BY <1>0, <1>a, <1>b DEF Good
  <2>3. SingleRight(p)'
    BY <1>0, <1>a, <1>b, <2>2, MainOwn DEF PInv, SingleRight, Threads
  <2>4. LastLooked(p)'
    BY <1>a, <1>0, <2>2 DEF PInv, LastLooked, Threads
  <2>5. LastNamed(p)'
    BY <1>a, <1>b, <1>0 DEF PInv, LastNamed, Threads
  <2> QED
    BY <2>1, <2>3, <2>4, <2>5 DEF PInv
<1> QED
  BY <1>0, <1>1, <1>2, <1>a, <1>b, ThreadStep

\* The test of a relative path reads only.
LEMMA RelativeInv ==
    ASSUME IInv, NEW t \in Thread, Relative(t)
    PROVE  IInv'
<1> USE DEF IInv, Relative
<1>0. ProcessOf[t] \in Process
  BY CwdAssumption
<1>1. TypeOK' /\ Registers'
  <2>1. NServers \in -1 .. NServers
    BY CwdAssumption
  <2> QED
    BY <1>0, <2>1 DEF TypeOK, Registers
<1>2. PInv(ProcessOf[t])'
  BY <1>0, Untouched
<1> QED
  BY <1>0, <1>1, <1>2, ThreadStep

-----------------------------------------------------------------------------
(* New processes.                                                          *)

\* A process that starts has one thread, whose copy init() has filled.
LEMMA StartInv ==
    ASSUME IInv, NEW p \in Process, NEW d \in Dir, NEW on \in BOOLEAN,
           Start(p, d, on)
    PROVE  IInv'
<1> DEFINE t == Main[p]
           n == IF on THEN NServers ELSE 0
<1> USE DEF IInv
<1>0. /\ t \in Thread /\ t \in Threads(p) /\ PInv(p) /\ d # None
      /\ p = ProcessOf[t] /\ Threads(p) \subseteq Thread
  BY MainOwn, CwdAssumption DEF Threads
<1>a. /\ p \notin tracked \cup crossed \cup single
      /\ \A u \in Threads(p) : pc[u] = "none"
  BY <1>0 DEF Start, PInv, Inactive
<1>b. /\ IndexOf(n, d) \in -1 .. NServers
      /\ IndexFor(IndexOf(n, d), d, on, FALSE)
  <2>1. n \in Nat /\ (n = NServers \/ (~on /\ n = 0))
    BY CwdAssumption
  <2> QED
    BY <2>1, IndexOfServer
<1> HIDE DEF n
<1>c. /\ cwd' = [cwd EXCEPT ![p] = d] /\ pc' = [pc EXCEPT ![t] = "idle"]
      /\ nfs' = [nfs EXCEPT ![p] = n] /\ single' = single \cup {p}
      /\ tracked' = IF on THEN tracked \cup {p} ELSE tracked
      /\ szUpdatedDir' = [szUpdatedDir EXCEPT ![t] = d]
      /\ Idx_fs_Server_CWD' = [Idx_fs_Server_CWD EXCEPT ![t] = IndexOf(n, d)]
      /\ told' = [told EXCEPT ![p] = d]
      /\ changer' = [changer EXCEPT ![p] = t]
      /\ updater' = [updater EXCEPT ![p] = t]
      /\ UNCHANGED <<i, calls, counted, crossed>>
  BY DEF Start, n
<1>d. /\ cwd'[p] = d /\ pc'[t] = "idle" /\ nfs'[p] = n
      /\ szUpdatedDir'[t] = d /\ Idx_fs_Server_CWD'[t] = IndexOf(n, d)
      /\ changer'[p] = t /\ updater'[p] = t
      /\ \A u \in Thread : u # t =>
            /\ pc'[u] = pc[u] /\ szUpdatedDir'[u] = szUpdatedDir[u]
            /\ Idx_fs_Server_CWD'[u] = Idx_fs_Server_CWD[u]
      /\ \A q \in Process : q # p =>
            /\ cwd'[q] = cwd[q] /\ nfs'[q] = nfs[q]
            /\ changer'[q] = changer[q] /\ updater'[q] = updater[q]
  BY <1>0, <1>c DEF TypeOK
<1>1. TypeOK' /\ Registers'
  <2>1. n \in Nat
    BY CwdAssumption DEF n
  <2>2. TypeOK'
    BY <1>0, <1>b, <1>c, <2>1 DEF TypeOK
  <2>3. Registers'
    BY <1>a, <1>0, <1>c, <1>d DEF Registers
  <2> QED
    BY <2>2, <2>3
<1>2. PInv(p)'
  <2>1. Good(t, p)'
    BY <1>a, <1>b, <1>c, <1>d DEF Good, IndexFor
  <2>2. Inactive(p)' /\ ChangerOwn(p)'
    BY <1>0, <1>d DEF Inactive, ChangerOwn, Threads
  <2>3. CountsRight(p)'
    BY <1>0, <1>a, <1>c, <1>d DEF CountsRight, Threads, n
  <2>4. SingleRight(p)'
    BY <1>0, <1>a, <1>c, <1>d, <2>1 DEF SingleRight, Threads
  <2>5. LastLooked(p)' /\ LastNamed(p)'
    BY <1>0, <1>d, <2>1 DEF LastLooked, LastNamed, Threads
  <2> QED
    BY <2>2, <2>3, <2>4, <2>5 DEF PInv
<1>3. \A q \in Process : q # p => /\ q \in tracked' <=> q \in tracked
                                  /\ q \in single' => q \in single
  BY <1>c
<1> QED
  BY <1>0, <1>1, <1>2, <1>3, <1>c, <1>d, ThreadStep

\* fork() gives the child a copy of the thread that called it, and crosses it if
\* another thread is counting.
LEMMA ForkInv ==
    ASSUME IInv, NEW t \in Thread, NEW q \in Process, Fork(t, q)
    PROVE  IInv'
<1> DEFINE p == ProcessOf[t]
           u == Main[q]
<1> USE DEF IInv
<1>0. /\ p \in Process /\ cwd[p] \in Dir /\ cwd[p] # None /\ p # q
      /\ t \in Threads(p) /\ PInv(p) /\ pc[t] = "idle"
  BY RunsInStarted DEF Fork
<1>1. /\ u \in Thread /\ u \in Threads(q) /\ PInv(q) /\ u # t
      /\ q = ProcessOf[u] /\ Threads(q) \subseteq Thread
  BY <1>0, MainOwn, CwdAssumption DEF Threads
<1>a. /\ q \notin tracked \cup crossed \cup single
      /\ \A v \in Threads(q) : pc[v] = "none"
      /\ changer[q] = None /\ updater[q] = None
  BY <1>1 DEF Fork, PInv, Inactive
<1>c. /\ cwd' = [cwd EXCEPT ![q] = cwd[p]] /\ pc' = [pc EXCEPT ![u] = "idle"]
      /\ nfs' = [nfs EXCEPT ![q] = nfs[p]]
      /\ szUpdatedDir' = [szUpdatedDir EXCEPT ![u] = szUpdatedDir[t]]
      /\ Idx_fs_Server_CWD' =
            [Idx_fs_Server_CWD EXCEPT ![u] = Idx_fs_Server_CWD[t]]
      /\ tracked' = IF p \in tracked THEN tracked \cup {q} ELSE tracked
      /\ single' = IF p \in single THEN single \cup {q} ELSE single
      /\ crossed' = IF p \in crossed \/ OthersAt(t, {"count"})
                      THEN crossed \cup {q} ELSE crossed
      /\ UNCHANGED <<i, calls, seen, changer, updater>>
  BY DEF Fork, Cross
<1>d. /\ cwd'[q] = cwd[p] /\ pc'[u] = "idle" /\ nfs'[q] = nfs[p]
      /\ szUpdatedDir'[u] = szUpdatedDir[t]
      /\ Idx_fs_Server_CWD'[u] = Idx_fs_Server_CWD[t]
      /\ \A v \in Thread : v # u =>
            /\ pc'[v] = pc[v] /\ szUpdatedDir'[v] = szUpdatedDir[v]
            /\ Idx_fs_Server_CWD'[v] = Idx_fs_Server_CWD[v]
      /\ \A r \in Process : r # q =>
            /\ cwd'[r] = cwd[r] /\ nfs'[r] = nfs[r]
            /\ r \in tracked' <=> r \in tracked
            /\ r \in crossed' <=> r \in crossed
            /\ r \in single' => r \in single
  BY <1>1, <1>c DEF TypeOK
<1>e. /\ q \in tracked' <=> p \in tracked
      /\ q \in single' <=> p \in single
      /\ q \in crossed' <=> p \in crossed \/ OthersAt(t, {"count"})
  BY <1>a, <1>c
<1>2. TypeOK' /\ Registers'
  <2>1. TypeOK'
    BY <1>0, <1>1, <1>c DEF TypeOK
  <2>2. Registers'
    BY <1>a, <1>1, <1>c, <1>d DEF Registers
  <2> QED
    BY <2>1, <2>2
<1>3. PInv(q)'
  <2>1. Inactive(q)' /\ ChangerOwn(q)'
    BY <1>0, <1>a, <1>c, <1>d, CwdAssumption DEF Inactive, ChangerOwn, Threads
  <2>2. CountsRight(q)'
    <3> SUFFICES ASSUME q \notin crossed' PROVE CountsRight(q)'
      BY DEF CountsRight
    <3>1. \A v \in Threads(p) : pc[v] # "count"
      BY <1>0, <1>e DEF OthersAt
    <3>2. nfs[p] = NServers \/ (p \notin tracked /\ nfs[p] = 0)
      BY <1>0, <1>e, <3>1 DEF PInv, CountsRight
    <3>3. \A v \in Threads(q) : pc'[v] # "count"
      BY <1>1, <1>a, <1>d
    <3> QED
      BY <1>d, <1>e, <3>2, <3>3 DEF CountsRight, Threads
  <2>3. SingleRight(q)'
    <3> SUFFICES ASSUME p \in single PROVE SingleRight(q)'
      BY <1>e DEF SingleRight
    <3>1. /\ t = Main[p] /\ Good(t, p) /\ szUpdatedDir[t] = cwd[p]
          /\ p \notin crossed /\ \A v \in Threads(p) \ {t} : pc[v] = "none"
      BY <1>0 DEF PInv, SingleRight
    <3>2. q \notin crossed'
      BY <1>e, <3>1 DEF OthersAt
    <3>3. Good(u, q)'
      BY <1>d, <1>e, <3>1, <3>2 DEF Good
    <3>4. \A v \in Threads(q) \ {u} : pc'[v] = "none"
      BY <1>1, <1>a, <1>d
    <3> QED
      BY <1>d, <3>1, <3>2, <3>3, <3>4 DEF SingleRight, Threads
  <2>4. LastLooked(q)' /\ LastNamed(q)'
    BY <1>1, <1>a, <1>c, CwdAssumption DEF LastLooked, LastNamed, Threads
  <2> QED
    BY <2>1, <2>2, <2>3, <2>4 DEF PInv
<1>4. \A r \in Process : changer'[r] = changer[r] /\ updater'[r] = updater[r]
  BY <1>c
<1> QED
  BY <1>1, <1>2, <1>3, <1>4, <1>c, <1>d, ThreadStep

-----------------------------------------------------------------------------
(* The theorems.                                                           *)

\* Every step keeps the invariant.
LEMMA NextInv == IInv /\ [Next]_vars => IInv'
<1> SUFFICES ASSUME IInv, [Next]_vars PROVE IInv'
  OBVIOUS
<1>1. CASE UNCHANGED vars
  <2>1. TypeOK' /\ Registers'
    BY <1>1 DEF vars, IInv, TypeOK, Registers
  <2>2. \A p \in Process : PInv(p)'
    BY <1>1, Untouched DEF vars
  <2> QED
    BY <2>1, <2>2 DEF IInv
<1>2. CASE Next
  BY <1>2, StartInv, ForkInv, CreateInv, RefreshInv, CountInv, ChangeInv,
     CopyInv, LookInv, GetcwdInv, RelativeInv DEF Next
<1> QED
  BY <1>1, <1>2

\* The strengthening of LastIsRight holds throughout: what each process knows of
\* its servers, and whose copies are right.
THEOREM Invariant == Spec => []IInv
<1>1. Init => IInv
  BY InitInv
<1>2. IInv /\ [Next]_vars => IInv'
  BY NextInv
<1> QED
  BY <1>1, <1>2, PTL DEF Spec

\* Type correctness: however refreshes and lookups overlap, an index is -1, that
\* of a server or of the entry after the last one, never beyond it
\* (Update_CWD, Check_FS_Server).
THEOREM TypeCorrect == Spec => []TypeOK
<1>1. IInv => TypeOK
  BY DEF IInv
<1> QED
  BY <1>1, Invariant, PTL

\* When no chdir() is under way in a process, the last changer and the last
\* updater have the right name and never the index of another server; they have
\* the right one unless the process was started with the tool off or was crossed
\* (Update_CWD against Update_Parameters).
THEOREM LastThreadsRight == Spec => []LastIsRight
<1>1. IInv => LastIsRight
  <2> SUFFICES ASSUME IInv, NEW p \in Started,
                      \A t \in Threads(p) : pc[t] \notin {"changed", "copied"},
                      NEW t \in Threads(p) \cap {changer[p], updater[p]}
               PROVE  LET idx   == Idx_fs_Server_CWD[t]
                          right == ServerOf[cwd[p]]
                      IN  /\ szUpdatedDir[t] = cwd[p]
                          /\ idx \in {right, -1} \/ (right = -1 /\ idx = NServers)
                          /\ p \in tracked \ crossed => idx = right
    BY DEF LastIsRight
  <2>1. p \in Process /\ cwd[p] # None /\ PInv(p)
    BY DEF Started, IInv
  <2>2. szUpdatedDir[t] = cwd[p]
    BY <2>1 DEF PInv, ChangerOwn, LastNamed
  <2>3. Good(t, p)
    BY <2>1 DEF PInv, LastLooked
  <2> QED
    BY <2>2, <2>3 DEF Good, IndexFor
<1> QED
  BY <1>1, Invariant, PTL

-----------------------------------------------------------------------------
(* Cwd implements WorkingDir.                                              *)

\* A step that neither tells nor counts anything for process q, and does not
\* make it single or tracked, is one WorkingDir allows it.
LEMMA QuietAllowed ==
    ASSUME NEW q \in Process,
           told'[q] = told[q], counted'[q] = counted[q],
           q \in tracked' <=> q \in tracked,
           q \in single' => q \in single
    PROVE  W!Start(q) \/ W!Threads(q) \/ W!Single(q)
BY DEF W!Threads, W!Single, W!Chdir, W!Same

\* A process with one thread has the right copies when that thread is idle, and
\* no empty tag.
LEMMA SingleIdle ==
    ASSUME IInv, NEW t \in Thread, pc[t] = "idle", ProcessOf[t] \in single
    PROVE  LET p == ProcessOf[t]
           IN  /\ szUpdatedDir[t] = cwd[p] /\ nfs[p] \in {0, NServers}
               /\ \/ Idx_fs_Server_CWD[t] = ServerOf[cwd[p]]
                  \/ p \notin tracked /\ Idx_fs_Server_CWD[t] = -1
<1> DEFINE p == ProcessOf[t]
<1>1. p \in Process /\ t \in Threads(p) /\ PInv(p)
  BY RunsInStarted DEF IInv
<1>2. t = Main[p] /\ p \notin crossed
  BY <1>1 DEF PInv, SingleRight
<1>3. \A u \in Threads(p) : pc[u] # "count"
  BY <1>1, <1>2 DEF PInv, SingleRight
<1> QED
  BY <1>1, <1>2, <1>3 DEF PInv, SingleRight, CountsRight, Good, IndexFor

\* The initial states of Cwd are initial states of WorkingDir.
LEMMA InitRefines == Init => W!Init
BY DEF Init, W!Init

\* Each step of Cwd is a step of WorkingDir.
LEMMA NextRefines ==
    ASSUME IInv, Next
    PROVE  W!Next
<1> USE CwdAssumption
<1> SUFFICES ASSUME NEW q \in Process
             PROVE  W!Start(q) \/ W!Threads(q) \/ W!Single(q)
  BY DEF W!Next
<1>1. ASSUME NEW p \in Process, NEW d \in Dir, NEW on \in BOOLEAN,
             Start(p, d, on)
      PROVE  W!Start(q) \/ W!Threads(q) \/ W!Single(q)
  <2>1. CASE q = p
    BY <1>1, <2>1 DEF Start, IInv, TypeOK, W!Start
  <2>2. CASE q # p
    BY <1>1, <2>2, QuietAllowed DEF Start, IInv, TypeOK
  <2> QED
    BY <2>1, <2>2
<1>2. ASSUME NEW t \in Thread, NEW p \in Process, Fork(t, p)
      PROVE  W!Start(q) \/ W!Threads(q) \/ W!Single(q)
  <2>1. CASE q = p
    <3>1. pc[t] # "none"
      BY <1>2 DEF Fork
    <3>2. cwd[ProcessOf[t]] # None
      BY <3>1, RunsInStarted
    <3> QED
      BY <1>2, <2>1, <3>2 DEF Fork, IInv, TypeOK, W!Start
  <2>2. CASE q # p
    BY <1>2, <2>2, QuietAllowed DEF Fork
  <2> QED
    BY <2>1, <2>2
<1>3. ASSUME NEW t \in Thread, Refresh(t) \/ Count(t) \/ Counted(t)
      PROVE  W!Start(q) \/ W!Threads(q) \/ W!Single(q)
  BY <1>3, QuietAllowed DEF Refresh, Count, Counted
<1>4. ASSUME NEW t \in Thread, Create(t)
      PROVE  W!Start(q) \/ W!Threads(q) \/ W!Single(q)
  BY <1>4, QuietAllowed DEF Create
<1>5. ASSUME NEW t \in Thread, Copy(t) \/ Look(t)
      PROVE  W!Start(q) \/ W!Threads(q) \/ W!Single(q)
  BY <1>5, QuietAllowed DEF Copy, Look
<1>6. ASSUME NEW t \in Thread, NEW d \in Dir, Change(t, d)
      PROVE  W!Start(q) \/ W!Threads(q) \/ W!Single(q)
  BY <1>6, QuietAllowed DEF Change
<1>7. ASSUME NEW t \in Thread, Getcwd(t)
      PROVE  W!Start(q) \/ W!Threads(q) \/ W!Single(q)
  <2>1. CASE q = ProcessOf[t] /\ q \in single
    <3>1. szUpdatedDir[t] = cwd[q] /\ cwd[q] # None
      BY <1>7, <2>1, SingleIdle, RunsInStarted DEF Getcwd
    <3>2. told'[q] = cwd[q]
      BY <1>7, <2>1, <3>1 DEF Getcwd, IInv, TypeOK
    <3> QED
      BY <1>7, <2>1, <3>2 DEF Getcwd, W!Single, W!Getcwd, W!Same
  <2>2. CASE q = ProcessOf[t] /\ q \notin single
    BY <1>7, <2>2 DEF Getcwd, W!Threads
  <2>3. CASE q # ProcessOf[t]
    BY <1>7, <2>3, QuietAllowed DEF Getcwd, IInv, TypeOK
  <2> QED
    BY <2>1, <2>2, <2>3
<1>8. ASSUME NEW t \in Thread, Relative(t)
      PROVE  W!Start(q) \/ W!Threads(q) \/ W!Single(q)
  <2>1. CASE q = ProcessOf[t] /\ q \in single
    <3>1. /\ nfs[q] \in {0, NServers}
          /\ \/ Idx_fs_Server_CWD[t] = ServerOf[cwd[q]]
             \/ q \notin tracked /\ Idx_fs_Server_CWD[t] = -1
      BY <1>8, <2>1, SingleIdle DEF Relative
    <3>2. counted'[q] = Idx_fs_Server_CWD[t]
      <4>1. ~(nfs[q] > NServers)
        BY <3>1
      <4> QED
        BY <1>8, <2>1, <4>1 DEF Relative, IInv, TypeOK
    <3> QED
      BY <1>8, <2>1, <3>1, <3>2
         DEF Relative, W!Single, W!Relative, W!Same
  <2>2. CASE q = ProcessOf[t] /\ q \notin single
    BY <1>8, <2>2 DEF Relative, W!Threads
  <2>3. CASE q # ProcessOf[t]
    BY <1>8, <2>3, QuietAllowed DEF Relative, IInv, TypeOK
  <2> QED
    BY <2>1, <2>2, <2>3
<1> QED
  BY <1>1, <1>2, <1>3, <1>4, <1>5, <1>6, <1>7, <1>8 DEF Next

\* Every process implements WorkingDir: with one thread it is told the directory
\* it is in, and its relative names are accounted to that directory's server.
THEOREM Refinement == Spec => WorkingDirSpec
<1>1. Init => W!Init
  BY InitRefines
<1>2. IInv /\ [Next]_vars => [W!Next]_(W!vars)
  <2>1. UNCHANGED vars => UNCHANGED W!vars
    BY DEF vars, W!vars
  <2> QED
    BY <2>1, NextRefines
<1> QED
  BY <1>1, <1>2, Invariant, PTL DEF Spec, WorkingDirSpec, W!Spec

=============================================================================
