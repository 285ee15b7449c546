---------------------------- MODULE ParamsProofs ----------------------------
(***************************************************************************)
(* Theorems about Params for any number of single-threaded processes, of   *)
(* runs of set_io_param and of servers.                                    *)
(***************************************************************************)
EXTENDS Params, TLAPS

USE DEF seg, copy

OneThreadEach == \A t, u \in Thread : ProcessOf[t] = ProcessOf[u] => t = u

\* What thread t may do next.
Act(t) ==
    \/ Construct(t) \/ Refresh(t) \/ InCall(t)
    \/ \E k \in Kind, f \in Server \cup {None} : Begin(t, k, f)

\* A step that changes nothing of other threads and of other processes.
Local(t) ==
    /\ \A u \in Thread \ {t} : pc'[u] = pc[u] /\ call'[u] = call[u]
    /\ \A p \in Process \ {Proc(t)} :
          /\ own'[p] = own[p] /\ ownStamp'[p] = ownStamp[p]
          /\ active'[p] = active[p] /\ nfs'[p] = nfs[p]
          /\ p \in running' <=> p \in running
    /\ running \subseteq running'
    /\ pub' = pub

\* The part of SyncedAgree about one process.
Agree(p) ==
    Settled(p) /\ NoPublisher /\ ownStamp[p] = stamp
        => own[p] = word /\ nfs[p] = NConfigured /\ active[p]

CallRec == [kind : Kind, file : Server \cup {None},
            idx : 0 .. MAX_FS_SERVER \cup {None}, i : 0 .. NConfigured,
            reg : Setting, calm : BOOLEAN]

\* The inductive invariant.
IInv == TypeOK /\ SyncInv /\ SyncedAgree

-----------------------------------------------------------------------------
(* Types.                                                                  *)

\* The registers of a thread in no call are of their type.
LEMMA NoCallType == NoCall \in CallRec
BY ParamsAssumption DEF NoCall, CallRec, Kind, Setting

\* Check_FS_Server returns -1 or an index with room in the tables, unless it is
\* asked about more servers than there is room for.
LEMMA CheckType ==
    ASSUME NEW n \in 0 .. MAX_FS_SERVER, NEW f \in Server \cup {None}
    PROVE  Check_FS_Server(n, f) \in 0 .. MAX_FS_SERVER \cup {None}
BY ParamsAssumption DEF Check_FS_Server, Server, None

\* What any thread does keeps the variables within their types; the number of
\* servers stays below the room there is because it follows the loop index.
LEMMA ActType ==
    ASSUME TypeOK, NEW t \in Thread, Copying(t), Act(t)
    PROVE  TypeOK'
<1> USE DEF Goto, Idle
<1>0. /\ Proc(t) \in Process /\ call[t] \in CallRec
      /\ call \in [Thread -> CallRec]
      /\ nfs[Proc(t)] \in 0 .. MAX_FS_SERVER
      /\ NConfigured \in Nat /\ MAX_FS_SERVER \in Nat /\ NConfigured <= MAX_FS_SERVER
  BY ParamsAssumption DEF TypeOK, Proc, CallRec
<1>c. ASSUME NEW c \in CallRec
      PROVE  [call EXCEPT ![t] = c] \in [Thread -> CallRec]
  BY <1>0
<1>t. ASSUME call' \in [Thread -> CallRec]
      PROVE  call' \in [Thread -> [kind : Kind, file : Server \cup {None},
                            idx : 0 .. MAX_FS_SERVER \cup {None},
                            i : 0 .. NConfigured, reg : Setting,
                            calm : BOOLEAN]]
  BY <1>t DEF CallRec
<1>a. ASSUME AfterRefresh(t)
      PROVE  /\ running' \subseteq Process /\ pc' \in [Thread -> PCs]
             /\ call' \in [Thread -> CallRec]
  <2> DEFINE c == [call[t] EXCEPT !.i = 0, !.reg = Zero]
  <2>1. 0 \in 0 .. NConfigured /\ Zero \in Setting
    BY <1>0 DEF Setting
  <2>2. c \in CallRec
    BY <1>0, <2>1 DEF CallRec
  <2>3. call' = [call EXCEPT ![t] = c]
    BY <1>a DEF AfterRefresh
  <2> HIDE DEF c
  <2>4. call' \in [Thread -> CallRec]
    BY <1>c, <2>2, <2>3
  <2>5. running' \subseteq Process /\ pc' \in [Thread -> PCs]
    BY <1>0, <1>a DEF AfterRefresh, TypeOK, PCs
  <2> QED
    BY <2>4, <2>5
<1>d. ASSUME Idle(t)
      PROVE  pc' \in [Thread -> PCs] /\ call' \in [Thread -> CallRec]
  BY <1>c, <1>d, NoCallType DEF Idle, TypeOK, PCs
<1>1. CASE Create(t)
  <2>1. call' \in [Thread -> CallRec]
    BY <1>1, <1>c, NoCallType DEF Create
  <2>2. own' \in [Process -> [Server -> Setting]]
    <3>1. Config \in [Server -> Setting]
      BY ParamsAssumption DEF Setting
    <3> QED
      BY <1>1, <3>1 DEF Create, TypeOK
  <2>3. nfs' \in [Process -> 0 .. MAX_FS_SERVER]
    BY <1>0, <1>1 DEF Create, TypeOK
  <2> QED
    BY <1>1, <1>t, <2>1, <2>2, <2>3 DEF Create, TypeOK, PCs
<1>2. CASE CreateStamp(t)
  <2>1. stamp' \in Nat /\ clock' \in Nat
    <3>1. clock \in Nat
      BY DEF TypeOK
    <3> QED
      BY <1>2, <3>1 DEF CreateStamp
  <2>2. active' \in [Process -> BOOLEAN] /\ pc' \in [Thread -> PCs]
    BY <1>0, <1>2 DEF CreateStamp, TypeOK, PCs
  <2> QED
    BY <1>2, <2>1, <2>2 DEF CreateStamp, TypeOK
<1>3. CASE CreateWord(t)
  <2> DEFINE c == [call[t] EXCEPT !.i = call[t].i + 1]
  <2>1. call[t].i \in Server /\ call[t].i + 1 \in 0 .. NConfigured
    BY <1>0, <1>3 DEF CreateWord, CallRec, Server
  <2>2. c \in CallRec
    BY <1>0, <2>1 DEF CallRec
  <2>3. call' = [call EXCEPT ![t] = c]
    BY <1>3 DEF CreateWord
  <2>4. own[Proc(t)][call[t].i] \in Setting
    BY <1>0, <2>1 DEF TypeOK
  <2>5. word' \in [Server -> Setting]
    BY <1>3, <2>4 DEF CreateWord, TypeOK
  <2> HIDE DEF c
  <2> QED
    BY <1>3, <1>c, <1>t, <2>2, <2>3, <2>5 DEF CreateWord, TypeOK
<1>4. CASE CreateReady(t)
  BY <1>0, <1>4, <1>d, <1>t DEF CreateReady, TypeOK
<1>5. CASE Join(t)
  <2>1. call' \in [Thread -> CallRec]
    BY <1>5, <1>c, NoCallType DEF Join
  <2> QED
    BY <1>5, <1>t, <2>1 DEF Join, TypeOK, PCs
<1>6. CASE JoinReady(t)
  BY <1>6 DEF JoinReady, TypeOK, PCs
<1>7. CASE RefreshOff(t)
  BY <1>0, <1>7, <1>a, <1>t DEF RefreshOff, TypeOK
<1>8. CASE RefreshOn(t)
  <2> DEFINE c == [call[t] EXCEPT !.i = 0]
  <2>1. c \in CallRec
    BY <1>0 DEF CallRec
  <2>2. call' = [call EXCEPT ![t] = c]
    BY <1>8 DEF RefreshOn
  <2> HIDE DEF c
  <2>3. call' \in [Thread -> CallRec]
    BY <1>c, <2>1, <2>2
  <2>4. nfs' \in [Process -> 0 .. MAX_FS_SERVER]
    BY <1>0, <1>8 DEF RefreshOn, TypeOK
  <2> QED
    BY <1>8, <1>t, <2>3, <2>4 DEF RefreshOn, TypeOK, PCs
<1>9. CASE RefreshStamp(t)
  BY <1>9 DEF RefreshStamp, TypeOK, PCs
<1>10. CASE RefreshLoad(t)
  <2> DEFINE c == [call[t] EXCEPT !.reg = word[call[t].i]]
  <2>1. call[t].i \in Server
    BY <1>0, <1>10 DEF RefreshLoad, CallRec, Server
  <2>2. word[call[t].i] \in Setting
    BY <2>1 DEF TypeOK
  <2>3. c \in CallRec
    BY <1>0, <2>2 DEF CallRec
  <2>4. call' = [call EXCEPT ![t] = c]
    BY <1>10 DEF RefreshLoad
  <2> HIDE DEF c
  <2>5. call' \in [Thread -> CallRec]
    BY <1>c, <2>3, <2>4
  <2> QED
    BY <1>10, <1>t, <2>5 DEF RefreshLoad, TypeOK, PCs
<1>11. CASE RefreshStore(t)
  <2> DEFINE c == [call[t] EXCEPT !.i = call[t].i + 1, !.reg = Zero]
  <2>1. /\ call[t].i \in Server /\ call[t].i + 1 \in 0 .. NConfigured
        /\ nfs[Proc(t)] = call[t].i
    BY <1>0, <1>11 DEF RefreshStore, Copying, CallRec, Server
  <2>2. c \in CallRec
    BY <1>0, <2>1 DEF CallRec, Setting
  <2>3. call' = [call EXCEPT ![t] = c]
    BY <1>11 DEF RefreshStore
  <2>4. own' \in [Process -> [Server -> Setting]]
    <3>1. call[t].reg \in Setting
      BY <1>0 DEF CallRec
    <3> QED
      BY <1>11, <2>1, <3>1 DEF RefreshStore, TypeOK
  <2>5. nfs' \in [Process -> 0 .. MAX_FS_SERVER]
    <3>1. nfs[Proc(t)] + 1 \in 0 .. MAX_FS_SERVER
      BY <1>0, <2>1
    <3> QED
      BY <1>11, <3>1 DEF RefreshStore, TypeOK
  <2> HIDE DEF c
  <2>6. call' \in [Thread -> CallRec]
    BY <1>c, <2>2, <2>3
  <2> QED
    BY <1>11, <1>t, <2>4, <2>5, <2>6 DEF RefreshStore, TypeOK, PCs
<1>12. CASE RefreshEnd(t)
  BY <1>12, <1>a, <1>t DEF RefreshEnd, TypeOK
<1>13. CASE InCall(t)
  <2>1. CASE Look(t) \/ Throttled(t)
    BY <2>1 DEF Look, Throttled, TypeOK, PCs
  <2>2. CASE Skip(t) \/ Leave(t) \/ Finish(t)
    BY <1>d, <1>t, <2>2 DEF Skip, Leave, Finish, TypeOK
  <2> QED
    BY <1>13, <2>1, <2>2 DEF InCall
<1>14. ASSUME NEW k \in Kind, NEW f \in Server \cup {None}, Begin(t, k, f)
       PROVE  TypeOK'
  <2> DEFINE x == Check_FS_Server(nfs[Proc(t)], f)
             c == [NoCall EXCEPT !.kind = k, !.file = f, !.idx = x,
                                 !.calm = NoPublisher]
  <2>1. x \in 0 .. MAX_FS_SERVER \cup {None}
    BY <1>0, CheckType
  <2>2. NoPublisher \in BOOLEAN
    BY DEF NoPublisher
  <2>3. c \in CallRec
    <3> HIDE DEF x
    <3> QED
      BY <2>1, <2>2, NoCallType DEF NoCall, CallRec
  <2>4. call' = [call EXCEPT ![t] = c]
    BY <1>14 DEF Begin
  <2> HIDE DEF c
  <2>5. call' \in [Thread -> CallRec]
    BY <1>c, <2>3, <2>4
  <2> QED
    BY <1>14, <1>t, <2>5 DEF Begin, TypeOK, PCs
<1> QED
  BY <1>1, <1>2, <1>3, <1>4, <1>5, <1>6, <1>7, <1>8, <1>9, <1>10, <1>11, <1>12,
     <1>13, <1>14 DEF Act, Construct, Refresh

\* So does a run of set_io_param.
LEMMA PublishType ==
    ASSUME TypeOK, NEW q \in Publisher, Publish(q)
    PROVE  TypeOK'
<1>1. ASSUME Disturb
      PROVE  call' \in [Thread -> [kind : Kind, file : Server \cup {None},
                            idx : 0 .. MAX_FS_SERVER \cup {None},
                            i : 0 .. NConfigured, reg : Setting,
                            calm : BOOLEAN]]
  <2>1. \A u \in Thread : [call[u] EXCEPT !.calm = FALSE] \in CallRec
    BY DEF TypeOK, CallRec
  <2> QED
    BY <1>1, <2>1 DEF Disturb, CallRec
<1>2. ASSUME NEW off \in BOOLEAN, Switch(q, off) PROVE TypeOK'
  BY <1>1, <1>2 DEF Switch, TypeOK
<1>3. ASSUME NEW s \in Server, NEW v \in Value, PublishWord(q, s, v)
      PROVE  TypeOK'
  <2>1. v \in Setting
    BY DEF Setting
  <2> QED
    BY <1>1, <1>3, <2>1 DEF PublishWord, TypeOK
<1>4. CASE PublishOn(q)
  BY <1>1, <1>4 DEF PublishOn, TypeOK
<1>5. CASE PublishStamp(q)
  BY <1>1, <1>5 DEF PublishStamp, TypeOK
<1> QED
  BY <1>2, <1>3, <1>4, <1>5 DEF Publish

-----------------------------------------------------------------------------
(* Who is disturbed by a step.                                             *)

\* Every step of a thread is local to it and its process.
LEMMA ActLocal ==
    ASSUME TypeOK, NEW t \in Thread, Act(t)
    PROVE  Local(t)
<1> USE DEF Goto, Idle, Local, AfterRefresh
<1>0. /\ pc \in [Thread -> PCs] /\ DOMAIN call = Thread /\ DOMAIN own = Process
      /\ DOMAIN ownStamp = Process /\ DOMAIN active = Process
      /\ DOMAIN nfs = Process /\ running \subseteq Process
  BY DEF TypeOK
<1>1. CASE Create(t)
  BY <1>0, <1>1 DEF Create
<1>2. CASE CreateStamp(t)
  BY <1>0, <1>2 DEF CreateStamp
<1>3. CASE CreateWord(t)
  BY <1>0, <1>3 DEF CreateWord
<1>4. CASE CreateReady(t)
  BY <1>0, <1>4 DEF CreateReady
<1>5. CASE Join(t)
  BY <1>0, <1>5 DEF Join
<1>6. CASE JoinReady(t)
  BY <1>0, <1>6 DEF JoinReady
<1>7. CASE RefreshOff(t)
  BY <1>0, <1>7 DEF RefreshOff
<1>8. CASE RefreshOn(t)
  BY <1>0, <1>8 DEF RefreshOn
<1>9. CASE RefreshStamp(t)
  BY <1>0, <1>9 DEF RefreshStamp
<1>10. CASE RefreshLoad(t)
  BY <1>0, <1>10 DEF RefreshLoad
<1>11. CASE RefreshStore(t)
  BY <1>0, <1>11 DEF RefreshStore
<1>12. CASE RefreshEnd(t)
  BY <1>0, <1>12 DEF RefreshEnd
<1>13. CASE InCall(t)
  BY <1>0, <1>13 DEF InCall, Skip, Look, Leave, Throttled, Finish
<1>14. ASSUME NEW k \in Kind, NEW f \in Server \cup {None}, Begin(t, k, f)
       PROVE  Local(t)
  BY <1>0, <1>14 DEF Begin
<1> QED
  BY <1>1, <1>2, <1>3, <1>4, <1>5, <1>6, <1>7, <1>8, <1>9, <1>10, <1>11, <1>12,
     <1>13, <1>14 DEF Act, Construct, Refresh

\* A local step that leaves the segment's words and stamp alone cannot disturb
\* another process in the middle of its copying, nor what it has copied.
LEMMA OthersKeep ==
    ASSUME OneThreadEach, TypeOK, NEW t \in Thread, Local(t),
           UNCHANGED <<word, stamp>>
    PROVE  /\ \A u \in Thread \ {t} : Copying(u) => Copying(u)'
           /\ \A p \in Process \ {Proc(t)} : Agree(p) => Agree(p)'
<1>1. NoPublisher' <=> NoPublisher
  BY DEF Local, NoPublisher
<1>2. ASSUME NEW u \in Thread \ {t}, Copying(u) PROVE Copying(u)'
  <2>1. Proc(u) \in Process \ {Proc(t)} /\ Proc(u)' = Proc(u)
    BY <1>2, ParamsAssumption DEF OneThreadEach, Proc
  <2> QED
    BY <1>1, <1>2, <2>1 DEF Local, Copying
<1>3. ASSUME NEW p \in Process \ {Proc(t)}, Agree(p) PROVE Agree(p)'
  <2>1. \A u \in Thread : Proc(u)' = Proc(u)
    BY DEF Proc
  <2>2. \A u \in Thread : Proc(u) = p => pc'[u] = pc[u]
    BY <1>3 DEF Local
  <2>3. Settled(p)' <=> Settled(p)
    BY <1>3, <2>1, <2>2 DEF Local, Settled
  <2> QED
    BY <1>1, <1>3, <2>3 DEF Local, Agree
<1> QED
  BY <1>2, <1>3

-----------------------------------------------------------------------------
(* The creation of the segment.                                            *)

\* The creator stays alone until the segment is ready, and stamps never reach
\* the clock.
LEMMA ActAlone ==
    ASSUME OneThreadEach, TypeOK, Alone, NEW t \in Thread, Copying(t), Act(t)
    PROVE  Alone'
<1> USE DEF Goto, Idle, Creating
<1>0. /\ pc \in [Thread -> PCs] /\ stamp \in Nat /\ clock \in Nat
      /\ ownStamp \in [Process -> Nat] /\ Proc(t) \in Process
  BY ParamsAssumption DEF TypeOK, Proc
<1>1. CASE Create(t)
  BY <1>0, <1>1 DEF Create, Alone
<1>2. CASE CreateStamp(t)
  <2>1. stamp' < clock' /\ stamp' > 0
    BY <1>0, <1>2 DEF CreateStamp, Alone
  <2>2. \A p \in Process : ownStamp'[p] < clock'
    BY <1>0, <1>2 DEF CreateStamp, Alone
  <2> QED
    BY <1>0, <1>2, <2>1, <2>2 DEF CreateStamp, Alone
<1>3. CASE CreateWord(t)
  BY <1>3 DEF CreateWord, Alone
<1>4. CASE CreateReady(t)
  BY <1>0, <1>4 DEF CreateReady, Alone
<1>5. CASE Join(t)
  BY <1>0, <1>5 DEF Join, Alone
<1>6. CASE JoinReady(t)
  BY <1>0, <1>6 DEF JoinReady, Alone
<1>7. ASSUME pc[t] \notin Creating \cup {"idle", "wait"},
             pc'[t] \notin Creating, Local(t),
             UNCHANGED <<created, stamp, ready, clock>>,
             \A p \in Process : ownStamp'[p] = ownStamp[p] \/ ownStamp'[p] = stamp
      PROVE  Alone'
  <2>1. ready
    BY <1>7 DEF Alone
  <2>2. \A u \in Thread : pc[u] \notin Creating /\ pc'[u] \notin Creating
    BY <1>7, <2>1 DEF Local, Alone
  <2> QED
    BY <1>0, <1>7, <2>1, <2>2 DEF Alone
<1>8. Local(t)
  BY ActLocal
<1>9. CASE Refresh(t)
  <2>1. /\ pc[t] \in Refreshing /\ UNCHANGED <<created, stamp, ready, clock>>
        /\ pc'[t] \notin Creating
        /\ \A p \in Process : ownStamp'[p] = ownStamp[p] \/ ownStamp'[p] = stamp
    BY <1>0, <1>9 DEF Refresh, RefreshOff, RefreshOn, RefreshStamp, RefreshLoad,
                      RefreshStore, RefreshEnd, AfterRefresh, Refreshing
  <2> QED
    BY <1>7, <1>8, <2>1 DEF Refreshing
<1>10. CASE InCall(t)
  <2>1. /\ pc[t] \in {"called", "gate", "counted"}
        /\ pc'[t] \notin Creating /\ ownStamp' = ownStamp
        /\ UNCHANGED <<created, stamp, ready, clock>>
    BY <1>0, <1>10 DEF InCall, Skip, Look, Leave, Throttled, Finish
  <2> QED
    BY <1>7, <1>8, <2>1
<1>11. ASSUME NEW k \in Kind, NEW f \in Server \cup {None}, Begin(t, k, f)
       PROVE  Alone'
  <2>1. ready
    BY <1>11 DEF Begin, Alone
  <2>2. \A u \in Thread : pc[u] \notin Creating /\ pc'[u] \notin Creating
    BY <1>0, <1>11, <2>1 DEF Begin, Alone
  <2> QED
    BY <1>11, <2>1, <2>2 DEF Begin, Alone
<1> QED
  BY <1>1, <1>2, <1>3, <1>4, <1>5, <1>6, <1>9, <1>10, <1>11 DEF Act, Construct

-----------------------------------------------------------------------------
(* Copying.                                                                *)

\* While the creator is at work every other thread waits or has not started,
\* so what it stores concerns nobody.
LEMMA CreatorKeeps ==
    ASSUME OneThreadEach, IInv, NEW t \in Thread, Local(t),
           pc[t] \in Creating, pc'[t] \in Creating, running' = running,
           ownStamp' = ownStamp
    PROVE  (\A u \in Thread : Copying(u))' /\ SyncedAgree'
<1>1. running = {} /\ \A u \in Thread : pc[u] \in Creating \cup {"idle", "wait"}
  BY DEF IInv, SyncInv, Alone
<1>2. \A u \in Thread : pc'[u] \in Creating \cup {"idle", "wait"}
  BY <1>1 DEF Local
<1>3. ASSUME NEW u \in Thread PROVE Copying(u)'
  <2>1. Proc(u)' = Proc(u)
    BY DEF Proc
  <2>2. Copying(u)
    BY DEF IInv, SyncInv
  <2>3. ownStamp[Proc(u)] = 0
    <3>1. CASE pc[u] \in Creating \cup {"wait"}
      BY <2>2, <3>1 DEF Copying
    <3>2. CASE pc[u] = "idle" /\ Proc(u) \notin running
      BY <2>2, <3>2 DEF Copying
    <3> QED
      BY <1>1, <3>1, <3>2
  <2> QED
    BY <1>2, <2>1, <2>3 DEF Copying, Creating
<1>4. SyncedAgree'
  BY <1>1 DEF SyncedAgree, Settled
<1> QED
  BY <1>3, <1>4

\* The acting thread keeps its own part, and a process that becomes settled
\* with the published stamp has copied all that is published.
LEMMA ActOwn ==
    ASSUME OneThreadEach, IInv, NEW t \in Thread, Act(t),
           UNCHANGED <<word, stamp>>
    PROVE  Copying(t)' /\ Agree(Proc(t))'
<1> USE DEF Goto, Idle, Creating
<1>0. /\ pc \in [Thread -> PCs] /\ Proc(t) \in Process /\ call[t] \in CallRec
      /\ DOMAIN call = Thread /\ DOMAIN nfs = Process /\ DOMAIN active = Process
      /\ own \in [Process -> [Server -> Setting]]
      /\ ownStamp \in [Process -> Nat] /\ stamp \in Nat
      /\ NConfigured \in Nat
  BY ParamsAssumption DEF IInv, SyncInv, TypeOK, Proc, CallRec
<1>i. call[t].i \in Nat
  BY <1>0 DEF CallRec
<1>p. Proc(t)' = Proc(t) /\ (NoPublisher' <=> NoPublisher)
  BY ActLocal DEF Proc, Local, NoPublisher, IInv, SyncInv
<1>s. \A u \in Thread : Proc(u) = Proc(t) => u = t
  BY DEF OneThreadEach, Proc
<1>u. Settled(Proc(t))' <=> Proc(t) \in running' /\ pc'[t] \notin Refreshing
  BY <1>s DEF Settled, Proc
<1>v. Settled(Proc(t)) <=> Proc(t) \in running /\ pc[t] \notin Refreshing
  BY <1>s DEF Settled
<1>c. Copying(t) /\ Alone /\ Agree(Proc(t))
  BY <1>0 DEF IInv, SyncInv, SyncedAgree, Agree
<1>n. ASSUME ownStamp' = ownStamp, ownStamp[Proc(t)] # stamp
      PROVE  Agree(Proc(t))'
  BY <1>n, <1>p DEF Agree
<1>1. CASE Create(t)
  <2>1. ownStamp[Proc(t)] = 0 /\ Proc(t) \notin running
    <3>1. pc[t] = "idle" /\ Proc(t) \notin running
      BY <1>1 DEF Create, Starting
    <3> QED
      BY <1>c, <3>1 DEF Copying
  <2>2. pc'[t] = "create" /\ ownStamp' = ownStamp /\ running' = running
    BY <1>0, <1>1 DEF Create
  <2>3. Copying(t)'
    BY <1>p, <2>1, <2>2 DEF Copying
  <2>4. ~Settled(Proc(t))'
    BY <1>u, <2>1, <2>2
  <2> QED
    BY <2>3, <2>4 DEF Agree
<1>4. CASE CreateReady(t)
  <2>1. ownStamp[Proc(t)] = 0 /\ stamp > 0
    BY <1>4, <1>c DEF CreateReady, Copying, Alone
  <2>2. pc'[t] = "idle" /\ Proc(t) \in running' /\ ownStamp' = ownStamp
    BY <1>0, <1>4 DEF CreateReady
  <2>3. Copying(t)'
    BY <1>p, <2>2 DEF Copying
  <2> QED
    BY <1>0, <1>n, <2>1, <2>2, <2>3
<1>5. CASE Join(t)
  <2>1. ownStamp[Proc(t)] = 0 /\ Proc(t) \notin running
    <3>1. pc[t] = "idle" /\ Proc(t) \notin running
      BY <1>5 DEF Join, Starting
    <3> QED
      BY <1>c, <3>1 DEF Copying
  <2>2. pc'[t] = "wait" /\ ownStamp' = ownStamp /\ running' = running
    BY <1>0, <1>5 DEF Join
  <2>3. Copying(t)'
    BY <1>p, <2>1, <2>2 DEF Copying
  <2>4. ~Settled(Proc(t))'
    BY <1>u, <2>1, <2>2
  <2> QED
    BY <2>3, <2>4 DEF Agree
<1>6. CASE JoinReady(t)
  <2>1. ownStamp[Proc(t)] = 0 /\ stamp > 0
    BY <1>6, <1>c DEF JoinReady, Copying, Alone
  <2>2. pc'[t] = "refresh" /\ ownStamp' = ownStamp
    BY <1>0, <1>6 DEF JoinReady
  <2>3. Copying(t)'
    BY <1>0, <1>p, <2>1, <2>2 DEF Copying
  <2> QED
    BY <1>0, <1>n, <2>1, <2>2, <2>3
<1>a. ASSUME AfterRefresh(t)
      PROVE  pc'[t] \in {"gate", "idle"} /\ Proc(t) \in running'
  BY <1>0, <1>a DEF AfterRefresh
<1>7. CASE RefreshOff(t)
  <2>1. ownStamp[Proc(t)] # stamp /\ ownStamp' = ownStamp /\ AfterRefresh(t)
    BY <1>7, <1>c DEF RefreshOff, Copying
  <2>2. Copying(t)'
    BY <1>a, <1>p, <2>1 DEF Copying
  <2> QED
    BY <1>n, <2>1, <2>2
<1>8. CASE RefreshOn(t)
  <2>1. /\ pc'[t] = "stamp" /\ active'[Proc(t)] /\ nfs'[Proc(t)] = 0
        /\ call'[t].i = 0
    BY <1>0, <1>8 DEF RefreshOn, CallRec
  <2>2. Copying(t)'
    BY <1>p, <2>1 DEF Copying
  <2> QED
    BY <1>u, <2>1, <2>2 DEF Agree, Refreshing
<1>9. CASE RefreshStamp(t)
  <2>1. /\ pc'[t] = "load" /\ call' = call /\ active' = active /\ nfs' = nfs
        /\ call[t].i = 0 /\ active[Proc(t)] /\ nfs[Proc(t)] = call[t].i
    BY <1>0, <1>9, <1>c DEF RefreshStamp, Copying
  <2>2. \A s \in Server : ~(s < 0)
    BY DEF Server
  <2>3. Copying(t)'
    BY <1>p, <2>1, <2>2 DEF Copying
  <2> QED
    BY <1>u, <2>1, <2>3 DEF Agree, Refreshing
<1>10. CASE RefreshLoad(t)
  <2>1. /\ pc[t] = "load" /\ pc'[t] = "store" /\ call[t].i < NConfigured
        /\ call'[t].i = call[t].i /\ call'[t].reg = word[call[t].i]
        /\ UNCHANGED <<active, nfs, own, ownStamp, running>>
    BY <1>0, <1>10 DEF RefreshLoad, CallRec
  <2>2. Copying(t)'
    BY <1>c, <1>p, <2>1 DEF Copying
  <2> QED
    BY <1>u, <2>1, <2>2 DEF Agree, Refreshing
<1>11. CASE RefreshStore(t)
  <2>1. call[t].i \in Server
    BY <1>0, <1>11, <1>c, <1>i DEF RefreshStore, Copying, Server
  <2>2. /\ pc[t] = "store" /\ pc'[t] = "load"
        /\ call'[t].i = call[t].i + 1
        /\ nfs'[Proc(t)] = nfs[Proc(t)] + 1
        /\ UNCHANGED <<active, ownStamp>>
        /\ \A s \in Server : own'[Proc(t)][s] = IF s = call[t].i THEN call[t].reg
                                                ELSE own[Proc(t)][s]
    BY <1>0, <1>11, <2>1 DEF RefreshStore, CallRec
  <2>3. active[Proc(t)] /\ nfs[Proc(t)] = call[t].i
    BY <1>c, <2>2 DEF Copying
  <2>4. ASSUME NoPublisher, ownStamp[Proc(t)] = stamp,
               NEW s \in Server, s < call[t].i + 1
        PROVE  own'[Proc(t)][s] = word[s]
    <3>1. /\ \A r \in Server : r < call[t].i => own[Proc(t)][r] = word[r]
          /\ call[t].reg = word[call[t].i]
      BY <1>c, <2>2, <2>4 DEF Copying
    <3>2. s = call[t].i \/ s < call[t].i
      BY <1>i, <2>4 DEF Server
    <3> QED
      BY <2>2, <3>1, <3>2
  <2>5. Copying(t)'
    BY <1>p, <2>2, <2>3, <2>4 DEF Copying
  <2> QED
    BY <1>u, <2>2, <2>5 DEF Agree, Refreshing
<1>12. CASE RefreshEnd(t)
  <2>1. /\ pc[t] = "load" /\ call[t].i = NConfigured /\ AfterRefresh(t)
        /\ UNCHANGED <<own, ownStamp, active, nfs>>
    BY <1>12 DEF RefreshEnd
  <2>2. Copying(t)'
    BY <1>a, <1>p, <2>1 DEF Copying
  <2>3. ASSUME NoPublisher, ownStamp[Proc(t)] = stamp
        PROVE  own[Proc(t)] = word /\ nfs[Proc(t)] = NConfigured /\ active[Proc(t)]
    <3>1. \A s \in Server : s < NConfigured => own[Proc(t)][s] = word[s]
      BY <1>c, <2>1, <2>3 DEF Copying
    <3>2. \A s \in Server : s < NConfigured
      BY <1>0 DEF Server
    <3>3. own[Proc(t)] \in [Server -> Setting] /\ word \in [Server -> Setting]
      BY <1>0 DEF IInv, SyncInv, TypeOK
    <3>4. own[Proc(t)] = word
      BY <3>1, <3>2, <3>3
    <3> QED
      BY <1>c, <2>1, <3>4 DEF Copying
  <2> QED
    BY <1>p, <2>1, <2>2, <2>3 DEF Agree
<1>13. CASE InCall(t)
  <2>1. /\ pc[t] \in {"called", "gate", "counted"}
        /\ pc'[t] \in {"idle", "refresh", "gate", "counted"}
        /\ pc'[t] = "refresh" => ownStamp[Proc(t)] # stamp
        /\ UNCHANGED <<own, ownStamp, active, nfs, running>>
    BY <1>0, <1>13 DEF InCall, Skip, Look, Leave, Throttled, Finish
  <2>2. Proc(t) \in running
    BY <1>c, <2>1 DEF Copying
  <2>3. Copying(t)'
    BY <1>p, <2>1, <2>2 DEF Copying
  <2>4. Settled(Proc(t))
    BY <1>v, <2>1, <2>2 DEF Refreshing
  <2> QED
    BY <1>c, <1>p, <2>1, <2>3, <2>4 DEF Agree
<1>14. ASSUME NEW k \in Kind, NEW f \in Server \cup {None}, Begin(t, k, f)
       PROVE  Copying(t)' /\ Agree(Proc(t))'
  <2>1. /\ pc[t] = "idle" /\ pc'[t] = "called" /\ Proc(t) \in running
        /\ UNCHANGED <<own, ownStamp, active, nfs, running>>
    BY <1>0, <1>14 DEF Begin
  <2>2. Copying(t)'
    BY <1>p, <2>1 DEF Copying
  <2>3. Settled(Proc(t))
    BY <1>v, <2>1 DEF Refreshing
  <2> QED
    BY <1>c, <1>p, <2>1, <2>2, <2>3 DEF Agree
<1>15. CASE CreateStamp(t) \/ CreateWord(t)
  <2>1. /\ pc[t] \in Creating /\ pc'[t] \in Creating
        /\ UNCHANGED <<ownStamp, running>>
    BY <1>0, <1>15 DEF CreateStamp, CreateWord
  <2>2. (\A u \in Thread : Copying(u))' /\ SyncedAgree'
    BY <2>1, CreatorKeeps, ActLocal DEF IInv
  <2> QED
    BY <1>0, <1>p, <2>2 DEF SyncedAgree, Agree
<1> QED
  BY <1>1, <1>4, <1>5, <1>6, <1>7, <1>8, <1>9, <1>10, <1>11, <1>12, <1>13, <1>14,
     <1>15 DEF Act, Construct, Refresh

\* A step of a thread keeps the invariant.
LEMMA ActSync ==
    ASSUME OneThreadEach, IInv, NEW t \in Thread, Act(t)
    PROVE  IInv'
<1>1. TypeOK'
  BY ActType DEF IInv, SyncInv
<1>2. Alone'
  BY ActAlone DEF IInv, SyncInv
<1>3. Local(t)
  BY ActLocal DEF IInv, SyncInv
<1>4. CASE UNCHANGED <<word, stamp>>
  <2>1. \A u \in Thread : Copying(u)'
    BY <1>3, <1>4, ActOwn, OthersKeep DEF IInv, SyncInv
  <2>2. \A p \in Process : Agree(p)'
    BY <1>3, <1>4, ActOwn, OthersKeep DEF IInv, SyncInv, SyncedAgree, Agree
  <2>3. SyncedAgree'
    BY <2>2 DEF SyncedAgree, Agree
  <2> QED
    BY <1>1, <1>2, <2>1, <2>3 DEF IInv, SyncInv
<1>5. CASE CreateStamp(t) \/ CreateWord(t)
  <2>1. /\ pc[t] \in Creating /\ pc'[t] \in Creating
        /\ UNCHANGED <<ownStamp, running>>
    BY <1>5 DEF CreateStamp, CreateWord, Goto, Creating, IInv, SyncInv, TypeOK
  <2> QED
    BY <1>1, <1>2, <1>3, <2>1, CreatorKeeps DEF IInv, SyncInv
<1>6. UNCHANGED <<word, stamp>> \/ CreateStamp(t) \/ CreateWord(t)
  BY DEF Act, Construct, Refresh, InCall, Create, CreateReady, Join, JoinReady,
         RefreshOff, RefreshOn, RefreshStamp, RefreshLoad, RefreshStore,
         RefreshEnd, Skip, Look, Leave, Throttled, Finish, Begin
<1> QED
  BY <1>4, <1>5, <1>6

\* A run of set_io_param keeps the invariant: until it has stored its stamp it
\* is under way, and the stamp it stores is nobody's.
LEMMA PublishSync ==
    ASSUME IInv, NEW q \in Publisher, Publish(q)
    PROVE  IInv'
<1>0. /\ TypeOK' /\ clock \in Nat /\ stamp \in Nat
      /\ ownStamp \in [Process -> Nat]
  BY PublishType DEF IInv, SyncInv, TypeOK
<1>1. /\ UNCHANGED <<created, ready, own, ownStamp, active, nfs, running, pc>>
      /\ \A u \in Thread : call'[u].i = call[u].i /\ call'[u].reg = call[u].reg
  BY DEF Publish, Switch, PublishWord, PublishOn, PublishStamp, Disturb, IInv, SyncInv,
         TypeOK
<1>2. \/ ~NoPublisher' /\ UNCHANGED <<stamp, clock>>
      \/ stamp' = clock /\ clock' = clock + 1
  BY DEF Publish, Switch, PublishWord, PublishOn, PublishStamp, NoPublisher,
         IInv, SyncInv, TypeOK
<1>3. ~NoPublisher' \/ \A p \in Process : ownStamp'[p] # stamp'
  BY <1>0, <1>1, <1>2 DEF IInv, SyncInv, Alone
<1>4. Alone'
  <2>1. \A p \in Process : ownStamp'[p] < clock'
    BY <1>0, <1>1, <1>2 DEF IInv, SyncInv, Alone
  <2>2. stamp' < clock' /\ (stamp > 0 => stamp' > 0)
    BY <1>0, <1>2 DEF IInv, SyncInv, Alone
  <2> QED
    BY <1>1, <2>1, <2>2 DEF IInv, SyncInv, Alone
<1>5. ASSUME NEW u \in Thread PROVE Copying(u)'
  <2>1. Proc(u)' = Proc(u) /\ Proc(u) \in Process
    BY ParamsAssumption DEF Proc
  <2>2. Copying(u)
    BY DEF IInv, SyncInv
  <2>3. pc[u] = "refresh" => ownStamp'[Proc(u)] # stamp'
    <3>1. ownStamp[Proc(u)] < clock
      BY <2>1 DEF IInv, SyncInv, Alone
    <3> QED
      BY <1>0, <1>1, <1>2, <2>1, <2>2, <3>1 DEF Copying
  <2> QED
    BY <1>1, <1>3, <2>1, <2>2, <2>3 DEF Copying
<1>6. SyncedAgree'
  BY <1>3 DEF SyncedAgree
<1> QED
  BY <1>0, <1>4, <1>5, <1>6 DEF IInv, SyncInv

\* The inductive invariant holds throughout.
THEOREM Invariant == ASSUME OneThreadEach PROVE Spec => []IInv
<1>1. Init => IInv
  <2> SUFFICES ASSUME Init PROVE IInv
    OBVIOUS
  <2>1. TypeOK
    <3>1. call \in [Thread -> CallRec]
      BY NoCallType DEF Init
    <3>2. /\ word \in [Server -> Setting]
          /\ own \in [Process -> [Server -> Setting]]
      BY DEF Init, Setting
    <3>3. 0 \in 0 .. MAX_FS_SERVER
      BY ParamsAssumption
    <3> QED
      BY <3>1, <3>2, <3>3 DEF Init, TypeOK, CallRec, PCs
  <2>2. Alone
    BY DEF Init, Alone, Creating
  <2>3. ASSUME NEW t \in Thread PROVE Copying(t)
    BY <2>3, ParamsAssumption DEF Init, Copying, Creating, Proc
  <2>4. SyncedAgree
    BY DEF Init, SyncedAgree, Settled
  <2> QED
    BY <2>1, <2>2, <2>3, <2>4 DEF IInv, SyncInv
<1>2. IInv /\ [Next]_vars => IInv'
  <2> SUFFICES ASSUME IInv, [Next]_vars PROVE IInv'
    OBVIOUS
  <2>1. ASSUME NEW t \in Thread, Act(t) PROVE IInv'
    BY <2>1, ActSync
  <2>2. ASSUME NEW q \in Publisher, Publish(q) PROVE IInv'
    BY <2>2, PublishSync
  <2>3. CASE UNCHANGED vars
    BY <2>3 DEF vars, IInv, SyncInv, TypeOK, Alone, Copying, SyncedAgree, Settled,
                NoPublisher, Proc
  <2> QED
    BY <2>1, <2>2, <2>3 DEF Next, Act
<1> QED
  BY <1>1, <1>2, PTL DEF Spec

\* Every variable keeps its type; the number of servers never passes the room
\* there is for them, since it follows the index of the copying loop.
THEOREM TypeCorrect == ASSUME OneThreadEach PROVE Spec => []TypeOK
<1>1. IInv => TypeOK
  BY DEF IInv
<1> QED
  BY <1>1, Invariant, PTL

\* One process creates the segment, alone until it is ready, and a refresh that
\* nothing disturbs has copied the published words up to its index.
THEOREM RefreshesFollow == ASSUME OneThreadEach PROVE Spec => []SyncInv
<1>1. IInv => SyncInv
  BY DEF IInv
<1> QED
  BY <1>1, Invariant, PTL

\* A process whose copy of the stamp is the published one, while nothing is
\* being published, has copied the published settings of every server, knows
\* every server and is switched on: comparing the stamps is enough.
THEOREM SyncedAgrees == ASSUME OneThreadEach PROVE Spec => []SyncedAgree
<1>1. IInv => SyncedAgree
  BY DEF IInv
<1> QED
  BY <1>1, Invariant, PTL

-----------------------------------------------------------------------------
(* What processes know, and files of no server.                            *)

\* A process knows configured servers only, with settings someone published.
Known(p) ==
    /\ nfs[p] <= NConfigured
    /\ \A s \in Server : s < nfs[p] => own[p][s] \in Value

\* What thread t holds is such a setting, and so is what it has stored as the
\* creator; the server it found for a call is that of a file on one.
Holds(t) ==
    /\ pc[t] \in Creating => \A s \in Server : own[Proc(t)][s] \in Value
    /\ pc[t] = "create" => call[t].i = 0
    /\ pc[t] = "publish" => \A s \in Server : s < call[t].i => word[s] \in Value
    /\ pc[t] = "store" => call[t].reg \in Value
    /\ call[t].idx # None => call[t].file # None
    /\ pc[t] = "counted" => call[t].idx # None

Published == ready => \A s \in Server : word[s] \in Value

KnownInv ==
    /\ Published
    /\ \A t \in Thread : Holds(t)
    /\ \A p \in Process : Known(p)

\* A step of thread t leaves what others hold and know.
LEMMA OthersKnow ==
    ASSUME OneThreadEach, IInv, KnownInv, NEW t \in Thread, Local(t),
           word' = word \/ pc[t] = "publish"
    PROVE  /\ \A u \in Thread \ {t} : Holds(u)'
           /\ \A p \in Process \ {Proc(t)} : Known(p)'
PROOF
<1>1. ASSUME NEW u \in Thread \ {t} PROVE Holds(u)'
  <2>1. Proc(u) \in Process \ {Proc(t)} /\ Proc(u)' = Proc(u)
    BY <1>1, ParamsAssumption DEF OneThreadEach, Proc
  <2>2. pc[u] = "publish" => word' = word
    BY <1>1 DEF IInv, SyncInv, Alone, Creating
  <2> QED
    BY <2>1, <2>2 DEF Local, Holds, KnownInv
<1> QED
  BY <1>1 DEF Local, Known, KnownInv

\* A step of a thread keeps all that.
LEMMA ActKnown ==
    ASSUME OneThreadEach, IInv, KnownInv, NEW t \in Thread, Act(t)
    PROVE  KnownInv'
PROOF
<1> USE DEF Goto, Creating
<1>0. /\ pc \in [Thread -> PCs] /\ Proc(t) \in Process /\ call[t] \in CallRec
      /\ DOMAIN call = Thread /\ nfs \in [Process -> 0 .. MAX_FS_SERVER]
      /\ own \in [Process -> [Server -> Setting]]
      /\ word \in [Server -> Setting]
      /\ NConfigured \in Nat /\ Proc(t)' = Proc(t)
  BY ParamsAssumption DEF IInv, TypeOK, Proc, CallRec
<1>1. /\ Published /\ Holds(t) /\ Known(Proc(t)) /\ Copying(t) /\ Alone
      /\ call[t].i \in 0 .. NConfigured
  BY <1>0 DEF KnownInv, IInv, SyncInv, CallRec
<1>2. Local(t)
  BY ActLocal DEF IInv
<1>3. \A s \in Server : s \in Nat /\ s < NConfigured
  BY <1>0 DEF Server
\* It suffices to look at the segment, the thread and its process.
<1>4. SUFFICES /\ word' = word \/ pc[t] = "publish"
               /\ Published' /\ Holds(t)' /\ Known(Proc(t))'
  BY <1>0, <1>2, OthersKnow DEF KnownInv
<1>5. ASSUME call' = [call EXCEPT ![t] = NoCall],
             pc'[t] \in {"idle", "wait"}
      PROVE  Holds(t)'
  BY <1>0, <1>5 DEF Holds, NoCall
<1>6. ASSUME UNCHANGED <<nfs, own>> PROVE Known(Proc(t))'
  BY <1>0, <1>1, <1>6 DEF Known
<1>7. ASSUME UNCHANGED <<word, ready>> PROVE Published'
  BY <1>1, <1>7 DEF Published
<1>8. ASSUME UNCHANGED call, pc'[t] \notin {"create", "publish", "store", "counted"}
      PROVE  Holds(t)'
  BY <1>1, <1>8 DEF Holds
<1>9. CASE Create(t)
  <2>1. own'[Proc(t)] = Config /\ nfs'[Proc(t)] = NConfigured
    BY <1>0, <1>9 DEF Create
  <2>2. Known(Proc(t))'
    BY <1>0, <2>1, ParamsAssumption DEF Known
  <2>3. Holds(t)'
    BY <1>0, <1>9, <2>1, ParamsAssumption DEF Create, Holds, NoCall
  <2> QED
    BY <1>7, <1>9, <2>2, <2>3 DEF Create
<1>10. CASE CreateStamp(t)
  <2>1. /\ pc[t] = "create" /\ pc'[t] = "publish"
        /\ UNCHANGED <<word, ready, own, nfs, call>>
    BY <1>0, <1>10 DEF CreateStamp
  <2>2. Holds(t)'
    BY <1>0, <1>1, <1>3, <2>1 DEF Holds
  <2> QED
    BY <1>6, <1>7, <2>1, <2>2
<1>11. CASE CreateWord(t)
  <2>1. /\ pc[t] = "publish" /\ pc'[t] = "publish" /\ call[t].i \in Server
        /\ UNCHANGED <<ready, own, nfs>>
        /\ call'[t] = [call[t] EXCEPT !.i = call[t].i + 1]
        /\ word' = [word EXCEPT ![call[t].i] = own[Proc(t)][call[t].i]]
    BY <1>0, <1>1, <1>11 DEF CreateWord, Server
  <2>2. /\ call'[t].i = call[t].i + 1 /\ call'[t].idx = call[t].idx
        /\ call'[t].file = call[t].file
    BY <1>0, <2>1 DEF CallRec
  <2>3. \A s \in Server : s < call[t].i + 1 => word'[s] \in Value
    <3> SUFFICES ASSUME NEW s \in Server, s < call[t].i + 1
                 PROVE  word'[s] \in Value
      OBVIOUS
    <3>1. s = call[t].i \/ s < call[t].i
      BY <1>1, <1>3
    <3> QED
      BY <1>0, <1>1, <2>1, <3>1 DEF Holds
  <2>4. Holds(t)'
    BY <1>0, <1>1, <2>1, <2>2, <2>3 DEF Holds
  <2>5. Published'
    BY <1>1, <2>1 DEF Published, Alone
  <2> QED
    BY <1>6, <2>1, <2>4, <2>5
<1>12. CASE CreateReady(t)
  <2>1. Published'
    BY <1>1, <1>3, <1>12 DEF CreateReady, Published, Holds
  <2> QED
    BY <1>0, <1>5, <1>6, <1>12, <2>1 DEF CreateReady, Idle
<1>13. CASE Join(t)
  BY <1>0, <1>5, <1>6, <1>7, <1>13 DEF Join
<1>14. CASE JoinReady(t)
  BY <1>0, <1>6, <1>7, <1>8, <1>14 DEF JoinReady
<1>a. ASSUME AfterRefresh(t) PROVE Holds(t)'
  <2>1. call'[t].idx = call[t].idx /\ call'[t].file = call[t].file
    BY <1>0, <1>a DEF AfterRefresh, CallRec
  <2>2. pc'[t] \in {"gate", "idle"}
    BY <1>0, <1>a DEF AfterRefresh
  <2> QED
    BY <1>1, <2>1, <2>2 DEF Holds
<1>15. CASE RefreshOff(t)
  BY <1>6, <1>7, <1>a, <1>15 DEF RefreshOff
<1>16. CASE RefreshOn(t)
  <2>1. /\ nfs'[Proc(t)] = 0 /\ pc'[t] = "stamp"
        /\ call'[t].idx = call[t].idx /\ call'[t].file = call[t].file
    BY <1>0, <1>16 DEF RefreshOn, CallRec
  <2>2. Known(Proc(t))'
    BY <1>0, <1>3, <2>1 DEF Known
  <2>3. Holds(t)'
    BY <1>1, <2>1 DEF Holds
  <2> QED
    BY <1>7, <1>16, <2>2, <2>3 DEF RefreshOn
<1>17. CASE RefreshStamp(t)
  BY <1>0, <1>6, <1>7, <1>8, <1>17 DEF RefreshStamp
<1>18. CASE RefreshLoad(t)
  <2>1. ready
    BY <1>1, <1>18 DEF RefreshLoad, Alone
  <2>2. /\ word[call[t].i] \in Value /\ pc'[t] = "store"
        /\ call'[t].reg = word[call[t].i]
        /\ call'[t].idx = call[t].idx /\ call'[t].file = call[t].file
    BY <1>0, <1>1, <1>18, <2>1 DEF RefreshLoad, Published, Server, CallRec
  <2>3. Holds(t)'
    BY <1>1, <2>2 DEF Holds
  <2> QED
    BY <1>6, <1>7, <1>18, <2>3 DEF RefreshLoad
<1>19. CASE RefreshStore(t)
  <2>1. call[t].i \in Server
    BY <1>0, <1>1, <1>19 DEF RefreshStore, Copying, Server
  <2>2. /\ pc'[t] = "load" /\ nfs'[Proc(t)] = call[t].i + 1
        /\ nfs[Proc(t)] = call[t].i
        /\ call'[t].idx = call[t].idx /\ call'[t].file = call[t].file
        /\ \A s \in Server : own'[Proc(t)][s] = IF s = call[t].i THEN call[t].reg
                                                ELSE own[Proc(t)][s]
    BY <1>0, <1>1, <1>19, <2>1 DEF RefreshStore, Copying, CallRec
  <2>3. call[t].reg \in Value
    BY <1>1, <1>19 DEF RefreshStore, Holds
  <2>4. nfs'[Proc(t)] <= NConfigured
    BY <1>0, <1>3, <2>1, <2>2
  <2>5. ASSUME NEW s \in Server, s < call[t].i + 1
        PROVE  own'[Proc(t)][s] \in Value
    <3>1. s = call[t].i \/ s < call[t].i
      BY <1>1, <1>3, <2>5
    <3> QED
      BY <1>1, <2>2, <2>3, <3>1 DEF Known
  <2>6. Known(Proc(t))'
    BY <1>0, <2>2, <2>4, <2>5 DEF Known
  <2>7. Holds(t)'
    BY <1>1, <2>2 DEF Holds
  <2> QED
    BY <1>7, <1>19, <2>6, <2>7 DEF RefreshStore
<1>20. CASE RefreshEnd(t)
  BY <1>6, <1>7, <1>a, <1>20 DEF RefreshEnd
<1>21. CASE InCall(t)
  <2>1. UNCHANGED <<word, ready, own, nfs>>
    BY <1>21 DEF InCall, Skip, Look, Leave, Throttled, Finish
  <2>2. ASSUME Skip(t) \/ Leave(t) \/ Finish(t) PROVE Holds(t)'
    BY <1>0, <1>5, <2>2 DEF Skip, Leave, Finish, Idle
  <2>3. ASSUME Look(t) PROVE Holds(t)'
    BY <1>0, <1>8, <2>3 DEF Look
  <2>4. ASSUME Throttled(t) PROVE Holds(t)'
    BY <1>0, <1>1, <2>4 DEF Throttled, Holds
  <2>5. Holds(t)'
    BY <1>21, <2>2, <2>3, <2>4 DEF InCall
  <2> QED
    BY <1>6, <1>7, <2>1, <2>5
<1>22. ASSUME NEW k \in Kind, NEW f \in Server \cup {None}, Begin(t, k, f)
       PROVE  /\ word' = word /\ Published' /\ Holds(t)' /\ Known(Proc(t))'
  <2>1. Check_FS_Server(nfs[Proc(t)], f) # None => f # None
    BY <1>0, <1>1 DEF Check_FS_Server, None, Known
  <2>2. /\ call'[t].idx = Check_FS_Server(nfs[Proc(t)], f)
        /\ call'[t].file = f /\ pc'[t] = "called"
    BY <1>0, <1>22 DEF Begin, NoCall
  <2>3. Holds(t)'
    BY <2>1, <2>2 DEF Holds
  <2> QED
    BY <1>6, <1>7, <1>22, <2>3 DEF Begin
<1> QED
  BY <1>9, <1>10, <1>11, <1>12, <1>13, <1>14, <1>15, <1>16, <1>17, <1>18, <1>19,
     <1>20, <1>21, <1>22 DEF Act, Construct, Refresh

\* A run of set_io_param stores settings.
LEMMA PublishKnown ==
    ASSUME IInv, KnownInv, NEW q \in Publisher, Publish(q)
    PROVE  KnownInv'
PROOF
<1>1. /\ UNCHANGED <<ready, own, nfs, pc>>
      /\ \A u \in Thread : /\ call'[u].i = call[u].i
                           /\ call'[u].reg = call[u].reg
                           /\ call'[u].idx = call[u].idx
                           /\ call'[u].file = call[u].file
  BY DEF Publish, Switch, PublishWord, PublishOn, PublishStamp, Disturb, IInv, TypeOK
<1>2. \A s \in Server : word[s] \in Value => word'[s] \in Value
  BY DEF Publish, Switch, PublishWord, PublishOn, PublishStamp, IInv, TypeOK
<1>3. \A u \in Thread : Proc(u)' = Proc(u)
  BY DEF Proc
<1> QED
  BY <1>1, <1>2, <1>3 DEF KnownInv, Published, Holds, Known

\* No process knows a server that was not configured or a setting that was not
\* published.
THEOREM OnlyPublishedKnown ==
    ASSUME OneThreadEach PROVE Spec => []KnownInv
PROOF
<1>1. Init => KnownInv
  BY ParamsAssumption
  DEF Init, KnownInv, Published, Holds, Known, NoCall, Creating, Server
<1>2. IInv /\ KnownInv /\ [Next]_vars => KnownInv'
  <2> SUFFICES ASSUME IInv, KnownInv, [Next]_vars PROVE KnownInv'
    OBVIOUS
  <2>1. ASSUME NEW t \in Thread, Act(t) PROVE KnownInv'
    BY <2>1, ActKnown
  <2>2. ASSUME NEW q \in Publisher, Publish(q) PROVE KnownInv'
    BY <2>2, PublishKnown
  <2>3. CASE UNCHANGED vars
    BY <2>3 DEF vars, KnownInv, Published, Holds, Known, Proc
  <2> QED
    BY <2>1, <2>2, <2>3 DEF Next, Act
<1> QED
  BY <1>1, <1>2, Invariant, PTL DEF Spec

\* A process waits until the segment is ready, so it never uses settings that
\* nobody published (p_Param_Mem_Ready, Update_Parameters).
THEOREM GarbageNeverUsed ==
    ASSUME OneThreadEach PROVE Spec => []NoGarbage
<1>1. TypeOK /\ KnownInv => NoGarbage
  BY DEF TypeOK, KnownInv, Known, NoGarbage
<1> QED
  BY <1>1, OnlyPublishedKnown, TypeCorrect, PTL

\* A call on a file of no server is never counted (Check_FS_Server).
THEOREM LocalNeverCounted ==
    ASSUME OneThreadEach PROVE Spec => []LocalNotCounted
<1>1. KnownInv => LocalNotCounted
  BY DEF KnownInv, Holds, LocalNotCounted
<1> QED
  BY <1>1, OnlyPublishedKnown, PTL

-----------------------------------------------------------------------------
(* Calls during which nothing is published.                                *)

\* A call that is still calm has met no publisher, copies the published words,
\* and has them at the gate.
Calm(t) ==
    LET p == Proc(t)
    IN  call[t].calm =>
        /\ NoPublisher
        /\ pc[t] \in {"load", "store"} => ownStamp[p] = stamp
        /\ pc[t] = "gate" /\ ~disabled => active[p] /\ own[p] = word

CalmInv == \A t \in Thread : Calm(t)

\* The creator stores while nobody else is in a call, and no other step of a
\* thread stores in the segment.
LEMMA OthersCalm ==
    ASSUME OneThreadEach, IInv, NEW t \in Thread, Act(t),
           NEW u \in Thread \ {t}, Calm(u)
    PROVE  Calm(u)'
PROOF
<1>1. Local(t)
  BY ActLocal DEF IInv
<1>2. NoPublisher' <=> NoPublisher
  BY <1>1 DEF Local, NoPublisher
<1>3. Proc(u) \in Process \ {Proc(t)} /\ Proc(u)' = Proc(u)
  BY ParamsAssumption DEF OneThreadEach, Proc
<1>4. UNCHANGED <<word, stamp, disabled>> \/ pc[t] \in Creating
  BY DEF Act, Construct, Refresh, InCall, Create, CreateStamp, CreateWord,
         CreateReady, Join, JoinReady, RefreshOff, RefreshOn, RefreshStamp,
         RefreshLoad, RefreshStore, RefreshEnd, Skip, Look, Leave, Throttled,
         Finish, Begin, Creating
<1>5. pc[t] \in Creating => pc[u] \in Creating \cup {"idle", "wait"}
  BY DEF IInv, SyncInv, Alone
<1> QED
  BY <1>1, <1>2, <1>3, <1>4, <1>5 DEF Local, Calm, Creating

\* The call itself reaches the gate with the published words.
LEMMA OwnCalm ==
    ASSUME OneThreadEach, IInv, NEW t \in Thread, Act(t), Calm(t)
    PROVE  Calm(t)'
PROOF
<1> USE DEF Goto
<1>0. /\ pc \in [Thread -> PCs] /\ Proc(t) \in Process /\ call[t] \in CallRec
      /\ DOMAIN call = Thread /\ DOMAIN ownStamp = Process
      /\ Proc(t)' = Proc(t)
  BY ParamsAssumption DEF IInv, TypeOK, Proc, CallRec
<1>1. Copying(t) /\ Agree(Proc(t)) /\ Local(t)
  BY <1>0, ActLocal DEF IInv, SyncInv, SyncedAgree, Agree
<1>2. NoPublisher' <=> NoPublisher
  BY <1>1 DEF Local, NoPublisher
<1>3. ASSUME call'[t].calm => call[t].calm,
             pc'[t] \notin {"load", "store", "gate"}
      PROVE  Calm(t)'
  BY <1>2, <1>3 DEF Calm
<1>4. ASSUME call' = [call EXCEPT ![t] = NoCall] PROVE Calm(t)'
  BY <1>0, <1>4 DEF Calm, NoCall
<1>a. ASSUME AfterRefresh(t)
      PROVE  call'[t].calm = call[t].calm /\ pc'[t] \in {"gate", "idle"}
  BY <1>0, <1>a DEF AfterRefresh, CallRec
<1>5. CASE Construct(t)
  <2>1. CASE CreateStamp(t) \/ CreateWord(t) \/ JoinReady(t)
    <3>1. /\ call'[t].calm = call[t].calm
          /\ pc'[t] \in {"publish", "refresh"}
      BY <1>0, <2>1 DEF CreateStamp, CreateWord, JoinReady, CallRec
    <3> QED
      BY <1>3, <3>1
  <2>2. CASE Create(t) \/ CreateReady(t) \/ Join(t)
    BY <1>4, <2>2 DEF Create, CreateReady, Join, Idle
  <2> QED
    BY <1>5, <2>1, <2>2 DEF Construct
<1>6. CASE RefreshOff(t)
  BY <1>0, <1>2, <1>6, <1>a DEF RefreshOff, Calm
<1>7. CASE RefreshOn(t)
  <2>1. call'[t].calm = call[t].calm /\ pc'[t] = "stamp"
    BY <1>0, <1>7 DEF RefreshOn, CallRec
  <2> QED
    BY <1>3, <2>1
<1>8. CASE RefreshStamp(t)
  BY <1>0, <1>2, <1>8 DEF RefreshStamp, Calm
<1>9. CASE RefreshLoad(t) \/ RefreshStore(t)
  <2>1. /\ pc[t] \in {"load", "store"} /\ pc'[t] \in {"load", "store"}
        /\ call'[t].calm = call[t].calm /\ UNCHANGED <<stamp, ownStamp>>
    BY <1>0, <1>9 DEF RefreshLoad, RefreshStore, CallRec
  <2> QED
    BY <1>0, <1>2, <2>1 DEF Calm
<1>10. CASE RefreshEnd(t)
  <2>1. /\ pc[t] = "load" /\ call[t].i = NConfigured
        /\ UNCHANGED <<own, ownStamp, active, word, stamp, disabled>>
    BY <1>10 DEF RefreshEnd
  <2>2. call'[t].calm = call[t].calm /\ pc'[t] \in {"gate", "idle"}
    BY <1>10, <1>a DEF RefreshEnd
  <2>3. ASSUME call[t].calm PROVE active[Proc(t)] /\ own[Proc(t)] = word
    <3>1. NoPublisher /\ ownStamp[Proc(t)] = stamp
      BY <2>1, <2>3 DEF Calm
    <3>2. \A s \in Server : s < NConfigured => own[Proc(t)][s] = word[s]
      BY <1>1, <2>1, <3>1 DEF Copying
    <3>3. \A s \in Server : s < NConfigured
      BY ParamsAssumption DEF Server
    <3>4. own[Proc(t)] \in [Server -> Setting] /\ word \in [Server -> Setting]
      BY <1>0 DEF IInv, TypeOK
    <3>5. own[Proc(t)] = word
      BY <3>2, <3>3, <3>4
    <3> QED
      BY <1>1, <2>1, <3>5 DEF Copying
  <2> QED
    BY <1>0, <1>2, <2>1, <2>2, <2>3 DEF Calm
<1>11. CASE Look(t)
  <2>1. /\ pc[t] = "called" /\ call' = call
        /\ UNCHANGED <<own, ownStamp, active, word, stamp, disabled>>
        /\ \/ pc'[t] = "refresh"
           \/ pc'[t] = "gate" /\ ownStamp[Proc(t)] = stamp
    BY <1>0, <1>11 DEF Look
  <2>2. Settled(Proc(t))
    BY <1>1, <2>1 DEF Copying, Settled, Refreshing, OneThreadEach, Proc
  <2> QED
    BY <1>0, <1>1, <1>2, <2>1, <2>2 DEF Calm, Agree
<1>12. CASE Throttled(t)
  <2>1. call' = call /\ pc'[t] = "counted"
    BY <1>0, <1>12 DEF Throttled
  <2> QED
    BY <1>3, <2>1
<1>13. CASE Skip(t) \/ Leave(t) \/ Finish(t)
  BY <1>4, <1>13 DEF Skip, Leave, Finish, Idle
<1>14. ASSUME NEW k \in Kind, NEW f \in Server \cup {None}, Begin(t, k, f)
       PROVE  Calm(t)'
  <2>1. call'[t].calm = NoPublisher /\ pc'[t] = "called"
    BY <1>0, <1>14 DEF Begin, NoCall
  <2> QED
    BY <1>2, <2>1 DEF Calm
<1> QED
  BY <1>5, <1>6, <1>7, <1>8, <1>9, <1>10, <1>11, <1>12, <1>13, <1>14
  DEF Act, Refresh, InCall

\* A call during which nothing is published finds its process switched on if the
\* tool is, and uses the settings published last (Update_Parameters).
THEOREM CalmCallsObey ==
    ASSUME OneThreadEach PROVE Spec => []CalmCallObeys
PROOF
<1>1. Init => CalmInv
  BY DEF Init, CalmInv, Calm, NoCall
<1>2. IInv /\ CalmInv /\ [Next]_vars => CalmInv'
  <2> SUFFICES ASSUME IInv, CalmInv, [Next]_vars PROVE CalmInv'
    OBVIOUS
  <2>1. ASSUME NEW t \in Thread, Act(t) PROVE CalmInv'
    BY <2>1, OwnCalm, OthersCalm DEF CalmInv
  <2>2. ASSUME NEW q \in Publisher, Publish(q) PROVE CalmInv'
    <3>1. \A u \in Thread : ~call'[u].calm
      BY <2>2 DEF Publish, Switch, PublishWord, PublishOn, PublishStamp, Disturb,
                  IInv, TypeOK
    <3> QED
      BY <3>1 DEF CalmInv, Calm
  <2>3. CASE UNCHANGED vars
    BY <2>3 DEF vars, CalmInv, Calm, NoPublisher, Proc
  <2> QED
    BY <2>1, <2>2, <2>3 DEF Next, Act
<1>3. CalmInv => CalmCallObeys
  BY DEF CalmInv, Calm, CalmCallObeys
<1> QED
  BY <1>1, <1>2, <1>3, Invariant, PTL DEF Spec

=============================================================================
