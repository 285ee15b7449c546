--------------------------- MODULE ThrottleProofs ---------------------------
(***************************************************************************)
(* Theorems about Throttle for any number of processes, threads, servers   *)
(* and calls, any ring, any limits.                                        *)
(***************************************************************************)
EXTENDS Throttle, FiniteSetTheorems, TLAPS

USE DEF shm, procs, life

\* A call number, or an earlier one, always falls on a slot of the ring.
LEMMA SlotInRange == \A n \in Int : Slot(n) \in 0 .. MAX_REC - 1
BY ThrottleAssumption DEF Slot

\* The registers of a thread that is in no call are of their type.
LEMMA NoCallType ==
    ASSUME NEW k \in Kind, NEW f \in FS
    PROVE  NoCall(k, f) \in CallRec
BY DEF NoCall, CallRec

\* The time a call must sleep is an integer, and added to its own stamp it is
\* a time not before the epoch.
LEMMA TimeToSleepType ==
    ASSUME NEW w \in Window, NEW ring \in [0 .. MAX_REC - 1 -> Nat], NEW n \in Nat
    PROVE  /\ TimeToSleep(w, ring, n) \in Int
           /\ ring[Slot(n)] \in Nat
           /\ ring[Slot(n)] + TimeToSleep(w, ring, n) \in Nat
<1>1. Slot(n) \in 0 .. MAX_REC - 1
  <2>1. n \in Int
    OBVIOUS
  <2> QED
    BY <2>1, SlotInRange
<1>2. Slot(n - N_SAMPLE_FOR_AVG) \in 0 .. MAX_REC - 1
  <2>1. n - N_SAMPLE_FOR_AVG \in Int
    BY ThrottleAssumption
  <2> QED
    BY <2>1, SlotInRange
<1>3. ring[Slot(n)] \in Nat /\ ring[Slot(n - N_SAMPLE_FOR_AVG)] \in Nat
  BY <1>1, <1>2
<1>4. w \in Nat
  BY ThrottleAssumption
<1> QED
  BY <1>3, <1>4 DEF TimeToSleep

-----------------------------------------------------------------------------
(* Type correctness.                                                       *)

\* The variables start within their types.
LEMMA InitType == Init => TypeOK
<1> SUFFICES ASSUME Init PROVE TypeOK
  OBVIOUS
<1>1. (CHOOSE k \in Kind : TRUE) \in Kind /\ (CHOOSE f \in FS : TRUE) \in FS
  BY ThrottleAssumption
<1>2. call \in [Thread -> CallRec]
  BY <1>1, NoCallType DEF Init
<1> QED
  BY <1>2, ThrottleAssumption DEF Init, TypeOK, PCs

\* What a thread does keeps them there.
LEMMA StepType ==
    ASSUME TypeOK, NEW t \in Thread, Step(t)
    PROVE  TypeOK'
<1> USE DEF K, F, Proc, Goto
<1>0. /\ K(t) \in Kind /\ F(t) \in FS /\ Proc(t) \in Process
      /\ call[t] \in CallRec
      /\ tlist[K(t)][F(t)] \in [0 .. MAX_REC - 1 -> Nat]
      /\ param[Proc(t)].window[K(t)][F(t)] \in Window
      /\ shared.window[K(t)][F(t)] \in Window
      /\ count[K(t)][F(t)] \in Nat /\ delayed[K(t)][F(t)] \in Nat
  <2>1. call[t] \in CallRec
    BY DEF TypeOK
  <2>2. K(t) \in Kind /\ F(t) \in FS
    BY <2>1 DEF CallRec
  <2>3. Proc(t) \in Process
    BY ThrottleAssumption
  <2> HIDE DEF K, F, Proc
  <2>4. tlist[K(t)][F(t)] \in [0 .. MAX_REC - 1 -> Nat]
    BY <2>2 DEF TypeOK
  <2>5. param[Proc(t)].window \in Limits /\ shared.window \in Limits
    BY <2>3 DEF TypeOK
  <2>6. \A w \in Limits : w[K(t)][F(t)] \in Window
    BY <2>2 DEF Limits
  <2>7. count[K(t)][F(t)] \in Nat /\ delayed[K(t)][F(t)] \in Nat
    BY <2>2 DEF TypeOK
  <2> QED
    BY <2>1, <2>2, <2>3, <2>4, <2>5, <2>6, <2>7
<1>d. shared.window[K(t)][F(t)] \in Nat
  BY <1>0, ThrottleAssumption
<1>a. call[t].n \in Nat
  BY <1>0 DEF CallRec
<1>b. Slot(call[t].n) \in 0 .. MAX_REC - 1
  BY <1>a, SlotInRange
<1>c. \A c \in CallRec : [call EXCEPT ![t] = c] \in [Thread -> CallRec]
  BY DEF TypeOK
<1>e. ASSUME NEW at \in Nat
      PROVE  [done EXCEPT ![K(t)][F(t)] =
                @ \cup {[n |-> call[t].n, at |-> at, limit |-> call[t].limit,
                         due |-> call[t].due]}]
                \in [Kind -> [FS -> SUBSET DoneRec]]
  <2> DEFINE d == [n |-> call[t].n, at |-> at, limit |-> call[t].limit,
                   due |-> call[t].due]
  <2>1. d \in DoneRec
    BY <1>0 DEF CallRec, DoneRec
  <2>2. done[K(t)] \in [FS -> SUBSET DoneRec]
    BY <1>0 DEF TypeOK
  <2>3. done[K(t)][F(t)] \cup {d} \in SUBSET DoneRec
    BY <1>0, <2>1, <2>2
  <2> HIDE DEF d
  <2>4. [done EXCEPT ![K(t)][F(t)] = @ \cup {d}]
          \in [Kind -> [FS -> SUBSET DoneRec]]
    BY <1>0, <2>2, <2>3 DEF TypeOK
  <2> QED
    BY <2>4 DEF d
<1>1. CASE Post(t)
  <2> DEFINE c == [call[t] EXCEPT !.limit = shared.window[K(t)][F(t)]]
  <2>1. c \in CallRec
    BY <1>0, <1>d DEF CallRec
  <2>2. call' = [call EXCEPT ![t] = c]
    BY <1>1 DEF Post
  <2>3. call' \in [Thread -> CallRec]
    BY <1>c, <2>1, <2>2
  <2>4. param' \in [Process -> [stamp : Nat, window : Limits]]
    BY <1>1 DEF Post, TypeOK
  <2> QED
    BY <1>1, <2>3, <2>4 DEF Post, TypeOK, PCs
<1>2. CASE Count(t)
  BY <1>0, <1>2 DEF Count, TypeOK, PCs, CallRec
<1>3. CASE Counted(t)
  BY <1>0, <1>3 DEF Counted, TypeOK, PCs, CallRec
<1>4. CASE Stamp(t)
  <2>2. tlist' \in [Kind -> [FS -> [0 .. MAX_REC - 1 -> Nat]]]
    BY <1>0, <1>4, <1>b DEF Stamp, TypeOK
  <2>3. call' \in [Thread -> CallRec]
    <3> DEFINE b == now - call[t].start > Threshold
               c == [call[t] EXCEPT !.slow = b]
    <3>1. c \in CallRec
      <4>1. b \in BOOLEAN
        OBVIOUS
      <4> HIDE DEF b
      <4> QED
        BY <1>0, <4>1 DEF CallRec
    <3>2. call' = [call EXCEPT ![t] = c]
      BY <1>4 DEF Stamp
    <3> QED
      BY <1>c, <3>1, <3>2
  <2> QED
    BY <1>4, <2>2, <2>3 DEF Stamp, TypeOK, PCs
<1>5. CASE Pass(t)
  <2>1. tlist[K(t)][F(t)][Slot(call[t].n)] \in Nat
    BY <1>0, <1>b
  <2>2. call' \in [Thread -> CallRec]
    BY <1>0, <1>5, <1>c, NoCallType DEF Pass, Return
  <2>3. done' \in [Kind -> [FS -> SUBSET DoneRec]]
    BY <1>0, <1>5, <1>e, <2>1 DEF Pass, Return
  <2> QED
    BY <1>5, <2>2, <2>3 DEF Pass, Return, TypeOK, PCs
<1>6. CASE Delay(t)
  <2> DEFINE ring == tlist[K(t)][F(t)]
             dT == TimeToSleep(param[Proc(t)].window[K(t)][F(t)], ring,
                               call[t].n)
  <2>1. dT \in Int /\ ring[Slot(call[t].n)] + dT \in Nat
    BY <1>0, <1>a, TimeToSleepType
  <2> DEFINE c == [call[t] EXCEPT !.dT = dT,
                                  !.due = ring[Slot(call[t].n)] + dT]
  <2>2. c \in CallRec
    <3> HIDE DEF dT, ring
    <3> QED
      BY <1>0, <2>1 DEF CallRec
  <2>3. call' \in [Thread -> CallRec]
    <3>1. call' = [call EXCEPT ![t] = c]
      BY <1>6 DEF Delay
    <3> QED
      BY <1>c, <2>2, <3>1
  <2>4. tim1' \in [Process -> Int]
    BY <1>0, <1>6, <2>1 DEF Delay, TypeOK
  <2> QED
    BY <1>6, <2>3, <2>4 DEF Delay, TypeOK, PCs
<1>7. CASE Sleep(t)
  <2>1. tim1[Proc(t)] \in Int
    BY <1>0 DEF TypeOK
  <2>2. call' \in [Thread -> CallRec]
    <3> DEFINE w == IF tim1[Proc(t)] > 0 THEN now + tim1[Proc(t)] ELSE now
               c == [call[t] EXCEPT !.wake = w]
    <3>1. w \in Nat
      BY <2>1 DEF TypeOK
    <3>2. c \in CallRec
      <4> HIDE DEF w
      <4> QED
        BY <1>0, <3>1 DEF CallRec
    <3>3. call' = [call EXCEPT ![t] = c]
      BY <1>7 DEF Sleep
    <3> QED
      BY <1>c, <3>2, <3>3
  <2> QED
    BY <1>7, <2>2, <1>0 DEF Sleep, TypeOK, PCs
<1>8. CASE Wake(t)
  <2> DEFINE c == [call[t] EXCEPT !.reg = delayed[K(t)][F(t)]]
  <2>1. c \in CallRec
    BY <1>0 DEF CallRec
  <2>2. call' = [call EXCEPT ![t] = c]
    BY <1>8 DEF Wake
  <2>3. call' \in [Thread -> CallRec]
    BY <1>c, <2>1, <2>2
  <2> QED
    BY <1>8, <2>3 DEF Wake, TypeOK, PCs
<1>9. CASE Unsleep(t)
  <2>1. call[t].reg + 1 \in Nat
    BY <1>0 DEF CallRec
  <2>2. delayed' \in [Kind -> [FS -> Nat]]
    BY <1>0, <1>9, <2>1 DEF Unsleep, TypeOK
  <2>3. locked' \in [Kind -> BOOLEAN]
    BY <1>0, <1>9 DEF Unsleep, TypeOK
  <2>4. pc' \in [Thread -> PCs]
    BY <1>9 DEF Unsleep, TypeOK, PCs
  <2> QED
    BY <1>9, <2>2, <2>3, <2>4 DEF Unsleep, TypeOK
<1>10. CASE Restamp(t)
  <2>2. tlist' \in [Kind -> [FS -> [0 .. MAX_REC - 1 -> Nat]]]
    BY <1>0, <1>10, <1>b DEF Restamp, TypeOK
  <2>3. call' \in [Thread -> CallRec]
    BY <1>0, <1>10, <1>c, NoCallType DEF Restamp, Return
  <2>4. done' \in [Kind -> [FS -> SUBSET DoneRec]]
    <3>1. now \in Nat
      BY DEF TypeOK
    <3> QED
      BY <1>0, <1>10, <1>e, <3>1 DEF Restamp, Return
  <2> QED
    BY <1>10, <2>2, <2>3, <2>4 DEF Restamp, Return, TypeOK, PCs
<1> QED
  BY <1>1, <1>2, <1>3, <1>4, <1>5, <1>6, <1>7, <1>8, <1>9, <1>10 DEF Step

\* So does everything else that may happen.
LEMMA NextType == TypeOK /\ [Next]_vars => TypeOK'
<1> SUFFICES ASSUME TypeOK, [Next]_vars PROVE TypeOK'
  OBVIOUS
<1>1. ASSUME NEW t \in Thread, Step(t) PROVE TypeOK'
  BY <1>1, StepType
<1>2. ASSUME NEW t \in Thread, NEW k \in Kind, NEW f \in FS, Begin(t, k, f)
      PROVE  TypeOK'
  <2>1. [NoCall(k, f) EXCEPT !.start = now] \in CallRec
    BY NoCallType DEF NoCall, CallRec, TypeOK
  <2> QED
    BY <1>2, <2>1 DEF Begin, Goto, TypeOK, PCs
<1>3. ASSUME NEW p \in Process, Start(p) PROVE TypeOK'
  BY <1>3 DEF Start, TypeOK
<1>4. ASSUME NEW p \in Process, Exit(p) PROVE TypeOK'
  BY <1>4 DEF Exit, TypeOK
<1>5. ASSUME NEW f \in FS, NEW w \in [Kind -> Window], SetIoParam(f, w)
      PROVE  TypeOK'
  <2>1. shared'.window \in Limits
    BY <1>5 DEF SetIoParam, TypeOK, Limits
  <2> QED
    BY <1>5, <2>1 DEF SetIoParam, TypeOK
<1>6. CASE Tick
  BY <1>6 DEF Tick, TypeOK
<1>7. CASE UNCHANGED vars
  BY <1>7 DEF vars, TypeOK
<1> QED
  BY <1>1, <1>2, <1>3, <1>4, <1>5, <1>6, <1>7 DEF Next

\* Throttle keeps every variable within its type: call numbers and counters
\* are natural numbers, time stamps fall on slots of the ring.
THEOREM TypeCorrect == Spec => []TypeOK
<1>1. Init => TypeOK
  BY InitType
<1>2. TypeOK /\ [Next]_vars => TypeOK'
  BY NextType
<1> QED
  BY <1>1, <1>2, PTL DEF Spec
-----------------------------------------------------------------------------
(* Mutual exclusion and call numbers.                                      *)

\* A step of one thread leaves the position and the call of the others alone,
\* and its own kind and server too.
LEMMA StepLocal ==
    ASSUME TypeOK, NEW t \in Thread, Step(t)
    PROVE  /\ \A u \in Thread \ {t} : pc'[u] = pc[u] /\ call'[u] = call[u]
           /\ call'[t].kind = call[t].kind /\ call'[t].fs = call[t].fs
<1> USE DEF Goto, K, F
<1>0. call[t] \in CallRec /\ pc \in [Thread -> PCs] /\ call \in [Thread -> CallRec]
  BY DEF TypeOK
<1>1. CASE Post(t)
  BY <1>0, <1>1 DEF Post, CallRec
<1>2. CASE Count(t)
  BY <1>0, <1>2 DEF Count, CallRec
<1>3. CASE Counted(t)
  BY <1>0, <1>3 DEF Counted
<1>4. CASE Stamp(t)
  BY <1>0, <1>4 DEF Stamp, CallRec
<1>5. CASE Pass(t)
  BY <1>0, <1>5 DEF Pass, Return, NoCall
<1>6. CASE Delay(t)
  BY <1>0, <1>6 DEF Delay, CallRec
<1>7. CASE Sleep(t)
  BY <1>0, <1>7 DEF Sleep, CallRec
<1>8. CASE Wake(t)
  BY <1>0, <1>8 DEF Wake, CallRec
<1>9. CASE Unsleep(t)
  BY <1>0, <1>9 DEF Unsleep
<1>10. CASE Restamp(t)
  BY <1>0, <1>10 DEF Restamp, Return, NoCall
<1> QED
  BY <1>1, <1>2, <1>3, <1>4, <1>5, <1>6, <1>7, <1>8, <1>9, <1>10 DEF Step

\* A thread takes a mutex only when it is free and frees only the one it holds.
LEMMA StepMutex ==
    ASSUME TypeOK, NEW t \in Thread, Step(t)
    PROVE  \/ /\ ~locked[K(t)] /\ pc[t] \notin Inside /\ pc'[t] \in Inside
              /\ locked' = [locked EXCEPT ![K(t)] = TRUE]
           \/ /\ pc[t] \in Inside /\ pc'[t] \notin Inside
              /\ locked' = [locked EXCEPT ![K(t)] = FALSE]
           \/ /\ pc[t] \in Inside <=> pc'[t] \in Inside
              /\ locked' = locked
<1> USE DEF Goto, Inside, InCount, InSleep
<1>0. pc \in [Thread -> PCs]
  BY DEF TypeOK
<1>1. CASE Post(t)
  BY <1>0, <1>1 DEF Post
<1>2. CASE Count(t)
  BY <1>0, <1>2 DEF Count
<1>3. CASE Counted(t)
  BY <1>0, <1>3 DEF Counted
<1>4. CASE Stamp(t)
  BY <1>0, <1>4 DEF Stamp
<1>5. CASE Pass(t)
  BY <1>0, <1>5 DEF Pass, Return
<1>6. CASE Delay(t)
  BY <1>0, <1>6 DEF Delay
<1>7. CASE Sleep(t)
  BY <1>0, <1>7 DEF Sleep
<1>8. CASE Wake(t)
  BY <1>0, <1>8 DEF Wake
<1>9. CASE Unsleep(t)
  BY <1>0, <1>9 DEF Unsleep
<1>10. CASE Restamp(t)
  BY <1>0, <1>10 DEF Restamp, Return
<1> QED
  BY <1>1, <1>2, <1>3, <1>4, <1>5, <1>6, <1>7, <1>8, <1>9, <1>10 DEF Step

\* When starts are quiet, a thread at a point where it holds a mutex finds it
\* locked, and alone.
LEMMA NextExclusive ==
    ASSUME QuietStart, TypeOK, Exclusive, [Next]_vars
    PROVE  Exclusive'
<1>1. ASSUME NEW t \in Thread, Step(t) PROVE Exclusive'
  <2>1. /\ \A u \in Thread \ {t} : pc'[u] = pc[u] /\ K(u)' = K(u)
        /\ K(t)' = K(t)
    BY <1>1, StepLocal DEF K
  <2>2. K(t) \in Kind /\ locked \in [Kind -> BOOLEAN]
    BY DEF TypeOK, CallRec, K
  <2> HIDE DEF K
  <2>3. CASE /\ ~locked[K(t)] /\ pc[t] \notin Inside /\ pc'[t] \in Inside
             /\ locked' = [locked EXCEPT ![K(t)] = TRUE]
    <3>1. \A u \in Thread : pc[u] \in Inside => K(u) # K(t)
      BY <2>3 DEF Exclusive
    <3> QED
      BY <2>1, <2>2, <2>3, <3>1 DEF Exclusive
  <2>4. CASE /\ pc[t] \in Inside /\ pc'[t] \notin Inside
             /\ locked' = [locked EXCEPT ![K(t)] = FALSE]
    <3>1. \A u \in Thread \ {t} : pc[u] \in Inside => K(u) # K(t)
      BY <2>4 DEF Exclusive
    <3> QED
      BY <2>1, <2>2, <2>4, <3>1 DEF Exclusive
  <2>5. CASE (pc[t] \in Inside <=> pc'[t] \in Inside) /\ locked' = locked
    BY <2>1, <2>5 DEF Exclusive
  <2> QED
    BY <1>1, <2>3, <2>4, <2>5, StepMutex
<1>2. ASSUME NEW t \in Thread, NEW k \in Kind, NEW f \in FS, Begin(t, k, f)
      PROVE  Exclusive'
  <2>1. pc'[t] \notin Inside
    BY <1>2 DEF Begin, Goto, TypeOK, Inside, InCount, InSleep
  <2>2. \A u \in Thread \ {t} : pc'[u] = pc[u] /\ K(u)' = K(u)
    BY <1>2 DEF Begin, Goto, TypeOK, K
  <2>3. locked' = locked
    BY <1>2 DEF Begin
  <2> QED
    BY <2>1, <2>2, <2>3 DEF Exclusive
<1>3. ASSUME NEW p \in Process, Start(p) PROVE Exclusive'
  <2>1. \A u \in Thread : pc'[u] \notin Inside
    BY <1>3 DEF Start, Quiet
  <2> QED
    BY <2>1 DEF Exclusive
<1>4. ASSUME NEW p \in Process, Exit(p) PROVE Exclusive'
  BY <1>4 DEF Exit, Exclusive, K
<1>5. ASSUME NEW f \in FS, NEW w \in [Kind -> Window], SetIoParam(f, w)
      PROVE  Exclusive'
  BY <1>5 DEF SetIoParam, Exclusive, K
<1>6. CASE Tick
  BY <1>6 DEF Tick, Exclusive, K
<1>7. CASE UNCHANGED vars
  BY <1>7 DEF vars, Exclusive, K
<1> QED
  BY <1>1, <1>2, <1>3, <1>4, <1>5, <1>6, <1>7 DEF Next

\* Sleeps of one kind are serialised, across threads and processes, as long as
\* no process starts while another is at or inside a mutex.
THEOREM SleepsSerialized == ASSUME QuietStart PROVE Spec => []SleepSerialized
<1>1. Init => TypeOK /\ Exclusive
  <2>1. Init => Exclusive
    BY DEF Init, Exclusive, Inside, InCount, InSleep
  <2> QED
    BY <2>1, InitType
<1>2. TypeOK /\ Exclusive /\ [Next]_vars => (TypeOK /\ Exclusive)'
  BY NextType, NextExclusive
<1>3. Exclusive => SleepSerialized
  BY DEF Exclusive, SleepSerialized, Inside, InSleep
<1> QED
  BY <1>1, <1>2, <1>3, PTL DEF Spec

\* What a step of a thread may do to call numbers: nothing, read the counter
\* into a register, store the register plus one, or hand a number to history.
LEMMA StepTicket ==
    ASSUME TypeOK, NEW t \in Thread, Step(t)
    PROVE  \/ /\ pc[t] \in Ticketed <=> pc'[t] \in Ticketed
              /\ pc'[t] # "counting"
              /\ pc[t] \in Ticketed => call'[t].n = call[t].n
              /\ count' = count /\ done' = done
           \/ /\ pc[t] \notin Ticketed /\ pc'[t] = "counting"
              /\ call'[t].n = count[K(t)][F(t)]
              /\ count' = count /\ done' = done
           \/ /\ pc[t] = "counting" /\ pc'[t] = "stamp"
              /\ call'[t].n = call[t].n
              /\ count' = [count EXCEPT ![K(t)][F(t)] = call[t].n + 1]
              /\ done' = done
           \/ /\ pc[t] \in Ticketed /\ pc'[t] = "idle"
              /\ count' = count
              /\ \E r : /\ r.n = call[t].n
                        /\ done' = [done EXCEPT ![K(t)][F(t)] = @ \cup {r}]
<1> USE DEF Goto, Ticketed
<1>0. /\ call[t] \in CallRec /\ pc \in [Thread -> PCs]
      /\ call \in [Thread -> CallRec]
  BY DEF TypeOK
<1>1. CASE Post(t)
  BY <1>0, <1>1 DEF Post
<1>2. CASE Count(t)
  BY <1>0, <1>2 DEF Count, CallRec
<1>3. CASE Counted(t)
  BY <1>0, <1>3 DEF Counted
<1>4. CASE Stamp(t)
  BY <1>0, <1>4 DEF Stamp, CallRec
<1>5. CASE Pass(t)
  BY <1>0, <1>5 DEF Pass, Return
<1>6. CASE Delay(t)
  BY <1>0, <1>6 DEF Delay, CallRec
<1>7. CASE Sleep(t)
  BY <1>0, <1>7 DEF Sleep, CallRec
<1>8. CASE Wake(t)
  BY <1>0, <1>8 DEF Wake, CallRec
<1>9. CASE Unsleep(t)
  BY <1>0, <1>9 DEF Unsleep
<1>10. CASE Restamp(t)
  BY <1>0, <1>10 DEF Restamp, Return
<1> QED
  BY <1>1, <1>2, <1>3, <1>4, <1>5, <1>6, <1>7, <1>8, <1>9, <1>10 DEF Step

\* A step of a thread keeps call numbers below the counter and distinct.
LEMMA StepNumbered ==
    ASSUME TypeOK, Exclusive, Numbered, TicketsDistinct,
           NEW t \in Thread, Step(t)
    PROVE  (Numbered /\ TicketsDistinct)'
<1>1. /\ \A u \in Thread \ {t} : /\ pc'[u] = pc[u] /\ call'[u].n = call[u].n
                                 /\ K(u)' = K(u) /\ F(u)' = F(u)
      /\ K(t)' = K(t) /\ F(t)' = F(t)
  BY StepLocal DEF K, F
<1>2. /\ \A u \in Thread : K(u) \in Kind /\ F(u) \in FS /\ call[u].n \in Nat
      /\ count \in [Kind -> [FS -> Nat]]
      /\ done \in [Kind -> [FS -> SUBSET DoneRec]]
  BY DEF TypeOK, CallRec, K, F
<1>t. "counting" \notin Ticketed /\ "idle" \notin Ticketed /\ "stamp" \in Ticketed
  BY DEF Ticketed
<1> HIDE DEF K, F, Ticketed
<1> USE <1>1, <1>2, <1>t DEF Numbered, TicketsDistinct, Holding
<1>3. CASE /\ pc[t] \in Ticketed <=> pc'[t] \in Ticketed
           /\ pc'[t] # "counting"
           /\ pc[t] \in Ticketed => call'[t].n = call[t].n
           /\ count' = count /\ done' = done
  <2>1. \A k \in Kind, f \in FS : /\ Holding(k, f)' = Holding(k, f)
                                  /\ \A u \in Holding(k, f) : call'[u].n = call[u].n
    BY <1>3
  <2>2. Numbered'
    <3>1. ASSUME NEW u \in Thread, pc'[u] = "counting"
          PROVE  call'[u].n = count'[K(u)'][F(u)']
      <4>1. u # t
        BY <1>3, <3>1
      <4> QED
        BY <1>3, <3>1, <4>1
    <3> QED
      BY <1>3, <2>1, <3>1
  <2> QED
    BY <1>3, <2>1, <2>2
<1>4. CASE /\ pc[t] \notin Ticketed /\ pc'[t] = "counting"
           /\ call'[t].n = count[K(t)][F(t)]
           /\ count' = count /\ done' = done
  <2>1. \A k \in Kind, f \in FS : /\ Holding(k, f)' = Holding(k, f)
                                  /\ \A u \in Holding(k, f) : call'[u].n = call[u].n
    BY <1>4
  <2>2. Numbered'
    <3>1. ASSUME NEW u \in Thread, pc'[u] = "counting"
          PROVE  call'[u].n = count'[K(u)'][F(u)']
      <4>1. CASE u = t
        BY <1>4, <4>1
      <4>2. CASE u # t
        BY <1>4, <3>1, <4>2
      <4> QED
        BY <4>1, <4>2
    <3> QED
      BY <1>4, <2>1, <3>1
  <2> QED
    BY <1>4, <2>1, <2>2
<1>5. CASE /\ pc[t] = "counting" /\ pc'[t] = "stamp"
           /\ call'[t].n = call[t].n
           /\ count' = [count EXCEPT ![K(t)][F(t)] = call[t].n + 1]
           /\ done' = done
  <2>1. \A u \in Thread \ {t} : pc[u] = "counting" => K(u) # K(t)
    BY <1>5 DEF Exclusive, Inside, InCount
  <2>2. call[t].n = count[K(t)][F(t)]
    BY <1>5
  <2>3. \A k \in Kind, f \in FS :
           count'[k][f] = IF k = K(t) /\ f = F(t) THEN count[k][f] + 1
                                                  ELSE count[k][f]
    BY <1>5, <2>2
  <2>4. \A k \in Kind, f \in FS : \A u \in Holding(k, f)' :
           \/ u # t /\ u \in Holding(k, f)
           \/ u = t /\ k = K(t) /\ f = F(t)
    BY <1>5
  <2>5. \A k \in Kind, f \in FS : \A d \in done[k][f] : d.n \in Nat
    BY DEF DoneRec
  <2>6. Numbered'
    <3>1. ASSUME NEW u \in Thread, pc'[u] = "counting"
          PROVE  call'[u].n = count'[K(u)'][F(u)']
      <4>1. u # t /\ pc[u] = "counting"
        BY <1>5, <3>1
      <4>2. K(u) # K(t) /\ call[u].n = count[K(u)][F(u)]
        BY <2>1, <4>1
      <4>3. count'[K(u)][F(u)] = count[K(u)][F(u)]
        BY <2>3, <4>2
      <4> QED
        BY <4>1, <4>2, <4>3
    <3>2. ASSUME NEW k \in Kind, NEW f \in FS, NEW u \in Holding(k, f)'
          PROVE  call'[u].n < count'[k][f]
      <4>1. count[k][f] \in Nat
        OBVIOUS
      <4>2. CASE u # t /\ u \in Holding(k, f)
        <5>1. call[u].n < count[k][f] /\ call'[u].n = call[u].n
          BY <4>2
        <5>2. call[u].n \in Nat
          BY <4>2
        <5>3. count'[k][f] = count[k][f] + 1 \/ count'[k][f] = count[k][f]
          BY <2>3
        <5> HIDE DEF Numbered, TicketsDistinct, Holding
        <5> QED
          BY <4>1, <5>1, <5>2, <5>3
      <4>3. CASE u = t /\ k = K(t) /\ f = F(t)
        BY <1>5, <2>2, <2>3, <4>1, <4>3
      <4> QED
        BY <2>4, <4>2, <4>3
    <3>3. \A k \in Kind, f \in FS : \A d \in done'[k][f] : d.n < count'[k][f]
      BY <1>5, <2>3, <2>5
    <3> QED
      BY <3>1, <3>2, <3>3
  <2>7. TicketsDistinct'
    <3>1. ASSUME NEW k \in Kind, NEW f \in FS, NEW u \in Holding(k, f)',
                 NEW v \in Holding(k, f)', u # v
          PROVE  call'[u].n # call'[v].n
      BY <1>5, <2>2, <2>4, <3>1
    <3>2. ASSUME NEW k \in Kind, NEW f \in FS, NEW u \in Holding(k, f)',
                 NEW d \in done'[k][f]
          PROVE  call'[u].n # d.n
      BY <1>5, <2>2, <2>4, <2>5
    <3> QED
      BY <1>5, <3>1, <3>2
  <2> QED
    BY <2>6, <2>7
<1>6. ASSUME pc[t] \in Ticketed, pc'[t] = "idle", count' = count, NEW r,
             r.n = call[t].n,
             done' = [done EXCEPT ![K(t)][F(t)] = @ \cup {r}]
      PROVE  (Numbered /\ TicketsDistinct)'
  <2>1. \A k \in Kind, f \in FS :
           done'[k][f] = IF k = K(t) /\ f = F(t) THEN done[k][f] \cup {r}
                                                 ELSE done[k][f]
    BY <1>6
  <2>2. \A k \in Kind, f \in FS : \A u \in Holding(k, f)' :
           u # t /\ u \in Holding(k, f) /\ call'[u].n = call[u].n
    BY <1>6
  <2>3. t \in Holding(K(t), F(t))
    BY <1>6
  <2>4. Numbered'
    <3>1. \A u \in Thread : pc'[u] = "counting" => (call[u].n = count[K(u)][F(u)])'
      BY <1>6
    <3>2. \A k \in Kind, f \in FS : \A u \in Holding(k, f)' : call'[u].n < count'[k][f]
      BY <1>6, <2>2
    <3>3. \A k \in Kind, f \in FS : \A d \in done'[k][f] : d.n < count'[k][f]
      BY <1>6, <2>1, <2>3
    <3> QED
      BY <3>1, <3>2, <3>3
  <2>5. TicketsDistinct'
    <3>1. ASSUME NEW k \in Kind, NEW f \in FS, NEW u \in Holding(k, f)',
                 NEW v \in Holding(k, f)', u # v
          PROVE  call'[u].n # call'[v].n
      BY <2>2, <3>1
    <3>2. ASSUME NEW k \in Kind, NEW f \in FS, NEW u \in Holding(k, f)',
                 NEW d \in done'[k][f]
          PROVE  call'[u].n # d.n
      BY <1>6, <2>1, <2>2, <2>3
    <3>3. ASSUME NEW k \in Kind, NEW f \in FS, NEW d \in done'[k][f],
                 NEW e \in done'[k][f], d # e
          PROVE  d.n # e.n
      BY <1>6, <2>1, <2>3, <3>3
    <3> QED
      BY <3>1, <3>2, <3>3
  <2> QED
    BY <2>4, <2>5
<1> QED
  BY <1>3, <1>4, <1>5, <1>6, StepTicket

\* What else may happen touches no call number.
LEMMA NextTicketInv == ASSUME QuietStart, TicketInv, [Next]_vars PROVE TicketInv'
<1> USE DEF TicketInv
<1>0. TypeOK' /\ Exclusive'
  BY NextType, NextExclusive
<1>1. ASSUME NEW t \in Thread, Step(t) PROVE TicketInv'
  BY <1>0, <1>1, StepNumbered
<1>2. ASSUME NEW t \in Thread, NEW k \in Kind, NEW f \in FS, Begin(t, k, f)
      PROVE  TicketInv'
  <2>1. /\ pc[t] \notin Ticketed /\ pc'[t] \notin Ticketed /\ pc'[t] # "counting"
        /\ \A u \in Thread \ {t} : pc'[u] = pc[u] /\ call'[u] = call[u]
        /\ count' = count /\ done' = done
    BY <1>2 DEF Begin, Goto, Ticketed, TypeOK
  <2>2. \A l \in Kind, g \in FS :
           /\ Holding(l, g)' = Holding(l, g)
           /\ \A u \in Holding(l, g) : call'[u] = call[u]
    BY <2>1 DEF Holding, K, F
  <2>3. Numbered'
    BY <2>1, <2>2 DEF Numbered, K, F
  <2>4. TicketsDistinct'
    BY <2>1, <2>2 DEF TicketsDistinct
  <2> QED
    BY <1>0, <2>3, <2>4
<1>3. ASSUME UNCHANGED <<pc, call, count, done>> PROVE TicketInv'
  BY <1>0, <1>3 DEF Numbered, TicketsDistinct, Holding, K, F
<1>4. ASSUME NEW p \in Process, Start(p) PROVE TicketInv'
  BY <1>3, <1>4 DEF Start
<1>5. ASSUME NEW p \in Process, Exit(p) PROVE TicketInv'
  BY <1>3, <1>5 DEF Exit
<1>6. ASSUME NEW f \in FS, NEW w \in [Kind -> Window], SetIoParam(f, w)
      PROVE  TicketInv'
  BY <1>3, <1>6 DEF SetIoParam
<1>7. CASE Tick
  BY <1>3, <1>7 DEF Tick
<1>8. CASE UNCHANGED vars
  BY <1>3, <1>8 DEF vars
<1> QED
  BY <1>1, <1>2, <1>4, <1>5, <1>6, <1>7, <1>8 DEF Next

\* With quiet starts TicketInv is an invariant of the throttle.
THEOREM TicketInvariant == ASSUME QuietStart PROVE Spec => []TicketInv
<1>1. Init => TicketInv
  <2>1. Init => Exclusive
    BY DEF Init, Exclusive, Inside, InCount, InSleep
  <2>2. Init => Numbered /\ TicketsDistinct
    BY DEF Init, Numbered, TicketsDistinct, Holding, Ticketed
  <2> QED
    BY <2>1, <2>2, InitType DEF TicketInv
<1>2. TicketInv /\ [Next]_vars => TicketInv'
  BY NextTicketInv
<1> QED
  BY <1>1, <1>2, PTL DEF Spec

\* No two calls on a server ever have the same number: the read and the store
\* of the shared counter lose no update, whatever processes race for it.
THEOREM NumbersDistinct == ASSUME QuietStart PROVE Spec => []TicketsDistinct
<1>1. TicketInv => TicketsDistinct
  BY DEF TicketInv
<1> QED
  BY <1>1, TicketInvariant, PTL

-----------------------------------------------------------------------------
(* Every call is accounted for.                                            *)

Accounted == /\ CallsAccounted
             /\ \A k \in Kind, f \in FS : IsFiniteSet(done[k][f])

\* A step of a thread that stores the counter adds one to it and puts the
\* thread among those that hold a number; a step that returns takes the thread
\* out again and adds one, of a number not used before, to the calls done.
LEMMA StepAccounted ==
    ASSUME IsFiniteSet(Thread), TicketInv, Accounted, NEW t \in Thread, Step(t)
    PROVE  Accounted'
<1>1. /\ \A u \in Thread \ {t} : /\ pc'[u] = pc[u]
                                 /\ K(u)' = K(u) /\ F(u)' = F(u)
      /\ K(t)' = K(t) /\ F(t)' = F(t)
  BY StepLocal DEF K, F, TicketInv
<1>2. /\ \A u \in Thread : K(u) \in Kind /\ F(u) \in FS
      /\ count \in [Kind -> [FS -> Nat]]
      /\ done \in [Kind -> [FS -> SUBSET DoneRec]]
  BY DEF TicketInv, TypeOK, CallRec, K, F
<1>t. "counting" \notin Ticketed /\ "idle" \notin Ticketed /\ "stamp" \in Ticketed
  BY DEF Ticketed
<1>f. \A k \in Kind, f \in FS : IsFiniteSet(Holding(k, f))
  BY FS_Subset DEF Holding
<1> SUFFICES ASSUME NEW k \in Kind, NEW f \in FS
             PROVE  /\ IsFiniteSet(done'[k][f])
                    /\ count'[k][f] = Cardinality(done'[k][f])
                                      + Cardinality(Holding(k, f)')
  BY DEF Accounted, CallsAccounted
<1>a. /\ IsFiniteSet(done[k][f])
      /\ count[k][f] = Cardinality(done[k][f]) + Cardinality(Holding(k, f))
  BY DEF Accounted, CallsAccounted
<1>n. /\ Cardinality(done[k][f]) \in Nat /\ Cardinality(Holding(k, f)) \in Nat
  BY <1>a, <1>f, FS_CardinalityType
<1> HIDE DEF K, F, Ticketed
<1>s. CASE /\ count'[k][f] = count[k][f] /\ done'[k][f] = done[k][f]
           /\ Holding(k, f)' = Holding(k, f)
  BY <1>a, <1>s
<1>3. CASE /\ pc[t] \in Ticketed <=> pc'[t] \in Ticketed
           /\ count' = count /\ done' = done
  BY <1>1, <1>3, <1>s DEF Holding
<1>4. CASE /\ pc[t] \notin Ticketed /\ pc'[t] = "counting"
           /\ count' = count /\ done' = done
  BY <1>1, <1>t, <1>4, <1>s DEF Holding
<1>5. CASE /\ pc[t] = "counting" /\ pc'[t] = "stamp"
           /\ count' = [count EXCEPT ![K(t)][F(t)] = call[t].n + 1]
           /\ done' = done
  <2>1. CASE k = K(t) /\ f = F(t)
    <3>1. Holding(k, f)' = Holding(k, f) \cup {t} /\ t \notin Holding(k, f)
      BY <1>1, <1>t, <1>5, <2>1 DEF Holding
    <3>2. call[t].n = count[k][f]
      BY <1>5, <2>1 DEF TicketInv, Numbered
    <3>3. count'[k][f] = count[k][f] + 1
      BY <1>2, <1>5, <2>1, <3>2
    <3>4. Cardinality(Holding(k, f)') = Cardinality(Holding(k, f)) + 1
      BY <1>f, <3>1, FS_AddElement
    <3> QED
      BY <1>5, <1>a, <1>n, <3>3, <3>4
  <2>2. CASE ~(k = K(t) /\ f = F(t))
    <3>1. Holding(k, f)' = Holding(k, f)
      BY <1>1, <1>t, <1>5, <2>2 DEF Holding
    <3>2. count'[k][f] = count[k][f]
      BY <1>2, <1>5, <2>2
    <3> QED
      BY <1>5, <1>s, <3>1, <3>2
  <2> QED
    BY <2>1, <2>2
<1>6. ASSUME pc[t] \in Ticketed, pc'[t] = "idle", count' = count, NEW r,
             r.n = call[t].n,
             done' = [done EXCEPT ![K(t)][F(t)] = @ \cup {r}]
      PROVE  /\ IsFiniteSet(done'[k][f])
             /\ count'[k][f] = Cardinality(done'[k][f])
                               + Cardinality(Holding(k, f)')
  <2>1. CASE k = K(t) /\ f = F(t)
    <3>1. Holding(k, f)' = Holding(k, f) \ {t} /\ t \in Holding(k, f)
      BY <1>1, <1>t, <1>6, <2>1 DEF Holding
    <3>2. done'[k][f] = done[k][f] \cup {r}
      BY <1>2, <1>6, <2>1
    <3>3. r \notin done[k][f]
      BY <1>6, <3>1 DEF TicketInv, TicketsDistinct
    <3>4. Cardinality(Holding(k, f)') = Cardinality(Holding(k, f)) - 1
      BY <1>f, <3>1, FS_RemoveElement
    <3>5. /\ IsFiniteSet(done'[k][f])
          /\ Cardinality(done'[k][f]) = Cardinality(done[k][f]) + 1
      BY <1>a, <3>2, <3>3, FS_AddElement
    <3> QED
      BY <1>6, <1>a, <1>n, <3>4, <3>5
  <2>2. CASE ~(k = K(t) /\ f = F(t))
    <3>1. Holding(k, f)' = Holding(k, f)
      BY <1>1, <1>t, <1>6, <2>2 DEF Holding
    <3>2. done'[k][f] = done[k][f]
      BY <1>2, <1>6, <2>2
    <3> QED
      BY <1>6, <1>s, <3>1, <3>2
  <2> QED
    BY <2>1, <2>2
<1> QED
  BY <1>3, <1>4, <1>5, <1>6, StepTicket DEF TicketInv

\* Nothing else counts, begins to hold a number or finishes a call.
LEMMA NextAccounted ==
    ASSUME IsFiniteSet(Thread), TicketInv, Accounted, [Next]_vars
    PROVE  Accounted'
<1>1. ASSUME NEW t \in Thread, Step(t) PROVE Accounted'
  BY <1>1, StepAccounted
<1>2. ASSUME NEW t \in Thread, NEW k \in Kind, NEW f \in FS, Begin(t, k, f)
      PROVE  Accounted'
  <2>1. /\ pc[t] \notin Ticketed /\ pc'[t] \notin Ticketed
        /\ \A u \in Thread \ {t} : pc'[u] = pc[u] /\ call'[u] = call[u]
        /\ count' = count /\ done' = done
    BY <1>2 DEF Begin, Goto, Ticketed, TicketInv, TypeOK
  <2>2. \A l \in Kind, g \in FS : Holding(l, g)' = Holding(l, g)
    BY <2>1 DEF Holding, K, F
  <2> QED
    BY <2>1, <2>2 DEF Accounted, CallsAccounted
<1>3. ASSUME UNCHANGED <<pc, call, count, done>> PROVE Accounted'
  <2>1. \A l \in Kind, g \in FS : Holding(l, g)' = Holding(l, g)
    BY <1>3 DEF Holding, K, F
  <2> QED
    BY <1>3, <2>1 DEF Accounted, CallsAccounted
<1>4. ASSUME NEW p \in Process, Start(p) PROVE Accounted'
  BY <1>3, <1>4 DEF Start
<1>5. ASSUME NEW p \in Process, Exit(p) PROVE Accounted'
  BY <1>3, <1>5 DEF Exit
<1>6. ASSUME NEW f \in FS, NEW w \in [Kind -> Window], SetIoParam(f, w)
      PROVE  Accounted'
  BY <1>3, <1>6 DEF SetIoParam
<1>7. CASE Tick
  BY <1>3, <1>7 DEF Tick
<1>8. CASE UNCHANGED vars
  BY <1>3, <1>8 DEF vars
<1> QED
  BY <1>1, <1>2, <1>4, <1>5, <1>6, <1>7, <1>8 DEF Next

\* Nothing is counted at first.
LEMMA InitAccounted == Init => Accounted
<1> SUFFICES ASSUME Init, NEW k \in Kind, NEW f \in FS
             PROVE  /\ IsFiniteSet(done[k][f])
                    /\ count[k][f] = Cardinality(done[k][f])
                                     + Cardinality(Holding(k, f))
  BY DEF Accounted, CallsAccounted
<1>1. Holding(k, f) = {} /\ done[k][f] = {} /\ count[k][f] = 0
  BY DEF Init, Holding, Ticketed
<1> QED
  BY <1>1, FS_EmptySet

\* The shared counter is the number of calls counted, those that returned and
\* those under way: no update of it is lost and none is made twice.
THEOREM CallsCounted ==
    ASSUME QuietStart, IsFiniteSet(Thread) PROVE Spec => []CallsAccounted
<1>1. TicketInv /\ Accounted /\ [Next]_vars => Accounted'
  BY NextAccounted
<1>2. Accounted => CallsAccounted
  BY DEF Accounted
<1> QED
  BY <1>1, <1>2, InitAccounted, TicketInvariant, PTL DEF Spec

-----------------------------------------------------------------------------
(* Every delay is accounted for.                                           *)

\* A call has a time to sleep to once it is delayed and none before; the
\* counter of delayed calls that a thread has read is still the shared one when
\* it stores it.
Waiting(t) ==
    /\ pc[t] \in {"idle", "called", "lock", "counting", "stamp", "decide"}
          => call[t].due = 0
    /\ pc[t] \in {"sleeplock", "asleep", "unsleep", "restamp"}
          => call[t].due > 0
    /\ pc[t] = "unsleep" => call[t].reg = delayed[K(t)][F(t)]

Restamping(k, f) == {t \in Holding(k, f) : pc[t] = "restamp"}
Late(k, f) == {d \in done[k][f] : d.due > 0}

DelayedInv == /\ \A t \in Thread : Waiting(t)
              /\ DelaysAccounted

\* A thread's step keeps its own part: the time to sleep to is a window, which
\* is not zero, after an earlier stamp.
LEMMA StepWaiting ==
    ASSUME TypeOK, NEW t \in Thread, Waiting(t), Step(t)
    PROVE  Waiting(t)'
<1> USE DEF Goto, K, F, Waiting
<1>0. /\ call[t] \in CallRec /\ pc \in [Thread -> PCs]
      /\ call \in [Thread -> CallRec]
      /\ Proc(t) \in Process
  BY ThrottleAssumption DEF TypeOK, Proc
<1>1. CASE Post(t)
  BY <1>0, <1>1 DEF Post, CallRec
<1>2. CASE Count(t)
  BY <1>0, <1>2 DEF Count, CallRec
<1>3. CASE Counted(t)
  BY <1>0, <1>3 DEF Counted
<1>4. CASE Stamp(t)
  BY <1>0, <1>4 DEF Stamp, CallRec
<1>5. CASE Pass(t)
  BY <1>0, <1>5 DEF Pass, Return, NoCall
<1>6. CASE Delay(t)
  <2> DEFINE ring == tlist[K(t)][F(t)]
             w == param[Proc(t)].window[K(t)][F(t)]
             at == ring[Slot(call[t].n)]
             before == ring[Slot(call[t].n - N_SAMPLE_FOR_AVG)]
             dT == TimeToSleep(w, ring, call[t].n)
  <2>1. K(t) \in Kind /\ F(t) \in FS /\ call[t].n \in Nat
    BY <1>0 DEF CallRec
  <2>2. ring \in [0 .. MAX_REC - 1 -> Nat]
    BY <2>1 DEF TypeOK
  <2>3. at \in Nat /\ before \in Nat
    <3>1. call[t].n \in Int /\ call[t].n - N_SAMPLE_FOR_AVG \in Int
      BY <2>1, ThrottleAssumption
    <3>2. /\ Slot(call[t].n) \in 0 .. MAX_REC - 1
          /\ Slot(call[t].n - N_SAMPLE_FOR_AVG) \in 0 .. MAX_REC - 1
      BY <3>1, SlotInRange
    <3> QED
      BY <2>2, <3>2
  <2>4. w \in Nat /\ w > 0
    <3>1. w \in Window
      BY <1>0, <2>1 DEF TypeOK, Limits
    <3> HIDE DEF w
    <3>2. w \in Nat \ {0}
      BY <3>1, ThrottleAssumption
    <3> QED
      BY <3>2
  <2>5. dT = w - (at - before)
    BY DEF TimeToSleep
  <2>6. pc'[t] = "sleeplock" /\ call'[t].due = at + dT
    BY <1>0, <1>6 DEF Delay, CallRec
  <2> HIDE DEF dT, at, before, w
  <2>7. at + dT > 0
    BY <2>3, <2>4, <2>5
  <2> QED
    BY <2>6, <2>7
<1>7. CASE Sleep(t)
  BY <1>0, <1>7 DEF Sleep, CallRec
<1>8. CASE Wake(t)
  BY <1>0, <1>8 DEF Wake, CallRec
<1>9. CASE Unsleep(t)
  BY <1>0, <1>9 DEF Unsleep, CallRec
<1>10. CASE Restamp(t)
  BY <1>0, <1>10 DEF Restamp, Return, NoCall
<1> QED
  BY <1>1, <1>2, <1>3, <1>4, <1>5, <1>6, <1>7, <1>8, <1>9, <1>10 DEF Step

\* What a step of a thread does to the counters of delayed calls and to the
\* calls done.
LEMMA StepDelayed ==
    ASSUME TypeOK, NEW t \in Thread, Step(t)
    PROVE  \/ /\ pc[t] # "restamp" /\ pc'[t] # "restamp"
              /\ delayed' = delayed /\ done' = done
           \/ /\ pc[t] = "unsleep" /\ pc'[t] = "restamp"
              /\ delayed' = [delayed EXCEPT ![K(t)][F(t)] = call[t].reg + 1]
              /\ done' = done
           \/ /\ pc[t] \in {"decide", "restamp"} /\ pc'[t] = "idle"
              /\ delayed' = delayed
              /\ \E r : /\ r.n = call[t].n /\ r.due = call[t].due
                        /\ done' = [done EXCEPT ![K(t)][F(t)] = @ \cup {r}]
<1> USE DEF Goto
<1>0. pc \in [Thread -> PCs]
  BY DEF TypeOK
<1>1. CASE Post(t)
  BY <1>0, <1>1 DEF Post
<1>2. CASE Count(t)
  BY <1>0, <1>2 DEF Count
<1>3. CASE Counted(t)
  BY <1>0, <1>3 DEF Counted
<1>4. CASE Stamp(t)
  BY <1>0, <1>4 DEF Stamp
<1>5. CASE Pass(t)
  BY <1>0, <1>5 DEF Pass, Return
<1>6. CASE Delay(t)
  BY <1>0, <1>6 DEF Delay
<1>7. CASE Sleep(t)
  BY <1>0, <1>7 DEF Sleep
<1>8. CASE Wake(t)
  BY <1>0, <1>8 DEF Wake
<1>9. CASE Unsleep(t)
  BY <1>0, <1>9 DEF Unsleep
<1>10. CASE Restamp(t)
  BY <1>0, <1>10 DEF Restamp, Return
<1> QED
  BY <1>1, <1>2, <1>3, <1>4, <1>5, <1>6, <1>7, <1>8, <1>9, <1>10 DEF Step

\* A step of a thread disturbs no other's part: who else has read a counter of
\* delayed calls is of another kind, for it holds the mutex.
LEMMA StepAllWaiting ==
    ASSUME TicketInv, DelayedInv, NEW t \in Thread, Step(t)
    PROVE  \A u \in Thread : Waiting(u)'
<1>0. TypeOK
  BY DEF TicketInv
<1>1. /\ \A u \in Thread \ {t} : /\ pc'[u] = pc[u] /\ call'[u] = call[u]
                                 /\ K(u)' = K(u) /\ F(u)' = F(u)
      /\ \A u \in Thread : K(u) \in Kind /\ F(u) \in FS
      /\ delayed \in [Kind -> [FS -> Nat]]
  BY <1>0, StepLocal DEF K, F, TypeOK, CallRec
<1>2. Waiting(t)'
  BY <1>0, StepWaiting DEF DelayedInv
<1>3. ASSUME NEW u \in Thread \ {t} PROVE Waiting(u)'
  <2>1. Waiting(u)
    BY DEF DelayedInv
  <2>2. pc[u] = "unsleep" => delayed'[K(u)][F(u)] = delayed[K(u)][F(u)]
    <3>1. CASE delayed' = delayed
      BY <3>1
    <3>2. CASE /\ pc[t] = "unsleep"
               /\ delayed' = [delayed EXCEPT ![K(t)][F(t)] = call[t].reg + 1]
      <4>1. pc[u] = "unsleep" => K(u) # K(t)
        BY <3>2 DEF TicketInv, Exclusive, Inside, InSleep
      <4> HIDE DEF K, F
      <4> QED
        BY <1>1, <3>2, <4>1
    <3> QED
      BY <1>0, <3>1, <3>2, StepDelayed
  <2> QED
    BY <1>1, <2>1, <2>2 DEF Waiting
<1> QED
  BY <1>2, <1>3

\* Storing the counter of delayed calls puts the thread among those that will
\* stamp again; stamping again takes it out and adds a late call to those done.
LEMMA StepDelaysAccounted ==
    ASSUME IsFiniteSet(Thread), TicketInv, Accounted, DelayedInv,
           NEW t \in Thread, Step(t)
    PROVE  DelaysAccounted'
<1>1. /\ \A u \in Thread \ {t} : /\ pc'[u] = pc[u]
                                 /\ K(u)' = K(u) /\ F(u)' = F(u)
      /\ K(t)' = K(t) /\ F(t)' = F(t)
  BY StepLocal DEF K, F, TicketInv
<1>2. /\ \A u \in Thread : K(u) \in Kind /\ F(u) \in FS
      /\ delayed \in [Kind -> [FS -> Nat]]
      /\ done \in [Kind -> [FS -> SUBSET DoneRec]]
  BY DEF TicketInv, TypeOK, CallRec, K, F
<1>w. Waiting(t)
  BY DEF DelayedInv
<1> SUFFICES ASSUME NEW k \in Kind, NEW f \in FS
             PROVE  delayed'[k][f] = Cardinality(Late(k, f)')
                                     + Cardinality(Restamping(k, f)')
  BY DEF DelaysAccounted, Late, Restamping
<1>a. delayed[k][f] = Cardinality(Late(k, f)) + Cardinality(Restamping(k, f))
  BY DEF DelayedInv, DelaysAccounted, Late, Restamping
<1>f. IsFiniteSet(Late(k, f)) /\ IsFiniteSet(Restamping(k, f))
  <2>1. IsFiniteSet(done[k][f])
    BY DEF Accounted
  <2> QED
    BY <2>1, FS_Subset DEF Late, Restamping, Holding
<1>n. Cardinality(Late(k, f)) \in Nat /\ Cardinality(Restamping(k, f)) \in Nat
  BY <1>f, FS_CardinalityType
<1>r. \A u \in Thread : u \in Restamping(k, f)
                           <=> pc[u] = "restamp" /\ K(u) = k /\ F(u) = f
  BY DEF Restamping, Holding, Ticketed
<1>q. \A u : u \in Restamping(k, f)'
               <=> u \in Thread /\ pc'[u] = "restamp" /\ K(u)' = k /\ F(u)' = f
  BY DEF Restamping, Holding, Ticketed
<1>p. Restamping(k, f) \subseteq Thread
  BY DEF Restamping, Holding
<1> HIDE DEF K, F, Restamping
<1>s. CASE /\ delayed'[k][f] = delayed[k][f] /\ Late(k, f)' = Late(k, f)
           /\ Restamping(k, f)' = Restamping(k, f)
  BY <1>a, <1>s
<1>3. CASE /\ pc[t] # "restamp" /\ pc'[t] # "restamp"
           /\ delayed' = delayed /\ done' = done
  BY <1>1, <1>3, <1>s, <1>r, <1>q, <1>p DEF Late
<1>4. CASE /\ pc[t] = "unsleep" /\ pc'[t] = "restamp"
           /\ delayed' = [delayed EXCEPT ![K(t)][F(t)] = call[t].reg + 1]
           /\ done' = done
  <2>0. Late(k, f)' = Late(k, f)
    BY <1>4 DEF Late
  <2>1. CASE k = K(t) /\ f = F(t)
    <3>1. /\ Restamping(k, f)' = Restamping(k, f) \cup {t}
          /\ t \notin Restamping(k, f)
      BY <1>1, <1>4, <2>1, <1>r, <1>q, <1>p
    <3>2. delayed'[k][f] = delayed[k][f] + 1
      BY <1>2, <1>4, <2>1, <1>w DEF Waiting
    <3>3. Cardinality(Restamping(k, f)') = Cardinality(Restamping(k, f)) + 1
      BY <1>f, <3>1, FS_AddElement
    <3> QED
      BY <1>a, <1>n, <2>0, <3>2, <3>3
  <2>2. CASE ~(k = K(t) /\ f = F(t))
    <3>1. Restamping(k, f)' = Restamping(k, f)
      BY <1>1, <1>4, <2>2, <1>r, <1>q, <1>p
    <3>2. delayed'[k][f] = delayed[k][f]
      BY <1>2, <1>4, <2>2
    <3> QED
      BY <1>s, <2>0, <3>1, <3>2
  <2> QED
    BY <2>1, <2>2
<1>5. ASSUME pc[t] \in {"decide", "restamp"}, pc'[t] = "idle",
             delayed' = delayed, NEW r,
             r.n = call[t].n, r.due = call[t].due,
             done' = [done EXCEPT ![K(t)][F(t)] = @ \cup {r}]
      PROVE  delayed'[k][f] = Cardinality(Late(k, f)')
                              + Cardinality(Restamping(k, f)')
  <2>1. CASE ~(k = K(t) /\ f = F(t))
    <3>1. Restamping(k, f)' = Restamping(k, f)
      BY <1>1, <1>5, <2>1, <1>r, <1>q, <1>p
    <3>2. done'[k][f] = done[k][f]
      BY <1>2, <1>5, <2>1
    <3>3. Late(k, f)' = Late(k, f)
      BY <3>2 DEF Late
    <3> QED
      BY <1>5, <1>s, <3>1, <3>3
  <2>2. CASE k = K(t) /\ f = F(t) /\ pc[t] = "decide"
    <3>1. Restamping(k, f)' = Restamping(k, f)
      BY <1>1, <1>5, <2>2, <1>r, <1>q, <1>p
    <3>2. done'[k][f] = done[k][f] \cup {r}
      BY <1>2, <1>5, <2>2
    <3>3. ~(r.due > 0)
      BY <1>5, <2>2, <1>w DEF Waiting
    <3>4. Late(k, f)' = Late(k, f)
      BY <3>2, <3>3 DEF Late
    <3> QED
      BY <1>5, <1>s, <3>1, <3>4
  <2>3. CASE k = K(t) /\ f = F(t) /\ pc[t] = "restamp"
    <3>1. /\ Restamping(k, f)' = Restamping(k, f) \ {t}
          /\ t \in Restamping(k, f)
      BY <1>1, <1>5, <2>3, <1>r, <1>q, <1>p
    <3>2. done'[k][f] = done[k][f] \cup {r}
      BY <1>2, <1>5, <2>3
    <3>3. r.due > 0
      BY <1>5, <2>3, <1>w DEF Waiting
    <3>4. r \notin done[k][f]
      <4>1. t \in Holding(k, f)
        BY <2>3 DEF Holding, Ticketed
      <4> QED
        BY <1>5, <4>1 DEF TicketInv, TicketsDistinct
    <3>5. Late(k, f)' = Late(k, f) \cup {r} /\ r \notin Late(k, f)
      BY <3>2, <3>3, <3>4 DEF Late
    <3>6. Cardinality(Restamping(k, f)') = Cardinality(Restamping(k, f)) - 1
      BY <1>f, <3>1, FS_RemoveElement
    <3>7. Cardinality(Late(k, f)') = Cardinality(Late(k, f)) + 1
      BY <1>f, <3>5, FS_AddElement
    <3> QED
      BY <1>5, <1>a, <1>n, <3>6, <3>7
  <2> QED
    BY <1>5, <2>1, <2>2, <2>3
<1> QED
  BY <1>3, <1>4, <1>5, StepDelayed DEF TicketInv

\* Nothing else delays a call.
LEMMA NextDelayed ==
    ASSUME IsFiniteSet(Thread), TicketInv, Accounted, DelayedInv, [Next]_vars
    PROVE  DelayedInv'
<1>1. ASSUME NEW t \in Thread, Step(t) PROVE DelayedInv'
  BY <1>1, StepAllWaiting, StepDelaysAccounted DEF DelayedInv
<1>2. ASSUME NEW t \in Thread, NEW k \in Kind, NEW f \in FS, Begin(t, k, f)
      PROVE  DelayedInv'
  <2>1. /\ pc[t] = "idle" /\ pc'[t] = "called" /\ call'[t].due = 0
        /\ \A u \in Thread \ {t} : pc'[u] = pc[u] /\ call'[u] = call[u]
        /\ delayed' = delayed /\ done' = done
    BY <1>2 DEF Begin, Goto, NoCall, TicketInv, TypeOK
  <2>2. \A l \in Kind, g \in FS : Restamping(l, g)' = Restamping(l, g)
    BY <2>1 DEF Restamping, Holding, Ticketed, K, F
  <2>3. DelaysAccounted'
    BY <2>1, <2>2 DEF DelayedInv, DelaysAccounted, Restamping
  <2>4. \A u \in Thread : Waiting(u)'
    BY <2>1 DEF DelayedInv, Waiting, K, F
  <2> QED
    BY <2>3, <2>4 DEF DelayedInv
<1>3. ASSUME UNCHANGED <<pc, call, delayed, done>> PROVE DelayedInv'
  <2>1. \A l \in Kind, g \in FS : Restamping(l, g)' = Restamping(l, g)
    BY <1>3 DEF Restamping, Holding, K, F
  <2>2. DelaysAccounted'
    BY <1>3, <2>1 DEF DelayedInv, DelaysAccounted, Restamping
  <2>3. \A u \in Thread : Waiting(u)'
    BY <1>3 DEF DelayedInv, Waiting, K, F
  <2> QED
    BY <2>2, <2>3 DEF DelayedInv
<1>4. ASSUME NEW p \in Process, Start(p) PROVE DelayedInv'
  BY <1>3, <1>4 DEF Start
<1>5. ASSUME NEW p \in Process, Exit(p) PROVE DelayedInv'
  BY <1>3, <1>5 DEF Exit
<1>6. ASSUME NEW f \in FS, NEW w \in [Kind -> Window], SetIoParam(f, w)
      PROVE  DelayedInv'
  BY <1>3, <1>6 DEF SetIoParam
<1>7. CASE Tick
  BY <1>3, <1>7 DEF Tick
<1>8. CASE UNCHANGED vars
  BY <1>3, <1>8 DEF vars
<1> QED
  BY <1>1, <1>2, <1>4, <1>5, <1>6, <1>7, <1>8 DEF Next

\* The counters of delayed calls match what the threads hold, throughout.
LEMMA DelayedInvariant ==
    ASSUME QuietStart, IsFiniteSet(Thread) PROVE Spec => []DelayedInv
<1>1. Init => Accounted /\ DelayedInv
  <2> SUFFICES ASSUME Init PROVE DelayedInv
    BY InitAccounted
  <2>1. \A t \in Thread : Waiting(t)
    BY DEF Init, Waiting, NoCall
  <2>2. ASSUME NEW k \in Kind, NEW f \in FS
        PROVE  delayed[k][f] = Cardinality(Late(k, f))
                               + Cardinality(Restamping(k, f))
    <3>1. Restamping(k, f) = {} /\ Late(k, f) = {} /\ delayed[k][f] = 0
      BY DEF Init, Restamping, Holding, Ticketed, Late
    <3> QED
      BY <3>1, FS_EmptySet
  <2> QED
    BY <2>1, <2>2 DEF DelayedInv, DelaysAccounted, Late, Restamping
<1>2. /\ TicketInv /\ Accounted /\ DelayedInv /\ [Next]_vars
      => (Accounted /\ DelayedInv)'
  BY NextAccounted, NextDelayed
<1> QED
  BY <1>1, <1>2, TicketInvariant, PTL DEF Spec

\* Every delayed call is counted as delayed once, and no other call is.
THEOREM DelaysCounted ==
    ASSUME QuietStart, IsFiniteSet(Thread) PROVE Spec => []DelaysAccounted
<1>1. DelayedInv => DelaysAccounted
  BY DEF DelayedInv
<1> QED
  BY <1>1, DelayedInvariant, PTL

-----------------------------------------------------------------------------
(* Every delay lasts as long as was decided.                               *)

OneThreadEach == \A t, u \in Thread : ProcessOf[t] = ProcessOf[u] => t = u

\* The part of DelayInv about one thread.
Due(t) ==
    /\ pc[t] \in {"idle", "called", "lock", "counting", "stamp", "decide"}
          => call[t].due = 0
    /\ pc[t] = "sleeplock" => /\ tim1[Proc(t)] = call[t].dT
                              /\ call[t].due <= now + call[t].dT
    /\ pc[t] = "asleep" => call[t].due <= call[t].wake
    /\ pc[t] \in {"unsleep", "restamp"} => call[t].due <= now

\* A thread's step keeps its own part: it computes the time to sleep from a
\* stamp that is not in the future, and reads back what it put in tim1.
LEMMA StepDue ==
    ASSUME TypeOK, DelayInv, NEW t \in Thread, Step(t)
    PROVE  Due(t)'
<1> USE DEF Goto, K, F, Due
<1>0. /\ call[t] \in CallRec /\ pc \in [Thread -> PCs] /\ now \in Nat
      /\ call \in [Thread -> CallRec]
      /\ Proc(t) \in Process /\ tim1 \in [Process -> Int]
  BY ThrottleAssumption DEF TypeOK, Proc
<1>1. CASE Post(t)
  BY <1>0, <1>1 DEF Post, DelayInv, CallRec
<1>2. CASE Count(t)
  BY <1>0, <1>2 DEF Count, DelayInv, CallRec
<1>3. CASE Counted(t)
  BY <1>0, <1>3 DEF Counted, DelayInv
<1>4. CASE Stamp(t)
  BY <1>0, <1>4 DEF Stamp, DelayInv, CallRec
<1>5. CASE Pass(t)
  BY <1>0, <1>5 DEF Pass, Return, NoCall
<1>6. CASE Delay(t)
  <2> DEFINE ring == tlist[K(t)][F(t)]
             at == ring[Slot(call[t].n)]
             dT == TimeToSleep(param[Proc(t)].window[K(t)][F(t)], ring,
                               call[t].n)
  <2>1. K(t) \in Kind /\ F(t) \in FS /\ call[t].n \in Nat
    BY <1>0 DEF CallRec
  <2>2. Slot(call[t].n) \in 0 .. MAX_REC - 1
    BY <2>1, SlotInRange
  <2>3. at <= now
    BY <2>1, <2>2 DEF DelayInv
  <2>4. dT \in Int /\ at \in Nat
    <3>1. ring \in [0 .. MAX_REC - 1 -> Nat]
      BY <2>1 DEF TypeOK
    <3>2. param[Proc(t)].window[K(t)][F(t)] \in Window
      BY <1>0, <2>1 DEF TypeOK, Limits
    <3> QED
      BY <2>1, <3>1, <3>2, TimeToSleepType
  <2>5. /\ pc'[t] = "sleeplock" /\ call'[t].dT = dT /\ call'[t].due = at + dT
        /\ tim1'[Proc(t)] = dT /\ now' = now
    BY <1>0, <1>6 DEF Delay, CallRec
  <2>6. Proc(t)' = Proc(t)
    BY DEF Proc
  <2> HIDE DEF dT, at
  <2>7. at + dT <= now + dT
    BY <1>0, <2>3, <2>4
  <2> QED
    BY <2>5, <2>6, <2>7
<1>7. CASE Sleep(t)
  <2>1. /\ tim1[Proc(t)] = call[t].dT /\ call[t].due <= now + call[t].dT
        /\ call[t].dT \in Int /\ call[t].due \in Nat
    BY <1>0, <1>7 DEF Sleep, DelayInv, CallRec
  <2>2. /\ pc'[t] = "asleep" /\ call'[t].due = call[t].due
        /\ call'[t].wake = IF tim1[Proc(t)] > 0 THEN now + tim1[Proc(t)] ELSE now
    BY <1>0, <1>7 DEF Sleep, CallRec
  <2> QED
    BY <1>0, <2>1, <2>2
<1>8. CASE Wake(t)
  <2>1. /\ call[t].due <= call[t].wake /\ call[t].wake <= now
        /\ call[t].due \in Nat /\ call[t].wake \in Nat
    BY <1>0, <1>8 DEF Wake, DelayInv, CallRec
  <2>2. pc'[t] = "unsleep" /\ call'[t].due = call[t].due /\ now' = now
    BY <1>0, <1>8 DEF Wake, CallRec
  <2> QED
    BY <1>0, <2>1, <2>2
<1>9. CASE Unsleep(t)
  BY <1>0, <1>9 DEF Unsleep, DelayInv
<1>10. CASE Restamp(t)
  BY <1>0, <1>10 DEF Restamp, Return, NoCall
<1> QED
  BY <1>1, <1>2, <1>3, <1>4, <1>5, <1>6, <1>7, <1>8, <1>9, <1>10 DEF Step

\* A thread's step does not touch the static variable of another process, nor
\* the clock; it returns only when its time to sleep has gone by.
LEMMA StepDelay ==
    ASSUME TypeOK, DelayInv, NEW t \in Thread, Step(t)
    PROVE  /\ now' = now
           /\ \A p \in Process \ {Proc(t)} : tim1'[p] = tim1[p]
           /\ \/ tlist' = tlist
              \/ \E s : tlist' = [tlist EXCEPT ![K(t)][F(t)][s] = now]
           /\ \/ done' = done
              \/ \E r : /\ r.at >= r.due
                        /\ done' = [done EXCEPT ![K(t)][F(t)] = @ \cup {r}]
<1> USE DEF Goto
<1>0. tim1 \in [Process -> Int] /\ call[t] \in CallRec /\ now \in Nat
  BY DEF TypeOK
<1>r. /\ K(t) \in Kind /\ F(t) \in FS
      /\ tlist[K(t)][F(t)][Slot(call[t].n)] \in Nat
  <2>1. K(t) \in Kind /\ F(t) \in FS /\ call[t].n \in Nat
    BY <1>0 DEF CallRec, K, F
  <2>2. Slot(call[t].n) \in 0 .. MAX_REC - 1
    BY <2>1, SlotInRange
  <2>3. tlist[K(t)][F(t)] \in [0 .. MAX_REC - 1 -> Nat]
    BY <2>1 DEF TypeOK
  <2> QED
    BY <2>1, <2>2, <2>3
<1>1. CASE Post(t)
  BY <1>1 DEF Post
<1>2. CASE Count(t)
  BY <1>2 DEF Count
<1>3. CASE Counted(t)
  BY <1>3 DEF Counted
<1>4. CASE Stamp(t)
  BY <1>4 DEF Stamp
<1>5. CASE Pass(t)
  <2> DEFINE r == [n |-> call[t].n, at |-> tlist[K(t)][F(t)][Slot(call[t].n)],
                   limit |-> call[t].limit, due |-> call[t].due]
  <2>1. call[t].due = 0
    BY <1>5 DEF Pass, DelayInv
  <2>2. r.at >= r.due
    BY <1>r, <2>1
  <2>3. done' = [done EXCEPT ![K(t)][F(t)] = @ \cup {r}]
    BY <1>5 DEF Pass, Return
  <2>4. now' = now /\ tlist' = tlist /\ tim1' = tim1
    BY <1>5 DEF Pass
  <2> HIDE DEF r
  <2> QED
    BY <2>2, <2>3, <2>4
<1>6. CASE Delay(t)
  BY <1>0, <1>6 DEF Delay
<1>7. CASE Sleep(t)
  BY <1>7 DEF Sleep
<1>8. CASE Wake(t)
  BY <1>8 DEF Wake
<1>9. CASE Unsleep(t)
  BY <1>9 DEF Unsleep
<1>10. CASE Restamp(t)
  <2> DEFINE r == [n |-> call[t].n, at |-> now, limit |-> call[t].limit,
                   due |-> call[t].due]
  <2>1. call[t].due <= now
    BY <1>10 DEF Restamp, DelayInv
  <2>2. r.at >= r.due
    BY <1>0, <2>1 DEF CallRec
  <2>3. done' = [done EXCEPT ![K(t)][F(t)] = @ \cup {r}]
    BY <1>10 DEF Restamp, Return
  <2>4. /\ now' = now /\ tim1' = tim1
        /\ tlist' = [tlist EXCEPT ![K(t)][F(t)][Slot(call[t].n)] = now]
    BY <1>10 DEF Restamp
  <2> HIDE DEF r
  <2> QED
    BY <2>2, <2>3, <2>4
<1> QED
  BY <1>1, <1>2, <1>3, <1>4, <1>5, <1>6, <1>7, <1>8, <1>9, <1>10 DEF Step

\* When each process has one thread, nothing breaks DelayInv.
LEMMA NextDelayInv ==
    ASSUME OneThreadEach, TypeOK, DelayInv, [Next]_vars
    PROVE  DelayInv'
<1>0. /\ now \in Nat /\ tlist \in [Kind -> [FS -> [0 .. MAX_REC - 1 -> Nat]]]
      /\ done \in [Kind -> [FS -> SUBSET DoneRec]]
      /\ call \in [Thread -> CallRec]
  BY DEF TypeOK
<1>d. DelayInv <=> /\ \A k \in Kind, f \in FS, s \in 0 .. MAX_REC - 1 :
                           tlist[k][f][s] <= now
                   /\ \A t \in Thread : Due(t)
                   /\ DelayHonoured
  BY DEF DelayInv, Due
<1>e. DelayInv' <=> /\ (\A k \in Kind, f \in FS, s \in 0 .. MAX_REC - 1 :
                           tlist[k][f][s] <= now)'
                    /\ \A t \in Thread : Due(t)'
                    /\ DelayHonoured'
  BY DEF DelayInv, Due
<1>1. ASSUME NEW t \in Thread, Step(t) PROVE DelayInv'
  <2>0. K(t) \in Kind /\ F(t) \in FS
    BY <1>0 DEF CallRec, K, F
  <2>1. ASSUME NEW u \in Thread \ {t} PROVE Due(u)'
    <3>1. pc'[u] = pc[u] /\ call'[u] = call[u]
      BY <1>1, <2>1, StepLocal
    <3>2. Proc(u) \in Process \ {Proc(t)}
      BY <2>1, ThrottleAssumption DEF OneThreadEach, Proc
    <3>3. tim1'[Proc(u)] = tim1[Proc(u)] /\ now' = now
      BY <1>1, <3>2, StepDelay
    <3>4. Proc(u)' = Proc(u)
      BY DEF Proc
    <3>5. Due(u)
      BY <1>d, <2>1
    <3> QED
      BY <3>1, <3>3, <3>4, <3>5 DEF Due
  <2>2. Due(t)'
    BY <1>1, StepDue
  <2>3. ASSUME NEW k \in Kind, NEW f \in FS, NEW s \in 0 .. MAX_REC - 1
        PROVE  tlist'[k][f][s] <= now'
    <3>1. now' = now /\ tlist[k][f][s] <= now
      BY <1>1, <1>d, StepDelay
    <3>2. CASE tlist' = tlist
      BY <3>1, <3>2
    <3>3. ASSUME NEW r, tlist' = [tlist EXCEPT ![K(t)][F(t)][r] = now]
          PROVE  tlist'[k][f][s] <= now'
      <4>1. tlist'[k][f][s] = tlist[k][f][s] \/ tlist'[k][f][s] = now
        BY <1>0, <2>0, <3>3
      <4> QED
        BY <1>0, <3>1, <4>1
    <3> QED
      BY <1>1, <3>2, <3>3, StepDelay
  <2>4. DelayHonoured'
    <3>1. CASE done' = done
      BY <1>d, <3>1 DEF DelayHonoured
    <3>2. ASSUME NEW r, r.at >= r.due,
                 done' = [done EXCEPT ![K(t)][F(t)] = @ \cup {r}]
          PROVE  DelayHonoured'
      <4>1. ASSUME NEW k \in Kind, NEW f \in FS, NEW d \in done'[k][f]
            PROVE  d \in done[k][f] \/ d = r
        BY <1>0, <2>0, <3>2
      <4> QED
        BY <1>d, <3>2, <4>1 DEF DelayHonoured
    <3> QED
      BY <1>1, <3>1, <3>2, StepDelay
  <2> QED
    BY <1>e, <2>1, <2>2, <2>3, <2>4
<1>2. ASSUME NEW t \in Thread, NEW k \in Kind, NEW f \in FS, Begin(t, k, f)
      PROVE  DelayInv'
  <2>1. /\ pc'[t] = "called" /\ call'[t].due = 0
        /\ \A u \in Thread \ {t} : pc'[u] = pc[u] /\ call'[u] = call[u]
        /\ now' = now /\ tim1' = tim1 /\ tlist' = tlist /\ done' = done
    BY <1>2 DEF Begin, Goto, TypeOK, NoCall
  <2>2. \A u \in Thread : Due(u)'
    BY <1>d, <2>1 DEF Due, Proc
  <2> QED
    BY <1>d, <1>e, <2>1, <2>2 DEF DelayHonoured
<1>3. ASSUME UNCHANGED <<pc, call, tim1, tlist, done>>, now' \in Nat, now' >= now
      PROVE  DelayInv'
  <2>1. ASSUME NEW u \in Thread PROVE Due(u)'
    <3>1. Due(u) /\ call[u].due \in Nat /\ call[u].dT \in Int
      BY <1>0, <1>d DEF CallRec
    <3>2. /\ call[u].due <= now => call[u].due <= now'
          /\ call[u].due <= now + call[u].dT => call[u].due <= now' + call[u].dT
      BY <1>0, <1>3, <3>1
    <3>3. pc'[u] = pc[u] /\ call'[u] = call[u] /\ tim1'[Proc(u)'] = tim1[Proc(u)]
      BY <1>3 DEF Proc
    <3>4. CASE pc[u] = "sleeplock"
      BY <3>1, <3>2, <3>3, <3>4 DEF Due
    <3>5. CASE pc[u] \in {"unsleep", "restamp"}
      BY <3>1, <3>2, <3>3, <3>5 DEF Due
    <3>6. CASE pc[u] \notin {"sleeplock", "unsleep", "restamp"}
      BY <3>1, <3>3, <3>6 DEF Due
    <3> QED
      BY <3>4, <3>5, <3>6
  <2>2. ASSUME NEW k \in Kind, NEW f \in FS, NEW s \in 0 .. MAX_REC - 1
        PROVE  tlist'[k][f][s] <= now'
    <3>1. tlist[k][f][s] <= now
      BY <1>d
    <3>2. tlist[k][f] \in [0 .. MAX_REC - 1 -> Nat]
      BY <1>0
    <3>3. tlist[k][f][s] \in Nat
      BY <3>2
    <3>4. tlist'[k][f][s] = tlist[k][f][s]
      BY <1>3
    <3> QED
      BY <1>0, <1>3, <3>1, <3>3, <3>4
  <2> QED
    BY <1>3, <1>d, <1>e, <2>1, <2>2 DEF DelayHonoured
<1>4. ASSUME UNCHANGED <<pc, call, tim1, tlist, done, now>> PROVE DelayInv'
  BY <1>0, <1>3, <1>4
<1>5. ASSUME NEW p \in Process, Start(p) PROVE DelayInv'
  BY <1>4, <1>5 DEF Start
<1>6. ASSUME NEW p \in Process, Exit(p) PROVE DelayInv'
  BY <1>4, <1>6 DEF Exit
<1>7. ASSUME NEW f \in FS, NEW w \in [Kind -> Window], SetIoParam(f, w)
      PROVE  DelayInv'
  BY <1>4, <1>7 DEF SetIoParam
<1>8. CASE Tick
  BY <1>0, <1>3, <1>8 DEF Tick
<1>9. CASE UNCHANGED vars
  BY <1>4, <1>9 DEF vars
<1> QED
  BY <1>1, <1>2, <1>5, <1>6, <1>7, <1>8, <1>9 DEF Next

\* The reason for DelaysHonoured holds throughout: stamps are never in the
\* future, tim1 holds the time of the thread that is about to sleep, and nobody
\* wakes before it is due.
THEOREM DelayInvariant == ASSUME OneThreadEach PROVE Spec => []DelayInv
<1>1. Init => TypeOK /\ DelayInv
  <2>1. Init => DelayInv
    BY ThrottleAssumption DEF Init, DelayInv, DelayHonoured, NoCall
  <2> QED
    BY <2>1, InitType
<1>2. TypeOK /\ DelayInv /\ [Next]_vars => (TypeOK /\ DelayInv)'
  BY NextType, NextDelayInv
<1> QED
  BY <1>1, <1>2, PTL DEF Spec

\* A delayed call of a single-threaded process is stamped again, and returns,
\* only when its own time to sleep has gone by, whenever processes start and
\* whoever holds the mutexes: the static variable tim1 is its own.
THEOREM DelaysHonoured == ASSUME OneThreadEach PROVE Spec => []DelayHonoured
<1>1. DelayInv => DelayHonoured
  BY DEF DelayInv
<1> QED
  BY <1>1, DelayInvariant, PTL

-----------------------------------------------------------------------------
(* The limit of the rate, for one thread.                                  *)

Single == \A t, u \in Thread : t = u

\* Two numbers less than a ring apart have different slots.
LEMMA SlotsDiffer ==
    ASSUME NEW m \in Nat, NEW n \in Nat, m < n, n < m + MAX_REC
    PROVE  Slot(m) # Slot(n)
<1>1. MAX_REC \in Nat /\ MAX_REC > 0
  BY ThrottleAssumption
<1>2. /\ m = (m \div MAX_REC) * MAX_REC + (m % MAX_REC)
      /\ m \div MAX_REC \in Int /\ m % MAX_REC \in Int
  BY <1>1
<1>3. /\ n = (n \div MAX_REC) * MAX_REC + (n % MAX_REC)
      /\ n \div MAX_REC \in Int
  BY <1>1
<1> DEFINE q == n \div MAX_REC - m \div MAX_REC
<1> SUFFICES ASSUME m % MAX_REC = n % MAX_REC PROVE FALSE
  BY DEF Slot
<1>4. n - m = MAX_REC * q /\ q \in Int
  BY <1>1, <1>2, <1>3
<1> HIDE DEF q
<1>5. CASE q <= 0
  BY <1>1, <1>4, <1>5
<1>6. CASE q >= 1
  BY <1>1, <1>4, <1>6
<1> QED
  BY <1>4, <1>5, <1>6

\* A process whose copy of the stamp is the published one has the published
\* limits, and no copy is from the future.
Copied ==
    \A p \in Process :
        /\ param[p].stamp <= shared.stamp
        /\ param[p].stamp = shared.stamp => param[p].window = shared.window

\* A counted call has the number before the counter, above those of the calls
\* done; the limit it is counted
\* under is the one its process has; and if it is delayed it must sleep to the
\* end of the window after the stamp of the call it looked back at.
Underway(t) ==
    /\ pc[t] # "idle" => Proc(t) \in running
    /\ pc[t] \notin {"idle", "called"}
          => call[t].limit = param[Proc(t)].window[K(t)][F(t)]
    /\ pc[t] = "counting" => call[t].n = count[K(t)][F(t)]
    /\ pc[t] \in Ticketed
          => /\ count[K(t)][F(t)] = call[t].n + 1
             /\ \A d \in done[K(t)][F(t)] : d.n < call[t].n
    /\ pc[t] \in {"sleeplock", "asleep", "unsleep", "restamp"}
          => /\ call[t].n > N_SAMPLE_FOR_AVG
             /\ call[t].due = call[t].limit
                  + tlist[K(t)][F(t)][Slot(call[t].n - N_SAMPLE_FOR_AVG)]

\* The stamp of a call stays in its slot while fewer than MAX_REC calls follow.
RingKept ==
    \A k \in Kind, f \in FS : \A d \in done[k][f] :
        /\ d.n < count[k][f]
        /\ count[k][f] <= d.n + MAX_REC => tlist[k][f][Slot(d.n)] = d.at

RateInv == /\ Copied
           /\ \A t \in Thread : Underway(t)
           /\ RingKept
           /\ RateLimit

\* A thread's step keeps its own part.
LEMMA StepUnderway ==
    ASSUME TypeOK, Copied, RingKept, NEW t \in Thread, Underway(t), Step(t)
    PROVE  Underway(t)'
<1> USE DEF Goto, K, F, Underway, Ticketed
<1>0. /\ call[t] \in CallRec /\ pc \in [Thread -> PCs]
      /\ call \in [Thread -> CallRec]
      /\ Proc(t) \in Process /\ param \in [Process -> [stamp : Nat, window : Limits]]
      /\ K(t) \in Kind /\ F(t) \in FS /\ call[t].n \in Nat
  BY ThrottleAssumption DEF TypeOK, Proc, CallRec
<1>p. Proc(t)' = Proc(t)
  BY DEF Proc
<1>1. CASE Post(t)
  <2>1. /\ pc[t] = "called" /\ pc'[t] = "lock" /\ running' = running
        /\ K(t)' = K(t) /\ F(t)' = F(t)
        /\ call'[t].limit = shared.window[K(t)][F(t)]
    BY <1>0, <1>1 DEF Post, CallRec, life
  <2>2. param'[Proc(t)].window = shared.window
    BY <1>0, <1>1 DEF Post, Copied
  <2> QED
    BY <1>p, <2>1, <2>2
<1>2. CASE Count(t)
  BY <1>0, <1>p, <1>2 DEF Count, CallRec
<1>3. CASE Counted(t)
  <2>1. /\ pc[t] = "counting" /\ pc'[t] = "stamp" /\ call' = call
        /\ running' = running /\ param' = param /\ done' = done
    BY <1>0, <1>3 DEF Counted
  <2>2. count'[K(t)][F(t)] = call[t].n + 1
    BY <1>0, <1>3 DEF Counted, TypeOK
  <2>3. \A d \in done[K(t)][F(t)] : d.n < call[t].n
    BY <1>0, <2>1 DEF RingKept
  <2> QED
    BY <1>p, <2>1, <2>2, <2>3
<1>4. CASE Stamp(t)
  BY <1>0, <1>p, <1>4 DEF Stamp, CallRec
<1>5. CASE Pass(t)
  BY <1>0, <1>5 DEF Pass, Return, NoCall
<1>6. CASE Delay(t)
  <2> DEFINE ring == tlist[K(t)][F(t)]
             w == param[Proc(t)].window[K(t)][F(t)]
             at == ring[Slot(call[t].n)]
             before == ring[Slot(call[t].n - N_SAMPLE_FOR_AVG)]
             dT == TimeToSleep(w, ring, call[t].n)
  <2>2. ring \in [0 .. MAX_REC - 1 -> Nat]
    BY <1>0 DEF TypeOK
  <2>3. at \in Nat /\ before \in Nat
    <3>1. call[t].n \in Int /\ call[t].n - N_SAMPLE_FOR_AVG \in Int
      BY <1>0, ThrottleAssumption
    <3>2. /\ Slot(call[t].n) \in 0 .. MAX_REC - 1
          /\ Slot(call[t].n - N_SAMPLE_FOR_AVG) \in 0 .. MAX_REC - 1
      BY <3>1, SlotInRange
    <3> QED
      BY <2>2, <3>2
  <2>4. w \in Nat
    <3>1. w \in Window
      BY <1>0 DEF TypeOK, Limits
    <3> HIDE DEF w
    <3> QED
      BY <3>1, ThrottleAssumption
  <2>5. dT = w - (at - before)
    BY DEF TimeToSleep
  <2>6. /\ pc[t] = "decide" /\ call[t].n > N_SAMPLE_FOR_AVG
        /\ pc'[t] = "sleeplock" /\ call'[t].due = at + dT
        /\ call'[t].n = call[t].n /\ call'[t].limit = call[t].limit
        /\ K(t)' = K(t) /\ F(t)' = F(t)
        /\ running' = running /\ param' = param /\ count' = count
        /\ tlist' = tlist /\ done' = done
    BY <1>0, <1>6 DEF Delay, CallRec
  <2>7. call[t].limit = w
    BY <2>6
  <2>8. at + dT = w + before
    <3> HIDE DEF dT, at, before, w
    <3> QED
      BY <2>3, <2>4, <2>5
  <2> QED
    BY <1>p, <2>6, <2>7, <2>8
<1>7. CASE Sleep(t)
  BY <1>0, <1>p, <1>7 DEF Sleep, CallRec
<1>8. CASE Wake(t)
  BY <1>0, <1>p, <1>8 DEF Wake, CallRec
<1>9. CASE Unsleep(t)
  BY <1>0, <1>p, <1>9 DEF Unsleep
<1>10. CASE Restamp(t)
  BY <1>0, <1>10 DEF Restamp, Return, NoCall
<1> QED
  BY <1>1, <1>2, <1>3, <1>4, <1>5, <1>6, <1>7, <1>8, <1>9, <1>10 DEF Step

\* What a step does to the counters, the rings and the calls done.  A call that
\* returns has its last stamp in its slot, a window after the stamp of the call
\* it looked back at.
LEMMA StepRing ==
    ASSUME TypeOK, DelayInv, NEW t \in Thread, Underway(t), Step(t)
    PROVE  \/ count' = count /\ tlist' = tlist /\ done' = done
           \/ /\ pc[t] = "counting" /\ tlist' = tlist /\ done' = done
              /\ count' = [count EXCEPT ![K(t)][F(t)] = call[t].n + 1]
           \/ /\ pc[t] \in Ticketed /\ count' = count /\ done' = done
              /\ tlist' = [tlist EXCEPT ![K(t)][F(t)][Slot(call[t].n)] = now]
           \/ /\ pc[t] \in Ticketed /\ count' = count
              /\ \E r : /\ r.n = call[t].n
                        /\ r.at \in Nat
                        /\ call[t].n > N_SAMPLE_FOR_AVG =>
                             r.at - tlist[K(t)][F(t)]
                                      [Slot(call[t].n - N_SAMPLE_FOR_AVG)]
                                >= r.limit
                        /\ done' = [done EXCEPT ![K(t)][F(t)] = @ \cup {r}]
                        /\ tlist' = [tlist EXCEPT
                                       ![K(t)][F(t)][Slot(call[t].n)] = r.at]
<1> USE DEF Ticketed
<1>0. /\ call[t] \in CallRec /\ now \in Nat
      /\ Proc(t) \in Process
      /\ tlist \in [Kind -> [FS -> [0 .. MAX_REC - 1 -> Nat]]]
      /\ K(t) \in Kind /\ F(t) \in FS /\ call[t].n \in Nat
      /\ call[t].limit \in Nat /\ call[t].due \in Nat
  BY ThrottleAssumption DEF TypeOK, Proc, CallRec, K, F
<1> DEFINE ring == tlist[K(t)][F(t)]
           at == ring[Slot(call[t].n)]
           before == ring[Slot(call[t].n - N_SAMPLE_FOR_AVG)]
<1>a. at \in Nat /\ before \in Nat /\ Slot(call[t].n) \in 0 .. MAX_REC - 1
  <2>1. call[t].n \in Int /\ call[t].n - N_SAMPLE_FOR_AVG \in Int
    BY <1>0, ThrottleAssumption
  <2>2. /\ Slot(call[t].n) \in 0 .. MAX_REC - 1
        /\ Slot(call[t].n - N_SAMPLE_FOR_AVG) \in 0 .. MAX_REC - 1
    BY <2>1, SlotInRange
  <2>3. ring \in [0 .. MAX_REC - 1 -> Nat]
    BY <1>0
  <2> HIDE DEF ring
  <2> QED
    BY <2>2, <2>3
<1>1. CASE Post(t)
  BY <1>1 DEF Post
<1>2. CASE Count(t)
  BY <1>2 DEF Count
<1>3. CASE Counted(t)
  BY <1>3 DEF Counted
<1>4. CASE Stamp(t)
  BY <1>4 DEF Stamp
<1>5. CASE Pass(t)
  <2> DEFINE r == [n |-> call[t].n, at |-> at, limit |-> call[t].limit,
                   due |-> call[t].due]
             w == param[Proc(t)].window[K(t)][F(t)]
  <2>1. done' = [done EXCEPT ![K(t)][F(t)] = @ \cup {r}]
    BY <1>5 DEF Pass, Return
  <2>2. /\ pc[t] = "decide" /\ count' = count /\ tlist' = tlist
        /\ call[t].n <= N_SAMPLE_FOR_AVG \/ w - (at - before) <= 0
        /\ call[t].limit = w
    BY <1>5 DEF Pass, TimeToSleep, Underway
  <2>3. tlist' = [tlist EXCEPT ![K(t)][F(t)][Slot(call[t].n)] = at]
    BY <1>0, <2>2
  <2>4. call[t].n > N_SAMPLE_FOR_AVG => at - before >= call[t].limit
    <3> SUFFICES ASSUME call[t].n > N_SAMPLE_FOR_AVG
                 PROVE  at - before >= call[t].limit
      OBVIOUS
    <3>0. ~(call[t].n <= N_SAMPLE_FOR_AVG)
      <4> DEFINE n == call[t].n
      <4>1. n \in Nat /\ N_SAMPLE_FOR_AVG \in Nat /\ n > N_SAMPLE_FOR_AVG
        BY <1>0, ThrottleAssumption
      <4> HIDE DEF n
      <4>2. ~(n <= N_SAMPLE_FOR_AVG)
        BY <4>1
      <4> QED
        BY <4>2 DEF n
    <3>1. w - (at - before) <= 0
      BY <2>2, <3>0
    <3>2. w \in Nat
      BY <1>0, <2>2
    <3>3. call[t].limit = w
      BY <2>2
    <3> HIDE DEF at, before, w, ring
    <3>4. at - before >= w
      BY <1>a, <3>1, <3>2
    <3> QED
      BY <3>3, <3>4
  <2>5. r.n = call[t].n /\ r.at = at /\ r.limit = call[t].limit
    OBVIOUS
  <2> HIDE DEF r
  <2> QED
    BY <1>a, <2>1, <2>2, <2>3, <2>4, <2>5
<1>6. CASE Delay(t)
  BY <1>6 DEF Delay
<1>7. CASE Sleep(t)
  BY <1>7 DEF Sleep
<1>8. CASE Wake(t)
  BY <1>8 DEF Wake
<1>9. CASE Unsleep(t)
  BY <1>9 DEF Unsleep
<1>10. CASE Restamp(t)
  <2> DEFINE r == [n |-> call[t].n, at |-> now, limit |-> call[t].limit,
                   due |-> call[t].due]
  <2>1. done' = [done EXCEPT ![K(t)][F(t)] = @ \cup {r}]
    BY <1>10 DEF Restamp, Return
  <2>2. /\ pc[t] = "restamp" /\ count' = count
        /\ tlist' = [tlist EXCEPT ![K(t)][F(t)][Slot(call[t].n)] = now]
    BY <1>10 DEF Restamp
  <2>3. call[t].due = call[t].limit + before /\ call[t].due <= now
    BY <2>2 DEF Underway, DelayInv
  <2>4. now - before >= call[t].limit
    <3> HIDE DEF before
    <3> QED
      BY <1>0, <1>a, <2>3
  <2>5. r.n = call[t].n /\ r.at = now /\ r.limit = call[t].limit
    OBVIOUS
  <2> HIDE DEF r
  <2> QED
    BY <1>0, <2>1, <2>2, <2>4, <2>5
<1> QED
  BY <1>1, <1>2, <1>3, <1>4, <1>5, <1>6, <1>7, <1>8, <1>9, <1>10 DEF Step

\* The slot of the calls that come a sample later has not been overwritten: the
\* ring is longer than the sample.
LEMMA StepRate ==
    ASSUME TypeOK, DelayInv, RingKept, RateLimit,
           NEW t \in Thread, Underway(t), Step(t)
    PROVE  (RingKept /\ RateLimit)'
<1>0. /\ K(t) \in Kind /\ F(t) \in FS /\ call[t].n \in Nat /\ now \in Nat
      /\ count \in [Kind -> [FS -> Nat]]
      /\ tlist \in [Kind -> [FS -> [0 .. MAX_REC - 1 -> Nat]]]
      /\ done \in [Kind -> [FS -> SUBSET DoneRec]]
  BY DEF TypeOK, CallRec, K, F
<1>d. \A k \in Kind, f \in FS : \A d \in done[k][f] :
         d.n \in Nat /\ d.at \in Nat /\ d.limit \in Nat
  BY <1>0 DEF DoneRec
<1>m. MAX_REC \in Nat /\ N_SAMPLE_FOR_AVG \in 1 .. MAX_REC - 1
  BY ThrottleAssumption
<1> HIDE DEF K, F
<1> SUFFICES ASSUME NEW k \in Kind, NEW f \in FS
             PROVE  /\ \A d \in done'[k][f] :
                          /\ d.n < count'[k][f]
                          /\ count'[k][f] <= d.n + MAX_REC
                               => tlist'[k][f][Slot(d.n)] = d.at
                    /\ \A d, e \in done'[k][f] :
                          e.n > 0 /\ d.n = e.n + N_SAMPLE_FOR_AVG
                            => d.at - e.at >= d.limit
  BY DEF RingKept, RateLimit
<1>r. \A d \in done[k][f] :
         /\ d.n < count[k][f]
         /\ count[k][f] <= d.n + MAX_REC => tlist[k][f][Slot(d.n)] = d.at
  BY DEF RingKept
<1>l. \A d, e \in done[k][f] :
         e.n > 0 /\ d.n = e.n + N_SAMPLE_FOR_AVG => d.at - e.at >= d.limit
  BY DEF RateLimit
<1>1. CASE /\ count'[k][f] = count[k][f] /\ tlist'[k][f] = tlist[k][f]
           /\ done'[k][f] = done[k][f]
  BY <1>1, <1>r, <1>l
<1>2. CASE /\ pc[t] = "counting" /\ tlist' = tlist /\ done' = done
           /\ count' = [count EXCEPT ![K(t)][F(t)] = call[t].n + 1]
  <2>1. CASE k = K(t) /\ f = F(t)
    <3>1. count'[k][f] = count[k][f] + 1 /\ count[k][f] \in Nat
      BY <1>0, <1>2, <2>1 DEF Underway
    <3> QED
      BY <1>2, <1>r, <1>l, <1>d, <1>m, <3>1
  <2>2. CASE ~(k = K(t) /\ f = F(t))
    BY <1>0, <1>1, <1>2, <2>2
  <2> QED
    BY <2>1, <2>2
<1>s. ASSUME k = K(t), f = F(t), pc[t] \in Ticketed, NEW v,
             tlist' = [tlist EXCEPT ![K(t)][F(t)][Slot(call[t].n)] = v]
      PROVE  /\ count[k][f] = call[t].n + 1
             /\ tlist'[k][f][Slot(call[t].n)] = v
             /\ \A d \in done[k][f] :
                  /\ d.n < call[t].n
                  /\ count[k][f] <= d.n + MAX_REC
                       => tlist'[k][f][Slot(d.n)] = d.at
  <2>1. /\ count[k][f] = call[t].n + 1
        /\ \A d \in done[k][f] : d.n < call[t].n
    BY <1>s DEF Underway
  <2>2. Slot(call[t].n) \in 0 .. MAX_REC - 1
    <3>1. call[t].n \in Int
      BY <1>0
    <3> QED
      BY <3>1, SlotInRange
  <2>3. tlist'[k][f] = [tlist[k][f] EXCEPT ![Slot(call[t].n)] = v]
    BY <1>0, <1>s
  <2>4. tlist[k][f] \in [0 .. MAX_REC - 1 -> Nat]
    BY <1>0
  <2>5. ASSUME NEW d \in done[k][f], count[k][f] <= d.n + MAX_REC
        PROVE  tlist'[k][f][Slot(d.n)] = d.at
    <3>1. d.n \in Nat /\ d.n < call[t].n /\ call[t].n < d.n + MAX_REC
      <4>1. d.n \in Nat /\ d.n < call[t].n
        BY <1>d, <2>1
      <4> QED
        BY <4>1, <1>0, <1>m, <2>1, <2>5
    <3>2. Slot(d.n) # Slot(call[t].n)
      BY <1>0, <3>1, SlotsDiffer
    <3>3. Slot(d.n) \in 0 .. MAX_REC - 1
      <4>1. d.n \in Int
        BY <3>1
      <4> QED
        BY <4>1, SlotInRange
    <3>4. tlist'[k][f][Slot(d.n)] = tlist[k][f][Slot(d.n)]
      BY <2>3, <2>4, <3>2, <3>3
    <3> QED
      BY <1>r, <2>5, <3>4
  <2> QED
    BY <2>1, <2>2, <2>3, <2>4, <2>5
<1>3. CASE /\ pc[t] \in Ticketed /\ count' = count /\ done' = done
           /\ tlist' = [tlist EXCEPT ![K(t)][F(t)][Slot(call[t].n)] = now]
  <2>1. CASE k = K(t) /\ f = F(t)
    BY <1>3, <1>s, <1>r, <1>l, <2>1
  <2>2. CASE ~(k = K(t) /\ f = F(t))
    <3>1. tlist'[k][f] = tlist[k][f]
      BY <1>0, <1>3, <2>2
    <3> QED
      BY <1>1, <1>3, <3>1
  <2> QED
    BY <2>1, <2>2
<1>4. ASSUME pc[t] \in Ticketed, count' = count, NEW r,
             r.n = call[t].n, r.at \in Nat,
             call[t].n > N_SAMPLE_FOR_AVG =>
                r.at - tlist[K(t)][F(t)][Slot(call[t].n - N_SAMPLE_FOR_AVG)]
                   >= r.limit,
             done' = [done EXCEPT ![K(t)][F(t)] = @ \cup {r}],
             tlist' = [tlist EXCEPT ![K(t)][F(t)][Slot(call[t].n)] = r.at]
      PROVE  /\ \A d \in done'[k][f] :
                  /\ d.n < count'[k][f]
                  /\ count'[k][f] <= d.n + MAX_REC
                       => tlist'[k][f][Slot(d.n)] = d.at
             /\ \A d, e \in done'[k][f] :
                  e.n > 0 /\ d.n = e.n + N_SAMPLE_FOR_AVG
                    => d.at - e.at >= d.limit
  <2>1. CASE k = K(t) /\ f = F(t)
    <3>1. done'[k][f] = done[k][f] \cup {r}
      BY <1>0, <1>4, <2>1
    <3>2. /\ count[k][f] = call[t].n + 1
          /\ tlist'[k][f][Slot(call[t].n)] = r.at
          /\ \A d \in done[k][f] :
               /\ d.n < call[t].n
               /\ count[k][f] <= d.n + MAX_REC => tlist'[k][f][Slot(d.n)] = d.at
      BY <1>4, <1>s, <2>1
    <3>3. \A d \in done'[k][f] :
             /\ d.n < count'[k][f]
             /\ count'[k][f] <= d.n + MAX_REC => tlist'[k][f][Slot(d.n)] = d.at
      BY <1>0, <1>4, <1>r, <3>1, <3>2
    <3>4. ASSUME NEW e \in done[k][f], e.n > 0,
                 r.n = e.n + N_SAMPLE_FOR_AVG
          PROVE  r.at - e.at >= r.limit
      <4>1. /\ e.n \in Nat /\ call[t].n > N_SAMPLE_FOR_AVG
            /\ call[t].n - N_SAMPLE_FOR_AVG = e.n
            /\ count[k][f] <= e.n + MAX_REC
        <5>1. e.n \in Nat /\ call[t].n = e.n + N_SAMPLE_FOR_AVG
          BY <1>d, <1>4, <3>4
        <5> QED
          BY <1>m, <3>2, <3>4, <5>1
      <4>2. tlist[k][f][Slot(e.n)] = e.at
        BY <1>r, <4>1
      <4> QED
        BY <1>4, <2>1, <4>1, <4>2
    <3>5. ASSUME NEW d \in done[k][f] PROVE d.n # r.n + N_SAMPLE_FOR_AVG
      <4>1. d.n \in Nat /\ d.n < call[t].n
        BY <1>d, <3>2
      <4> QED
        BY <1>0, <1>m, <1>4, <4>1
    <3>6. r.n # r.n + N_SAMPLE_FOR_AVG
      BY <1>0, <1>m, <1>4
    <3> QED
      BY <1>l, <3>1, <3>3, <3>4, <3>5, <3>6
  <2>2. CASE ~(k = K(t) /\ f = F(t))
    <3>1. tlist'[k][f] = tlist[k][f] /\ done'[k][f] = done[k][f]
      BY <1>0, <1>4, <2>2
    <3> QED
      BY <1>1, <1>4, <3>1
  <2> QED
    BY <2>1, <2>2
<1> QED
  BY <1>1, <1>2, <1>3, <1>4, StepRing

\* A thread's step publishes nothing and copies at most what is published.
LEMMA StepCopied ==
    ASSUME TypeOK, Copied, NEW t \in Thread, Step(t)
    PROVE  Copied'
<1>1. CASE Post(t)
  <2>1. /\ shared' = shared
        /\ \A p \in Process : param'[p] = param[p] \/ param'[p] = shared
    BY <1>1 DEF Post, TypeOK
  <2>2. shared.stamp \in Nat
    BY DEF TypeOK
  <2> QED
    BY <2>1, <2>2 DEF Copied
<1>2. CASE ~Post(t)
  <2>1. shared' = shared /\ param' = param
    BY <1>2 DEF Step, Count, Counted, Stamp, Pass, Delay, Sleep, Wake, Unsleep,
                Restamp
  <2> QED
    BY <2>1 DEF Copied
<1> QED
  BY <1>1, <1>2

\* With one thread, nothing breaks RateInv.
LEMMA NextRateInv ==
    ASSUME Single, TypeOK, DelayInv, RateInv, [Next]_vars
    PROVE  RateInv'
<1> USE DEF RateInv
<1>1. ASSUME NEW t \in Thread, Step(t) PROVE RateInv'
  <2>1. Underway(t)'
    BY <1>1, StepUnderway
  <2>2. \A u \in Thread : Underway(u)'
    BY <2>1 DEF Single
  <2> QED
    BY <1>1, <2>2, StepCopied, StepRate
<1>2. ASSUME NEW t \in Thread, NEW k \in Kind, NEW f \in FS, Begin(t, k, f)
      PROVE  RateInv'
  <2>1. /\ pc'[t] = "called" /\ Proc(t) \in running' /\ Proc(t)' = Proc(t)
        /\ UNCHANGED <<shared, param, count, tlist, done>>
    BY <1>2 DEF Begin, Goto, TypeOK, Proc
  <2>2. Underway(t)'
    BY <2>1 DEF Underway, Ticketed
  <2>3. \A u \in Thread : Underway(u)'
    BY <2>2 DEF Single
  <2> QED
    BY <2>1, <2>3 DEF Copied, RingKept, RateLimit
<1>3. ASSUME NEW p \in Process, Start(p) PROVE RateInv'
  <2>1. /\ p \notin running /\ running' = running \cup {p}
        /\ param' = [param EXCEPT ![p] = shared]
        /\ UNCHANGED <<shared, count, tlist, done, pc, call>>
    BY <1>3 DEF Start
  <2>2. ASSUME NEW t \in Thread PROVE Underway(t)'
    <3>1. Underway(t)
      OBVIOUS
    <3>2. CASE pc[t] = "idle"
      BY <2>1, <3>2 DEF Underway, Ticketed
    <3>3. CASE pc[t] # "idle"
      <4>1. Proc(t) # p /\ Proc(t) \in Process
        BY <2>1, <3>1, <3>3, ThrottleAssumption DEF Underway, Proc
      <4>2. param'[Proc(t)] = param[Proc(t)]
        BY <2>1, <4>1 DEF TypeOK
      <4> QED
        BY <2>1, <3>1, <4>2 DEF Underway, K, F, Proc
    <3> QED
      BY <3>2, <3>3
  <2>3. Copied'
    BY <2>1 DEF Copied, TypeOK
  <2> QED
    BY <2>1, <2>2, <2>3 DEF RingKept, RateLimit
<1>4. ASSUME NEW p \in Process, Exit(p) PROVE RateInv'
  <2>1. /\ running' = running \ {p}
        /\ \A t \in Thread : Proc(t) = p => pc[t] = "idle"
        /\ UNCHANGED <<shared, param, count, tlist, done, pc, call>>
    BY <1>4 DEF Exit
  <2>2. \A t \in Thread : Underway(t)'
    BY <2>1 DEF Underway, K, F, Proc
  <2> QED
    BY <2>1, <2>2 DEF Copied, RingKept, RateLimit
<1>5. ASSUME NEW f \in FS, NEW w \in [Kind -> Window], SetIoParam(f, w)
      PROVE  RateInv'
  <2>1. /\ shared'.stamp = shared.stamp + 1
        /\ UNCHANGED <<running, param, count, tlist, done, pc, call>>
    BY <1>5 DEF SetIoParam
  <2>2. shared.stamp \in Nat /\ \A p \in Process : param[p].stamp \in Nat
    BY DEF TypeOK
  <2>3. Copied'
    BY <2>1, <2>2 DEF Copied
  <2>4. \A t \in Thread : Underway(t)'
    BY <2>1 DEF Underway, K, F, Proc
  <2> QED
    BY <2>1, <2>3, <2>4 DEF RingKept, RateLimit
<1>6. ASSUME UNCHANGED <<running, shared, param, count, tlist, done, pc, call>>
      PROVE  RateInv'
  <2>1. \A t \in Thread : Underway(t)'
    BY <1>6 DEF Underway, K, F, Proc
  <2> QED
    BY <1>6, <2>1 DEF Copied, RingKept, RateLimit
<1>7. CASE Tick
  BY <1>6, <1>7 DEF Tick
<1>8. CASE UNCHANGED vars
  BY <1>6, <1>8 DEF vars
<1> QED
  BY <1>1, <1>2, <1>3, <1>4, <1>5, <1>7, <1>8 DEF Next

\* For one thread, whatever limits are published meanwhile, the stamps of a call
\* and of the call a sample before it lie at least the window apart that was in
\* force when the later one was counted.
THEOREM RateKept == ASSUME Single PROVE Spec => []RateLimit
<1>1. OneThreadEach
  BY DEF Single, OneThreadEach
<1>2. Init => RateInv
  <2> SUFFICES ASSUME Init PROVE RateInv
    OBVIOUS
  <2>1. Copied
    BY DEF Init, Copied
  <2>2. \A t \in Thread : Underway(t)
    BY DEF Init, Underway, Ticketed
  <2> QED
    BY <2>1, <2>2 DEF Init, RateInv, RingKept, RateLimit
<1>3. Spec => []TypeOK /\ []DelayInv
  BY <1>1, TypeCorrect, DelayInvariant
<1>4. TypeOK /\ DelayInv /\ RateInv /\ [Next]_vars => RateInv'
  BY NextRateInv
<1>5. RateInv => RateLimit
  BY DEF RateInv
<1> QED
  BY <1>2, <1>3, <1>4, <1>5, PTL DEF Spec

-----------------------------------------------------------------------------
(* The throttle keeps what Limiter promises.                               *)

\* The state of Limiter that a state of Throttle stands for.
Ticket(t) == IF pc[t] \in Ticketed THEN <<K(t), F(t), call[t].n>> ELSE << >>
Phases  == [t \in Thread |-> Phase(pc[t])]
Tickets == [t \in Thread |-> Ticket(t)]
Dues    == [t \in Thread |-> call[t].due]

\* A step of a thread changes its own entries only.
LEMMA StepFrame ==
    ASSUME TypeOK, NEW t \in Thread, Step(t)
    PROVE  /\ Phases' = [Phases EXCEPT ![t] = Phase(pc[t])']
           /\ Tickets' = [Tickets EXCEPT ![t] = Ticket(t)']
           /\ Dues' = [Dues EXCEPT ![t] = call[t].due']
<1>1. \A u \in Thread \ {t} : pc'[u] = pc[u] /\ call'[u] = call[u]
  BY StepLocal
<1>2. \A u \in Thread \ {t} : /\ Phase(pc[u])' = Phase(pc[u])
                              /\ Ticket(u)' = Ticket(u)
                              /\ call[u].due' = call[u].due
  BY <1>1 DEF Ticket, K, F
<1> QED
  BY <1>2 DEF Phases, Tickets, Dues

\* What Limiter sees of a state: as long as it stays, Limiter stutters.
LEMMA Stutters ==
    ASSUME UNCHANGED <<now, count, delayed, Phases, Tickets, Dues>>
    PROVE  UNCHANGED Promise!vars
BY DEF Promise!vars, Phases, Tickets, Dues, Ticket

\* When a thread keeps its phase, number and time, so does Limiter.
LEMMA StepStutters ==
    ASSUME TypeOK, NEW t \in Thread, Step(t),
           UNCHANGED <<now, count, delayed>>,
           Phase(pc[t])' = Phase(pc[t]), Ticket(t)' = Ticket(t),
           call[t].due' = call[t].due
    PROVE  UNCHANGED Promise!vars
<1>1. Phases' = Phases /\ Tickets' = Tickets /\ Dues' = Dues
  BY StepFrame DEF Phases, Tickets, Dues
<1> QED
  BY <1>1, Stutters

\* Each step of a thread is a step of Limiter or stutters: storing the counter
\* takes a number, because it is the counter that was read; the delay begins
\* alone because of the mutex, and ends when it is due.
LEMMA StepPromised ==
    ASSUME TicketInv, DelayInv, DelayedInv, NEW t \in Thread, Step(t)
    PROVE  [Promise!Next]_(Promise!vars)
<1> DEFINE Abstract == \/ \E k \in Kind, f \in FS : Promise!Take(t, k, f)
                       \/ Promise!Decide(t) \/ Promise!Delay(t)
                       \/ Promise!Serve(t) \/ Promise!Return(t)
                       \/ UNCHANGED Promise!vars
<1>a. SUFFICES Abstract
  BY DEF Promise!Next
<1>0. /\ TypeOK /\ call[t] \in CallRec /\ pc \in [Thread -> PCs]
      /\ call \in [Thread -> CallRec] /\ K(t) \in Kind /\ F(t) \in FS
  BY DEF TicketInv, TypeOK, K, F, CallRec
<1>f. /\ Phases' = [Phases EXCEPT ![t] = Phase(pc[t])']
      /\ Tickets' = [Tickets EXCEPT ![t] = Ticket(t)']
      /\ Dues' = [Dues EXCEPT ![t] = call[t].due']
      /\ Phases[t] = Phase(pc[t]) /\ Tickets[t] = Ticket(t)
      /\ Dues[t] = call[t].due
  BY <1>0, StepFrame DEF Phases, Tickets, Dues
<1>k. K(t)' = K(t) /\ F(t)' = F(t)
  BY <1>0, StepLocal DEF K, F
<1> USE DEF Goto
<1>1. CASE Post(t)
  <2>1. /\ UNCHANGED <<now, count, delayed>>
        /\ Phase(pc[t])' = Phase(pc[t]) /\ Ticket(t)' = Ticket(t)
        /\ call[t].due' = call[t].due
    BY <1>0, <1>1 DEF Post, Phase, Ticket, Ticketed, CallRec
  <2> QED
    BY <1>0, <2>1, StepStutters
<1>2. CASE Count(t)
  <2>1. /\ UNCHANGED <<now, count, delayed>>
        /\ Phase(pc[t])' = Phase(pc[t]) /\ Ticket(t)' = Ticket(t)
        /\ call[t].due' = call[t].due
    BY <1>0, <1>2 DEF Count, Phase, Ticket, Ticketed, CallRec
  <2> QED
    BY <1>0, <2>1, StepStutters
<1>3. CASE Counted(t)
  <2>1. /\ Phase(pc[t]) = "out" /\ Phase(pc[t])' = "in"
        /\ call[t].due' = call[t].due
        /\ Ticket(t)' = <<K(t), F(t), call[t].n>>
        /\ UNCHANGED <<now, delayed>>
    BY <1>0, <1>3, <1>k DEF Counted, Phase, Ticket, Ticketed
  <2>2. /\ call[t].n = count[K(t)][F(t)]
        /\ count' = [count EXCEPT ![K(t)][F(t)] = call[t].n + 1]
    BY <1>3 DEF Counted, TicketInv, Numbered
  <2>3. count' = [count EXCEPT ![K(t)][F(t)] = @ + 1]
    BY <2>2
  <2>4. Dues' = Dues
    BY <1>f, <2>1 DEF Dues
  <2>5. PICK k \in Kind, f \in FS : k = K(t) /\ f = F(t)
    BY <1>0
  <2>6. Promise!Take(t, k, f)
    BY <1>f, <2>1, <2>2, <2>3, <2>4, <2>5
       DEF Promise!Take, Promise!Move, Phases, Tickets, Dues, Ticket
  <2> QED
    BY <2>6
<1>4. CASE Stamp(t)
  <2>1. /\ UNCHANGED <<now, count, delayed>>
        /\ Phase(pc[t])' = Phase(pc[t]) /\ Ticket(t)' = Ticket(t)
        /\ call[t].due' = call[t].due
    BY <1>0, <1>4, <1>k DEF Stamp, Phase, Ticket, Ticketed, CallRec
  <2> QED
    BY <1>0, <2>1, StepStutters
<1>5. CASE Pass(t)
  <2>1. /\ Phase(pc[t]) = "in" /\ Phase(pc[t])' = "out"
        /\ call[t].due' = 0 /\ Ticket(t)' = << >>
        /\ UNCHANGED <<now, count, delayed>>
    BY <1>0, <1>5 DEF Pass, Return, NoCall, Phase, Ticket, Ticketed
  <2>2. Promise!Return(t)
    BY <1>f, <2>1
       DEF Promise!Return, Promise!Move, Phases, Tickets, Dues, Ticket
  <2> QED
    BY <2>2
<1>6. CASE Delay(t)
  <2>1. /\ Phase(pc[t]) = "in" /\ Phase(pc[t])' = "due"
        /\ Ticket(t)' = Ticket(t)
        /\ UNCHANGED <<now, count, delayed>>
    BY <1>0, <1>6, <1>k DEF Delay, Phase, Ticket, Ticketed, CallRec
  <2>2. Dues'[t] \in Nat /\ Dues' = [Dues EXCEPT ![t] = Dues'[t]]
    <3>1. TypeOK'
      BY <1>0, StepType
    <3>2. call'[t].due \in Nat
      BY <3>1 DEF TypeOK, CallRec
    <3> QED
      BY <1>f, <3>2 DEF Dues
  <2>3. Tickets' = Tickets
    BY <1>f, <2>1 DEF Tickets
  <2>4. Promise!Decide(t)
    BY <1>f, <2>1, <2>2, <2>3
       DEF Promise!Decide, Promise!Move, Phases, Tickets, Dues, Ticket
  <2> QED
    BY <2>4
<1>7. CASE Sleep(t)
  <2>1. /\ Phase(pc[t]) = "due" /\ Phase(pc[t])' = "delayed"
        /\ Ticket(t)' = Ticket(t) /\ call[t].due' = call[t].due
        /\ UNCHANGED <<now, count, delayed>>
        /\ ~locked[K(t)] /\ pc[t] \in Ticketed
    BY <1>0, <1>7, <1>k DEF Sleep, Phase, Ticket, Ticketed, CallRec
  <2>2. Tickets' = Tickets /\ Dues' = Dues
    BY <1>f, <2>1 DEF Tickets, Dues
  <2>3. ASSUME NEW u \in Thread, Phases[u] = "delayed"
        PROVE  Tickets[u][1] # Tickets[t][1]
    <3>1. pc[u] \in InSleep
      BY <1>0, <2>3 DEF Phases, Phase, InSleep, PCs
    <3>2. locked[K(u)]
      BY <3>1 DEF TicketInv, Exclusive, Inside
    <3>3. Tickets[u][1] = K(u) /\ Tickets[t][1] = K(t)
      BY <2>1, <3>1 DEF Tickets, Ticket, Ticketed, InSleep
    <3> QED
      BY <2>1, <3>2, <3>3
  <2>4. Promise!Delay(t)
    BY <1>f, <2>1, <2>2, <2>3
       DEF Promise!Delay, Promise!Move, Promise!Kinds, Phases, Tickets, Dues,
           Ticket
  <2> QED
    BY <2>4
<1>8. CASE Wake(t)
  <2>1. /\ UNCHANGED <<now, count, delayed>>
        /\ Phase(pc[t])' = Phase(pc[t]) /\ Ticket(t)' = Ticket(t)
        /\ call[t].due' = call[t].due
    BY <1>0, <1>8, <1>k DEF Wake, Phase, Ticket, Ticketed, CallRec
  <2> QED
    BY <1>0, <2>1, StepStutters
<1>9. CASE Unsleep(t)
  <2>1. /\ Phase(pc[t]) = "delayed" /\ Phase(pc[t])' = "served"
        /\ Ticket(t)' = Ticket(t) /\ call[t].due' = call[t].due
        /\ Ticket(t) = <<K(t), F(t), call[t].n>>
        /\ UNCHANGED <<now, count>>
    BY <1>0, <1>9, <1>k DEF Unsleep, Phase, Ticket, Ticketed
  <2>2. now >= call[t].due
    <3>1. pc[t] = "unsleep" /\ call[t].due \in Nat /\ now \in Nat
      BY <1>0, <1>9 DEF Unsleep, CallRec, TypeOK
    <3>2. call[t].due <= now
      BY <3>1 DEF DelayInv
    <3> QED
      BY <3>1, <3>2
  <2>3. /\ call[t].reg = delayed[K(t)][F(t)]
        /\ delayed' = [delayed EXCEPT ![K(t)][F(t)] = call[t].reg + 1]
    BY <1>9 DEF Unsleep, DelayedInv, Waiting
  <2>4. delayed' = [delayed EXCEPT ![K(t)][F(t)] = @ + 1]
    BY <2>3
  <2>5. Tickets' = Tickets /\ Dues' = Dues
    BY <1>f, <2>1 DEF Tickets, Dues
  <2>6. Promise!Serve(t)
    BY <1>f, <2>1, <2>2, <2>4, <2>5
       DEF Promise!Serve, Promise!Move, Promise!Kinds, Promise!Servers, Phases,
           Tickets, Dues, Ticket
  <2> QED
    BY <2>6
<1>10. CASE Restamp(t)
  <2>1. /\ Phase(pc[t]) = "served" /\ Phase(pc[t])' = "out"
        /\ call[t].due' = 0 /\ Ticket(t)' = << >>
        /\ UNCHANGED <<now, count, delayed>>
    BY <1>0, <1>10 DEF Restamp, Return, NoCall, Phase, Ticket, Ticketed
  <2>2. Promise!Return(t)
    BY <1>f, <2>1
       DEF Promise!Return, Promise!Move, Phases, Tickets, Dues, Ticket
  <2> QED
    BY <2>2
<1> QED
  BY <1>1, <1>2, <1>3, <1>4, <1>5, <1>6, <1>7, <1>8, <1>9, <1>10 DEF Step

\* The other steps are not seen, but for the clock.
LEMMA NextPromised ==
    ASSUME TicketInv, DelayInv, DelayedInv, [Next]_vars
    PROVE  [Promise!Next]_(Promise!vars)
<1>1. ASSUME NEW t \in Thread, Step(t)
      PROVE  [Promise!Next]_(Promise!vars)
  BY <1>1, StepPromised
<1>2. ASSUME NEW t \in Thread, NEW k \in Kind, NEW f \in FS, Begin(t, k, f)
      PROVE  UNCHANGED Promise!vars
  <2>1. /\ \A u \in Thread : /\ Phase(pc[u])' = Phase(pc[u])
                             /\ call[u].due' = call[u].due
                             /\ pc[u] \in Ticketed => call'[u] = call[u]
                             /\ (pc[u] \in Ticketed)' <=> pc[u] \in Ticketed
        /\ UNCHANGED <<now, count, delayed>>
    <3>1. /\ pc[t] = "idle" /\ pc' = [pc EXCEPT ![t] = "called"]
          /\ call' = [call EXCEPT ![t] = [NoCall(k, f) EXCEPT !.start = now]]
      BY <1>2 DEF Begin, Goto
    <3>2. pc \in [Thread -> PCs] /\ call \in [Thread -> CallRec]
      BY DEF TicketInv, TypeOK
    <3>3. call[t].due = 0
      BY <3>1 DEF DelayInv
    <3>4. call'[t].due = 0
      BY <3>1, <3>2 DEF NoCall
    <3>5. \A u \in Thread \ {t} : pc'[u] = pc[u] /\ call'[u] = call[u]
      BY <3>1, <3>2
    <3>6. /\ pc'[t] = "called"
          /\ Phase("called") = "out" /\ Phase("idle") = "out"
          /\ "called" \notin Ticketed /\ "idle" \notin Ticketed
      BY <3>1, <3>2 DEF Phase, Ticketed
    <3> QED
      BY <1>2, <3>1, <3>3, <3>4, <3>5, <3>6 DEF Begin
  <2>2. Phases' = Phases /\ Dues' = Dues
    BY <2>1 DEF Phases, Dues
  <2>3. \A u \in Thread : Ticket(u)' = Ticket(u)
    <3> SUFFICES ASSUME NEW u \in Thread PROVE Ticket(u)' = Ticket(u)
      OBVIOUS
    <3>1. CASE pc[u] \in Ticketed
      BY <2>1, <3>1 DEF Ticket, K, F
    <3>2. CASE pc[u] \notin Ticketed
      BY <2>1, <3>2 DEF Ticket
    <3> QED
      BY <3>1, <3>2
  <2>4. Tickets' = Tickets
    BY <2>3 DEF Tickets
  <2> QED
    BY <2>1, <2>2, <2>4, Stutters
<1>3. ASSUME UNCHANGED <<pc, call>>
      PROVE  Phases' = Phases /\ Tickets' = Tickets /\ Dues' = Dues
  BY <1>3 DEF Phases, Tickets, Dues, Ticket, K, F
<1>4. ASSUME NEW p \in Process, Start(p) PROVE UNCHANGED Promise!vars
  BY <1>3, <1>4, Stutters DEF Start
<1>5. ASSUME NEW p \in Process, Exit(p) PROVE UNCHANGED Promise!vars
  BY <1>3, <1>5, Stutters DEF Exit
<1>6. ASSUME NEW f \in FS, NEW w \in [Kind -> Window], SetIoParam(f, w)
      PROVE  UNCHANGED Promise!vars
  BY <1>3, <1>6, Stutters DEF SetIoParam
<1>7. CASE Tick
  <2>1. Promise!Tick
    BY <1>3, <1>7 DEF Tick, Promise!Tick, Phases, Tickets, Dues, Ticket
  <2> QED
    BY <2>1 DEF Promise!Next
<1>8. CASE UNCHANGED vars
  BY <1>3, <1>8, Stutters DEF vars
<1> QED
  BY <1>1, <1>2, <1>4, <1>5, <1>6, <1>7, <1>8 DEF Next

\* Single-threaded processes, started while no mutex is in use, keep together
\* what Limiter promises: calls are numbered one after the other, and delays of
\* one kind are served one at a time, to their end, and counted one by one.
THEOREM ImplementsLimiter ==
    ASSUME QuietStart, OneThreadEach, IsFiniteSet(Thread)
    PROVE  Spec => LimiterSpec
<1>1. Init => Promise!Init
  <2> SUFFICES ASSUME Init PROVE Promise!Init
    OBVIOUS
  <2>1. \A t \in Thread : /\ Phase(pc[t]) = "out" /\ pc[t] \notin Ticketed
                          /\ call[t].due = 0
    BY DEF Init, Phase, Ticketed, NoCall
  <2> QED
    BY <2>1 DEF Init, Promise!Init
<1>2. TicketInv /\ DelayInv /\ DelayedInv /\ [Next]_vars
      => [Promise!Next]_(Promise!vars)
  BY NextPromised
<1>3. Spec => [](TicketInv /\ DelayInv /\ DelayedInv)
  BY TicketInvariant, DelayInvariant, DelayedInvariant, PTL
<1> QED
  BY <1>1, <1>2, <1>3, PTL DEF Spec, LimiterSpec, Promise!Spec

=============================================================================
