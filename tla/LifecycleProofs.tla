--------------------------- MODULE LifecycleProofs --------------------------
(***************************************************************************)
(* Theorems about Lifecycle, for any number of processes and threads and   *)
(* any number of them killed: what a process has found before it           *)
(* intercepts calls, where it can fault and why, and who wakes the threads *)
(* that wait for the mutex.                                                *)
(***************************************************************************)
EXTENDS Lifecycle, FiniteSetTheorems, TLAPS

\* Where a process is once it has first touched a segment.
PastInit == {"patch", "run", "close", "unpatch", "free", "end"}
PastWait == PastInit \cup {"init"}
PastData == PastWait \cup {"param", "param_size", "publish", "wait"}

\* A process that is past a place has found what it looked for there; no
\* segment is ever removed or cut short.
Found(p) ==
    /\ st[p] \in PastData => seg["dt"] = "sized"
    /\ st[p] \in PastWait \cup {"publish"} => seg["param"] = "sized"
    /\ st[p] \in PastWait => ready
    /\ st[p] \in PastInit => seg["mutex"] = "sized"

\* Functions are patched between InitMutex and finalize, and finalize unmaps
\* first.
Patched(p) ==
    /\ hook[p] # "off" => st[p] \in {"patch", "run", "close", "unpatch"}
    /\ st[p] \in {"run", "close"} => hook[p] = "on" /\ p \in mapped
    /\ st[p] = "patch" => hook[p] # "on" /\ p \in mapped
    /\ st[p] \in {"unpatch", "free"} => p \notin mapped

\* A thread in a wrapper found the patch complete; a main thread has not left.
Calling(t) ==
    /\ pc[t] # "out" =>
          st[ProcessOf[t]] \in {"run", "close", "unpatch", "free", "end"}
    /\ pc[t] # "out" /\ t \in Main => st[ProcessOf[t]] = "run"

Ordered ==
    /\ \A p \in Process : Found(p) /\ Patched(p)
    /\ \A t \in Thread : Calling(t)

\* Where a process is before it waits for the parameters or has made them.
Creation == {"mutex", "mutex_size", "dt", "dt_size", "data_sleep", "param",
             "param_size", "publish"}

\* A segment without its size has a creator on its way to size it, or one that
\* was killed there.
Creators ==
    \A s \in Segment :
        seg[s] = "empty" => s \in undone \/ \E q \in Process : st[q] = Sizing(s)

\* A process all of whose threads are main threads has not faulted in a call.
MainSafe ==
    \A p \in Process :
        Threads(p) \subseteq Main => fault[p] \notin {"segv", "torn"}

IInv == TypeOK /\ Ordered /\ Creators /\ MainSafe /\ SleepersHaveWaker

USE DEF Segment

-----------------------------------------------------------------------------
(* The end of a process.                                                   *)

\* The place where a creator sizes its segment is its own, and comes early.
LEMMA SizingPlace ==
    ASSUME NEW s \in Segment
    PROVE  /\ Sizing(s) \in Creation \ {"mutex", "dt", "data_sleep", "param",
                                        "publish"}
           /\ \A r \in Segment : Sizing(r) = Sizing(s) => r = s
PROOF
<1>1. CASE s = "mutex"  BY <1>1 DEF Sizing, Creation
<1>2. CASE s = "dt"     BY <1>2 DEF Sizing, Creation
<1>3. CASE s = "param"  BY <1>3 DEF Sizing, Creation
<1> QED  BY <1>1, <1>2, <1>3

\* Who goes away holding the mutex, or woken to take it, is remembered.
LEMMA EndWaits ==
    ASSUME IInv, NEW p \in Process, End(p)
    PROVE  SleepersHaveWaker'
PROOF
<1> USE DEF End
<1>1. \A u \in Thread :
         /\ u \notin Threads(p) => pc'[u] = pc[u]
         /\ u \in Threads(p) => pc'[u] = "out"
  BY DEF IInv, TypeOK, Threads
<1>2. orphan' <=> orphan \/ \E u \in Threads(p) : pc[u] \in {"hold", "woken"}
  OBVIOUS
<1>3. word' # 0 => orphan' \/ \E u \in Thread : pc'[u] = "hold"
  BY <1>1, <1>2 DEF IInv, SleepersHaveWaker
<1>4. ASSUME NEW t \in Asleep'
      PROVE  orphan' \/ t \in lost' \/ word' = 2
             \/ \E u \in Thread : pc'[u] = "woken"
  <2>1. t \in Asleep /\ t \notin Threads(p)
    BY <1>1, <1>4 DEF Asleep
  <2> QED  BY <1>1, <1>2, <2>1 DEF IInv, SleepersHaveWaker
<1> QED  BY <1>3, <1>4 DEF SleepersHaveWaker

\* A process that ends, in whatever way, frees what it had and keeps the rest.
LEMMA EndSafe ==
    ASSUME IInv, NEW p \in Process, End(p), killed' \subseteq Process,
           undone \subseteq undone', undone' \subseteq Segment \cup {"publish"},
           \A s \in Segment : st[p] = Sizing(s) => s \in undone',
           fault' \in [Process -> {"none", "bus", "segv", "torn"}],
           MainSafe'
    PROVE  IInv'
PROOF
<1>1. TypeOK'
  <2> USE DEF End, Move, shared
  <2>1. /\ st' = [st EXCEPT ![p] = "dead"] /\ hook' = [hook EXCEPT ![p] = "off"]
        /\ mapped' = mapped \ {p} /\ tramp' = tramp \ {p}
    OBVIOUS
  <2>2. \A q \in Process : /\ hook'[q] # "off" => q \in tramp'
                           /\ st'[q] \in {"none", "end", "dead"} =>
                                 hook'[q] = "off" /\ q \notin tramp' \cup mapped'
    BY <2>1 DEF IInv, TypeOK
  <2>3. /\ st' \in [Process -> {"none", "mutex", "mutex_size", "dt", "dt_size",
                                "data_sleep", "param", "param_size",
                                "publish", "wait", "init", "patch", "run",
                                "close", "unpatch", "free", "end", "dead"}]
        /\ hook' \in [Process -> {"off", "half", "on"}]
        /\ mapped' \subseteq Process /\ tramp' \subseteq Process
    BY <2>1 DEF IInv, TypeOK
  <2>4. pc' \in [Thread -> {"out", "wrapper", "post", "asleep",
                            "woken", "hold"}]
    BY DEF IInv, TypeOK
  <2>5. orphan' \in BOOLEAN /\ lost' \subseteq Thread /\ word' \in 0 .. 2
    BY DEF IInv, TypeOK
  <2>6. /\ ready' \in BOOLEAN
        /\ seg' \in [Segment -> {"none", "empty", "sized"}]
    BY DEF IInv, TypeOK
  <2> QED
    BY <2>2, <2>3, <2>4, <2>5, <2>6 DEF TypeOK
<1>2. \A q \in Process : Found(q)' /\ Patched(q)'
  BY DEF IInv, TypeOK, Ordered, Found, Patched, End, Move, shared, PastInit,
         PastWait, PastData
<1>3. \A t \in Thread : Calling(t)'
  BY LifecycleAssumption
  DEF IInv, TypeOK, Ordered, Calling, End, Move, shared
<1>4. Creators'
  <2>1. ASSUME NEW s \in Segment, seg'[s] = "empty", s \notin undone'
        PROVE  \E q \in Process : st'[q] = Sizing(s)
    <3>1. PICK q \in Process : st[q] = Sizing(s)
      BY <2>1 DEF End, shared, IInv, Creators
    <3>2. q # p
      BY <2>1, <3>1
    <3> QED  BY <3>1, <3>2 DEF End, Move, IInv, TypeOK
  <2>2. \A s \in Segment : Sizing(s)' = Sizing(s)
    BY DEF Sizing
  <2> QED  BY <2>1, <2>2 DEF Creators
<1>5. SleepersHaveWaker'
  BY EndWaits
<1> QED  BY <1>1, <1>2, <1>3, <1>4, <1>5 DEF IInv, Ordered

\* A fault ends a process that sizes nothing; a process with one thread meets
\* bus errors only.
LEMMA FailSafe ==
    ASSUME IInv, NEW p \in Process, NEW f \in {"bus", "segv", "torn"},
           Fail(p, f), \A s \in Segment : st[p] # Sizing(s),
           Threads(p) \subseteq Main => f = "bus"
    PROVE  IInv'
PROOF
<1>1. /\ End(p) /\ fault' = [fault EXCEPT ![p] = f] /\ killed' = killed
      /\ undone' = undone
  BY DEF Fail, past
<1>2. fault' \in [Process -> {"none", "bus", "segv", "torn"}]
  BY <1>1 DEF IInv, TypeOK
<1>3. MainSafe'
  BY <1>1 DEF IInv, TypeOK, MainSafe, Threads
<1> QED  BY <1>1, <1>2, <1>3, EndSafe DEF IInv, TypeOK

\* A kill ends a process and may leave its segment without a size.
LEMMA KillSafe ==
    ASSUME IInv, NEW p \in Process, Kill(p)
    PROVE  IInv'
PROOF
<1>1. /\ End(p) /\ fault' = fault /\ killed' = killed \cup {p}
      /\ undone' = undone \cup {s \in Segment : st[p] = Sizing(s)}
                          \cup ({st[p]} \cap {"publish"})
  BY DEF Kill
<1>2. MainSafe'
  BY <1>1 DEF IInv, MainSafe, Threads
<1>3. /\ undone \subseteq undone' /\ undone' \subseteq Segment \cup {"publish"}
      /\ \A s \in Segment : st[p] = Sizing(s) => s \in undone'
  BY <1>1 DEF IInv, TypeOK
<1>4. /\ killed' \subseteq Process
      /\ fault' \in [Process -> {"none", "bus", "segv", "torn"}]
  BY <1>1 DEF IInv, TypeOK
<1> QED  BY <1>1, <1>2, <1>3, <1>4, EndSafe

\* A process that quits has been through finalize.
LEMMA QuitSafe ==
    ASSUME IInv, NEW p \in Process, Quit(p)
    PROVE  IInv'
PROOF
<1>1. End(p) /\ fault' = fault /\ killed' = killed /\ undone' = undone
  BY DEF Quit, past
<1>2. \A s \in Segment : st[p] # Sizing(s)
  BY SizingPlace DEF Quit, Creation
<1>3. MainSafe'
  BY <1>1 DEF IInv, MainSafe, Threads
<1> QED  BY <1>1, <1>2, <1>3, EndSafe DEF IInv, TypeOK

-----------------------------------------------------------------------------
(* The constructor.                                                        *)

\* A process that moves on outside the patch and the mappings.
LEMMA MoveSafe ==
    ASSUME IInv, NEW p \in Process, NEW l, Move(p, l),
           UNCHANGED <<mutex, mapped, hook, tramp, pc, fault, past>>,
           st[p] \in Creation \cup {"none", "wait"},
           l \in Creation \cup {"wait", "init"},
           ready' \in BOOLEAN, ready => ready',
           seg' \in [Segment -> {"none", "empty", "sized"}],
           \A s \in Segment : seg[s] = "sized" => seg'[s] = "sized",
           \A s \in Segment : seg'[s] = "empty" =>
              \/ l = Sizing(s)
              \/ seg[s] = "empty" /\ st[p] # Sizing(s),
           Found(p)'
    PROVE  IInv'
PROOF
<1> USE DEF mutex, past
<1>0. /\ st'[p] = l /\ st[p] \notin PastInit /\ l \notin PastInit
      /\ \A q \in Process : q # p => st'[q] = st[q]
  BY DEF IInv, TypeOK, Move, PastInit, Creation
<1>1. TypeOK'
  BY DEF IInv, TypeOK, Move, Creation
<1>2. \A q \in Process : Found(q)'
  BY <1>0 DEF IInv, Ordered, Found
<1>3. \A q \in Process : Patched(q)'
  BY <1>0 DEF IInv, Ordered, Patched, PastInit
<1>4. \A t \in Thread : Calling(t)'
  BY <1>0, LifecycleAssumption DEF IInv, Ordered, Calling, PastInit
<1>5. Creators'
  <2>1. ASSUME NEW s \in Segment, seg'[s] = "empty", s \notin undone
        PROVE  \E q \in Process : st'[q] = Sizing(s)
    <3>1. CASE l = Sizing(s)
      BY <3>1, <1>0
    <3>2. CASE seg[s] = "empty" /\ st[p] # Sizing(s)
      <4>1. PICK q \in Process : st[q] = Sizing(s)
        BY <2>1, <3>2 DEF IInv, Creators
      <4> QED  BY <4>1, <3>2, <1>0
    <3> QED  BY <2>1, <3>1, <3>2
  <2>2. \A s \in Segment : Sizing(s)' = Sizing(s)
    BY DEF Sizing
  <2> QED  BY <2>1, <2>2 DEF Creators
<1>6. MainSafe' /\ SleepersHaveWaker'
  BY DEF IInv, MainSafe, Threads, SleepersHaveWaker, Asleep
<1> QED  BY <1>1, <1>2, <1>3, <1>4, <1>5, <1>6 DEF IInv, Ordered

\* A process that begins has found nothing yet.
LEMMA BeginSafe ==
    ASSUME IInv, NEW p \in Process, Begin(p)
    PROVE  IInv'
PROOF
<1> USE DEF Begin, shared
<1>1. Found(p)'
  BY DEF IInv, TypeOK, Found, Move, PastInit, PastWait, PastData
<1>2. \A s \in Segment : st[p] # Sizing(s)
  BY SizingPlace DEF Creation
<1> QED  BY <1>1, <1>2, MoveSafe DEF IInv, TypeOK, Creation

\* A segment is created empty, or found as its creator left it.
LEMMA OpenSafe ==
    ASSUME IInv, NEW p \in Process, NEW s \in Segment, Open(p, s)
    PROVE  IInv'
PROOF
<1> USE DEF Open
<1>1. PICK l \in Creation \cup {"wait"} : Move(p, l)
           /\ \/ /\ seg[s] = "none" /\ seg' = [seg EXCEPT ![s] = "empty"]
                 /\ l = Sizing(s)
              \/ /\ seg[s] # "none" /\ UNCHANGED seg
                 /\ \/ s = "mutex" /\ l = "dt"
                    \/ s = "dt" /\ l = "data_sleep"
                    \/ s = "param" /\ l = "wait"
  <2>1. CASE s = "mutex"  BY <2>1, SizingPlace DEF After, Creation
  <2>2. CASE s = "dt"     BY <2>2, SizingPlace DEF After, Creation
  <2>3. CASE s = "param"  BY <2>3, SizingPlace DEF After, Creation
  <2> QED  BY <2>1, <2>2, <2>3
<1>2. st[p] = s /\ st' = [st EXCEPT ![p] = l]
  BY <1>1 DEF Move
<1>3. /\ seg' \in [Segment -> {"none", "empty", "sized"}]
      /\ \A r \in Segment : seg[r] = "sized" => seg'[r] = "sized"
  BY <1>1 DEF IInv, TypeOK
<1>4. l = Sizing(s) => l \in {"mutex_size", "dt_size", "param_size"}
      /\ (l = "param_size" => s = "param") /\ (l = "dt_size" => s = "dt")
  BY SizingPlace DEF Sizing
<1>5. Found(p)'
  BY <1>1, <1>2, <1>3, <1>4
  DEF IInv, TypeOK, Ordered, Found, PastInit, PastWait, PastData, Creation
<1>6. \A r \in Segment : seg'[r] = "empty" =>
         l = Sizing(r) \/ (seg[r] = "empty" /\ st[p] # Sizing(r))
  BY <1>1, <1>2, SizingPlace DEF IInv, TypeOK, Creation
<1> QED  BY <1>1, <1>2, <1>3, <1>5, <1>6, MoveSafe DEF IInv, TypeOK, Creation

\* Sizing a segment is never undone.
LEMMA TruncateSafe ==
    ASSUME IInv, NEW p \in Process, NEW s \in Segment, Truncate(p, s)
    PROVE  IInv'
PROOF
<1> USE DEF Truncate
<1>1. PICK l \in Creation : Move(p, l)
           /\ \/ s = "mutex" /\ st[p] = "mutex_size" /\ l = "dt"
              \/ s = "dt" /\ st[p] = "dt_size" /\ l = "data_sleep"
              \/ s = "param" /\ st[p] = "param_size" /\ l = "publish"
  <2>1. CASE s = "mutex"  BY <2>1 DEF After, Sizing, Creation
  <2>2. CASE s = "dt"     BY <2>2 DEF After, Sizing, Creation
  <2>3. CASE s = "param"  BY <2>3 DEF After, Sizing, Creation
  <2> QED  BY <2>1, <2>2, <2>3
<1>2. st' = [st EXCEPT ![p] = l] /\ seg' = [seg EXCEPT ![s] = "sized"]
  BY <1>1 DEF Move
<1>3. /\ seg' \in [Segment -> {"none", "empty", "sized"}]
      /\ \A r \in Segment : seg[r] = "sized" => seg'[r] = "sized"
  BY <1>2 DEF IInv, TypeOK
<1>4. Found(p)'
  BY <1>1, <1>2, <1>3
  DEF IInv, TypeOK, Ordered, Found, PastInit, PastWait, PastData, Creation
<1>5. \A r \in Segment : seg'[r] = "empty" =>
         seg[r] = "empty" /\ st[p] # Sizing(r)
  BY <1>2, SizingPlace DEF IInv, TypeOK
<1> QED  BY <1>1, <1>2, <1>3, <1>4, <1>5, MoveSafe DEF IInv, TypeOK, Creation

\* The first access finds the segment sized, or ends the process.
LEMMA InitDataSleepSafe ==
    ASSUME IInv, NEW p \in Process, InitDataSleep(p)
    PROVE  IInv'
PROOF
<1> USE DEF InitDataSleep, shared
<1>0. \A s \in Segment : st[p] # Sizing(s)
  BY SizingPlace
<1>1. CASE seg["dt"] = "empty" /\ Fail(p, "bus")
  BY <1>0, <1>1, FailSafe
<1>2. CASE /\ seg["dt"] = "sized" /\ Move(p, "param")
           /\ UNCHANGED <<shared, mutex, mapped, hook, tramp, pc, fault, past>>
  <2>1. Found(p)'
    BY <1>2 DEF IInv, TypeOK, Found, Move, PastInit, PastWait, PastData
  <2> QED  BY <1>0, <1>2, <2>1, MoveSafe DEF IInv, TypeOK, Creation
<1> QED  BY <1>1, <1>2

\* Publishing comes after all three segments were sized.
LEMMA PublishSafe ==
    ASSUME IInv, NEW p \in Process, Publish(p)
    PROVE  IInv'
PROOF
<1> USE DEF Publish
<1>1. Found(p)'
  BY DEF IInv, TypeOK, Ordered, Found, Move, PastInit, PastWait, PastData
<1>2. \A s \in Segment : st[p] # Sizing(s)
  BY SizingPlace
<1> QED  BY <1>1, <1>2, MoveSafe DEF IInv, TypeOK, Creation

\* Who has waited for the ready word has found the parameters published.
LEMMA WaitSafe ==
    ASSUME IInv, NEW p \in Process, Wait(p)
    PROVE  IInv'
PROOF
<1> USE DEF Wait, shared
<1>0. \A s \in Segment : st[p] # Sizing(s)
  BY SizingPlace DEF Creation
<1>1. CASE seg["param"] = "empty" /\ Fail(p, "bus")
  BY <1>0, <1>1, FailSafe
<1>2. CASE /\ seg["param"] = "sized" /\ ready /\ Move(p, "init")
           /\ UNCHANGED <<shared, mutex, mapped, hook, tramp, pc, fault, past>>
  <2>1. Found(p)'
    BY <1>2
    DEF IInv, TypeOK, Ordered, Found, Move, PastInit, PastWait, PastData
  <2> QED  BY <1>0, <1>2, <2>1, MoveSafe DEF IInv, TypeOK, Creation
<1> QED  BY <1>1, <1>2

-----------------------------------------------------------------------------
(* Patching, exit and the destructor; the segments stay as they are.       *)

\* A process moves on after InitMutex has begun.
LEMMA LaterSafe ==
    ASSUME IInv, NEW p \in Process, NEW l \in PastInit,
           st' = [st EXCEPT ![p] = l], UNCHANGED <<shared, pc, fault, past>>,
           word' \in 0 .. 2, orphan' \in BOOLEAN, lost' \subseteq Thread,
           SleepersHaveWaker',
           st[p] \in PastInit \cup {"init"},
           mapped' \subseteq Process, tramp' \subseteq Process,
           hook' \in [Process -> {"off", "half", "on"}],
           \A q \in Process : q # p =>
              /\ q \in mapped' <=> q \in mapped
              /\ q \in tramp' <=> q \in tramp
              /\ hook'[q] = hook[q],
           hook'[p] # "off" => p \in tramp',
           l = "end" => hook'[p] = "off" /\ p \notin tramp' \cup mapped',
           Found(p)', Patched(p)', \A t \in Threads(p) : Calling(t)'
    PROVE  IInv'
PROOF
<1> USE DEF shared, past
<1>0. st'[p] = l /\ \A q \in Process : q # p => st'[q] = st[q]
  BY DEF IInv, TypeOK
<1>1. TypeOK'
  <2>1. \A q \in Process :
           /\ hook'[q] # "off" => q \in tramp'
           /\ st'[q] \in {"none", "end", "dead"} =>
                 hook'[q] = "off" /\ q \notin tramp' \cup mapped'
    BY <1>0 DEF IInv, TypeOK, PastInit
  <2>2. st' \in [Process -> {"none", "mutex", "mutex_size", "dt", "dt_size",
                            "data_sleep", "param", "param_size", "publish",
                            "wait", "init", "patch", "run", "close",
                            "unpatch", "free", "end", "dead"}]
    BY DEF IInv, TypeOK, PastInit
  <2> QED  BY <2>1, <2>2 DEF IInv, TypeOK
<1>2. \A q \in Process : Found(q)'
  BY <1>0 DEF IInv, Ordered, Found
<1>3. \A q \in Process : Patched(q)'
  BY <1>0 DEF IInv, Ordered, Patched
<1>4. \A t \in Thread : Calling(t)'
  BY <1>0, LifecycleAssumption DEF IInv, Ordered, Calling, Threads
<1>5. Creators'
  <2>1. ASSUME NEW s \in Segment, seg[s] = "empty", s \notin undone
        PROVE  \E q \in Process : st'[q] = Sizing(s)
    <3>1. PICK q \in Process : st[q] = Sizing(s)
      BY <2>1 DEF IInv, Creators
    <3>2. q # p
      BY <3>1, SizingPlace DEF PastInit, Creation
    <3> QED  BY <3>1, <3>2, <1>0
  <2>2. \A s \in Segment : Sizing(s)' = Sizing(s)
    BY DEF Sizing
  <2> QED  BY <2>1, <2>2 DEF Creators
<1>6. MainSafe'
  BY DEF IInv, MainSafe, Threads
<1> QED  BY <1>1, <1>2, <1>3, <1>4, <1>5, <1>6 DEF IInv, Ordered

\* The mutexes are initialised, whoever holds them, in a segment with a size;
\* whoever sleeps there is lost.
LEMMA InitMutexSafe ==
    ASSUME IInv, NEW p \in Process, InitMutex(p)
    PROVE  IInv'
PROOF
<1> USE DEF InitMutex, Move, shared
<1>1. CASE seg["mutex"] = "empty" /\ Fail(p, "bus")
  <2>1. \A s \in Segment : st[p] # Sizing(s)
    BY SizingPlace DEF Creation
  <2> QED  BY <1>1, <2>1, FailSafe
<1>2. CASE /\ seg["mutex"] = "sized"
           /\ word' = 0 /\ orphan' = FALSE /\ lost' = Asleep
           /\ mapped' = mapped \cup {p}
           /\ st' = [st EXCEPT ![p] = "patch"]
           /\ UNCHANGED <<shared, hook, tramp, pc, fault, past>>
  <2>1. Found(p)' /\ Patched(p)'
    BY <1>2 DEF IInv, TypeOK, Ordered, Found, Patched, PastInit, PastWait,
                PastData
  <2>2. \A t \in Threads(p) : Calling(t)'
    BY <1>2 DEF IInv, TypeOK, Ordered, Calling, Threads
  <2>3. SleepersHaveWaker' /\ lost' \subseteq Thread
    BY <1>2 DEF SleepersHaveWaker, Asleep
  <2>4. /\ mapped' \subseteq Process /\ tramp' \subseteq Process
        /\ hook' \in [Process -> {"off", "half", "on"}]
        /\ hook'[p] # "off" => p \in tramp'
    BY <1>2 DEF IInv, TypeOK
  <2>6. "patch" \in PastInit /\ word' \in 0 .. 2
    BY <1>2, SMT DEF PastInit
  <2>7. orphan' \in BOOLEAN
    BY <1>2, Zenon
  <2>5. /\ st' = [st EXCEPT ![p] = "patch"] /\ UNCHANGED <<shared, pc, fault, past>>
        /\ st[p] \in PastInit \cup {"init"}
        /\ \A q \in Process : q # p =>
              /\ q \in mapped' <=> q \in mapped
              /\ q \in tramp' <=> q \in tramp
              /\ hook'[q] = hook[q]
    BY <1>2
  <2> HIDE DEF InitMutex, Move, shared
  <2> QED  BY <2>1, <2>2, <2>3, <2>4, <2>5, <2>6, <2>7, LaterSafe
<1> QED  BY <1>1, <1>2

\* Hooks are patched after the segments were found.
LEMMA PatchSafe ==
    ASSUME IInv, NEW p \in Process, Patch(p)
    PROVE  IInv'
PROOF
<1> USE DEF Patch, Move, shared
<1>0. SleepersHaveWaker'
  BY DEF IInv, SleepersHaveWaker, Asleep, mutex
<1>1. Found(p) /\ Patched(p)
  BY DEF IInv, Ordered
<1>2. \A t \in Threads(p) : pc[t] = "out"
  BY DEF IInv, Ordered, Calling, Threads
<1>3. CASE hook[p] = "off"
  <2>1. hook' = [hook EXCEPT ![p] = "half"] /\ st' = [st EXCEPT ![p] = "patch"]
    BY <1>3 DEF IInv, TypeOK
  <2>2. Found(p)' /\ Patched(p)' /\ \A t \in Threads(p) : Calling(t)'
    BY <1>1, <1>2, <2>1
    DEF IInv, TypeOK, Found, Patched, Calling, PastInit, PastWait, PastData
  <2> QED
    BY <1>0, <1>1, <2>1, <2>2, LaterSafe
    DEF mutex, IInv, TypeOK, PastInit
<1>4. CASE hook[p] = "half"
  <2>1. hook' = [hook EXCEPT ![p] = "on"] /\ st' = [st EXCEPT ![p] = "run"]
    BY <1>4
  <2>2. Found(p)' /\ Patched(p)' /\ \A t \in Threads(p) : Calling(t)'
    BY <1>1, <1>2, <2>1
    DEF IInv, TypeOK, Found, Patched, Calling, PastInit, PastWait, PastData
  <2> QED
    BY <1>0, <1>1, <2>1, <2>2, LaterSafe
    DEF mutex, IInv, TypeOK, PastInit
<1> QED  BY <1>3, <1>4

\* Exit, Close, Unpatch and Free: the process leaves run, or goes on.
LEMMA LeaveSafe ==
    ASSUME IInv, NEW p \in Process,
           Exit(p) \/ Close(p) \/ Unpatch(p) \/ Free(p)
    PROVE  IInv'
PROOF
<1> USE DEF Move, shared
<1>0. SleepersHaveWaker' /\ UNCHANGED mutex
  BY DEF IInv, SleepersHaveWaker, Asleep, mutex, Exit, Close, Unpatch, Free
<1>1. Found(p) /\ Patched(p)
  BY DEF IInv, Ordered
<1>2. \A t \in Threads(p) : t \in Main => pc[t] = "out"
  BY DEF IInv, Ordered, Calling, Threads, Exit, Close, Unpatch, Free
<1>3. CASE Exit(p)
  <2>1. Found(p)' /\ Patched(p)' /\ \A t \in Threads(p) : Calling(t)'
    BY <1>1, <1>2, <1>3
    DEF IInv, TypeOK, Found, Patched, Calling, Threads, PastInit, PastWait,
        PastData, Exit
  <2> QED
    BY <1>0, <1>1, <1>3, <2>1, LaterSafe
    DEF mutex, IInv, TypeOK, PastInit, Exit
<1>4. CASE Close(p)
  <2>1. Found(p)' /\ Patched(p)' /\ \A t \in Threads(p) : Calling(t)'
    BY <1>1, <1>2, <1>4
    DEF IInv, TypeOK, Found, Patched, Calling, Threads, PastInit, PastWait,
        PastData, Close
  <2> QED
    BY <1>0, <1>1, <1>4, <2>1, LaterSafe
    DEF mutex, IInv, TypeOK, PastInit, Close
<1>5. CASE Unpatch(p)
  <2>1. PICK l \in {"unpatch", "free"} :
           /\ st' = [st EXCEPT ![p] = l]
           /\ l = "unpatch" => hook' = [hook EXCEPT ![p] = "half"]
                               /\ hook[p] = "on"
           /\ l = "free" => hook' = [hook EXCEPT ![p] = "off"]
    BY <1>5 DEF IInv, TypeOK, Unpatch
  <2>2. Found(p)' /\ Patched(p)' /\ \A t \in Threads(p) : Calling(t)'
    BY <1>1, <1>2, <1>5, <2>1
    DEF IInv, TypeOK, Found, Patched, Calling, Threads, PastInit, PastWait,
        PastData, Unpatch
  <2>3. /\ hook' \in [Process -> {"off", "half", "on"}]
        /\ \A q \in Process : q # p => hook'[q] = hook[q]
        /\ hook'[p] # "off" => p \in tramp'
    BY <1>5, <2>1 DEF IInv, TypeOK, Unpatch
  <2>4. /\ l \in PastInit /\ st[p] \in PastInit /\ l # "end"
        /\ UNCHANGED <<shared, mutex, mapped, tramp, pc, fault, past>>
    BY <1>5, <2>1 DEF PastInit, Unpatch
  <2>5. /\ word' \in 0 .. 2 /\ orphan' \in BOOLEAN /\ lost' \subseteq Thread
        /\ mapped' \subseteq Process /\ tramp' \subseteq Process
    BY <2>4 DEF mutex, IInv, TypeOK
  <2> HIDE DEF Move, shared
  <2> QED  BY <1>0, <2>1, <2>2, <2>3, <2>4, <2>5, LaterSafe
<1>6. CASE Free(p)
  <2>1. Found(p)' /\ Patched(p)' /\ \A t \in Threads(p) : Calling(t)'
    BY <1>1, <1>2, <1>6
    DEF IInv, TypeOK, Found, Patched, Calling, Threads, PastInit, PastWait,
        PastData, Free
  <2> QED
    BY <1>0, <1>1, <1>6, <2>1, LaterSafe
    DEF mutex, IInv, TypeOK, PastInit, Free, Patched
<1> QED  BY <1>3, <1>4, <1>5, <1>6

-----------------------------------------------------------------------------
(* Calls.                                                                  *)

\* A thread in a call, or about to enter a patched function, belongs to a
\* process past the constructor; if it is a main thread, all is in place.
LEMMA CallerReady ==
    ASSUME IInv, NEW t \in Thread,
           \/ pc[t] # "out"
           \/ /\ hook[ProcessOf[t]] # "off"
              /\ t \in Main => st[ProcessOf[t]] \in {"run", "end"}
    PROVE  /\ ProcessOf[t] \in Process /\ st[ProcessOf[t]] \in PastInit
           /\ Threads(ProcessOf[t]) \subseteq Main =>
                 /\ st[ProcessOf[t]] = "run" /\ hook[ProcessOf[t]] = "on"
                 /\ ProcessOf[t] \in mapped /\ ProcessOf[t] \in tramp
PROOF
<1>1. ProcessOf[t] \in Process /\ t \in Threads(ProcessOf[t])
  BY LifecycleAssumption DEF Threads
<1>2. Found(ProcessOf[t]) /\ Patched(ProcessOf[t]) /\ Calling(t)
  BY <1>1 DEF IInv, Ordered
<1>3. st[ProcessOf[t]] \in PastInit
  BY <1>2 DEF Patched, Calling, PastInit
<1> QED
  BY <1>1, <1>2, <1>3
  DEF IInv, TypeOK, Found, Patched, Calling, PastWait

\* A process whose threads make calls sizes no segment any more.
LEMMA SizesNothing ==
    ASSUME NEW p \in Process, st[p] \in PastInit
    PROVE  \A s \in Segment : st[p] # Sizing(s)
PROOF
<1> QED  BY SizingPlace DEF PastInit, Creation

\* Threads change places within their calls; nothing fails.
LEMMA CallsSafe ==
    ASSUME IInv, UNCHANGED <<shared, proc, fault, past>>,
           pc' \in [Thread -> {"out", "wrapper", "post", "asleep", "woken",
                               "hold"}],
           word' \in 0 .. 2, lost' \subseteq Thread, UNCHANGED orphan,
           SleepersHaveWaker',
           \A u \in Thread : pc'[u] # pc[u] =>
              \/ pc[u] # "out"
              \/ /\ hook[ProcessOf[u]] = "on"
                 /\ u \in Main => st[ProcessOf[u]] \in {"run", "end"}
    PROVE  IInv'
PROOF
<1> USE DEF shared, proc, past
<1>1. TypeOK'
  BY DEF IInv, TypeOK
<1>2. MainSafe' /\ Creators'
  BY DEF IInv, MainSafe, Creators, Sizing, Threads
<1>3. \A q \in Process : Found(q)' /\ Patched(q)'
  BY DEF IInv, Ordered, Found, Patched
<1>4. ASSUME NEW u \in Thread
      PROVE  Calling(u)'
  <2>1. CASE pc[u] # "out" \/ pc'[u] = pc[u]
    BY <2>1 DEF IInv, Ordered, Calling
  <2>2. CASE /\ hook[ProcessOf[u]] = "on"
             /\ u \in Main => st[ProcessOf[u]] \in {"run", "end"}
    BY <2>2, LifecycleAssumption DEF IInv, Ordered, Patched, Calling
  <2> QED  BY <2>1, <2>2
<1> QED  BY <1>1, <1>2, <1>3, <1>4 DEF IInv, Ordered

\* A call that runs half a patch belongs to a process of several threads.
LEMMA CallSafe ==
    ASSUME IInv, NEW t \in Thread, Call(t)
    PROVE  IInv'
PROOF
<1> DEFINE p == ProcessOf[t]
<1>1. CASE hook[p] = "half" /\ Fail(p, "torn")
  <2>1. /\ p \in Process /\ st[p] \in PastInit
        /\ ~(Threads(p) \subseteq Main)
    BY <1>1, CallerReady DEF Call
  <2> QED  BY <1>1, <2>1, FailSafe, SizesNothing
<1>2. CASE /\ hook[p] = "on" /\ Goto(t, "wrapper")
           /\ UNCHANGED <<shared, mutex, proc, fault, past>>
  <2>1. /\ pc' = [pc EXCEPT ![t] = "wrapper"] /\ pc[t] = "out"
        /\ word' = word /\ orphan' = orphan /\ lost' = lost
    BY <1>2 DEF Goto, Call, mutex
  <2>2. SleepersHaveWaker'
    BY <2>1 DEF IInv, TypeOK, SleepersHaveWaker, Asleep
  <2>3. /\ pc' \in [Thread -> {"out", "wrapper", "post", "asleep", "woken",
                               "hold"}]
        /\ \A u \in Thread \ {t} : pc'[u] = pc[u]
        /\ t \in Main => st[p] \in {"run", "end"}
        /\ word' \in 0 .. 2 /\ lost' \subseteq Thread
    BY <2>1 DEF IInv, TypeOK, Call
  <2> QED  BY <1>2, <2>1, <2>2, <2>3, CallsSafe
<1> QED  BY <1>1, <1>2 DEF Call

\* The way to the original function touches no mutex.
LEMMA RealSafe ==
    ASSUME IInv, NEW t \in Thread, Real(t),
           ProcessOf[t] \in tramp
    PROVE  IInv'
PROOF
<1>1. /\ pc' = [pc EXCEPT ![t] = "post"] /\ pc[t] = "wrapper"
      /\ word' = word /\ orphan' = orphan /\ lost' = lost
      /\ UNCHANGED <<shared, proc, fault, past>>
  BY DEF Goto, Real, mutex
<1>2. SleepersHaveWaker'
  BY <1>1 DEF IInv, TypeOK, SleepersHaveWaker, Asleep
<1>3. /\ pc' \in [Thread -> {"out", "wrapper", "post", "asleep",
                             "woken", "hold"}]
      /\ \A u \in Thread : pc'[u] # pc[u] => pc[u] # "out"
      /\ word' \in 0 .. 2 /\ lost' \subseteq Thread
  BY <1>1 DEF IInv, TypeOK
<1> QED  BY <1>1, <1>2, <1>3, CallsSafe

\* Who takes the mutex after a sleep marks it for the other sleepers.
LEMMA AcquireSafe ==
    ASSUME IInv, NEW t \in Thread, Acquire(t)
    PROVE  IInv'
PROOF
<1>1. /\ pc' = [pc EXCEPT ![t] = "hold"] /\ pc[t] \in {"post", "woken"}
      /\ word = 0 /\ word' = IF pc[t] = "post" THEN 1 ELSE 2
      /\ orphan' = orphan /\ lost' = lost
      /\ UNCHANGED <<shared, proc, fault, past>>
  BY DEF Goto, Acquire
<1>2. pc'[t] = "hold" /\ \A u \in Thread \ {t} : pc'[u] = pc[u]
  BY <1>1 DEF IInv, TypeOK
<1>3. ASSUME NEW u \in Asleep'
      PROVE  orphan' \/ u \in lost' \/ word' = 2
             \/ \E v \in Thread : pc'[v] = "woken"
  <2>1. u \in Asleep
    BY <1>2, <1>3 DEF Asleep
  <2>2. orphan \/ u \in lost \/ \E v \in Thread : pc[v] = "woken"
    BY <1>1, <2>1 DEF IInv, SleepersHaveWaker
  <2>3. ASSUME NEW v \in Thread, pc[v] = "woken"
        PROVE  word' = 2 \/ pc'[v] = "woken"
    BY <1>1, <1>2, <2>3
  <2> QED  BY <1>1, <2>2, <2>3
<1>4. SleepersHaveWaker'
  BY <1>2, <1>3 DEF SleepersHaveWaker
<1>5. /\ pc' \in [Thread -> {"out", "wrapper", "post", "asleep",
                             "woken", "hold"}]
      /\ \A u \in Thread : pc'[u] # pc[u] => pc[u] # "out"
      /\ word' \in 0 .. 2 /\ lost' \subseteq Thread
  BY <1>1 DEF IInv, TypeOK
<1> QED  BY <1>1, <1>4, <1>5, CallsSafe

\* Who sleeps has marked the mutex, and somebody holds it.
LEMMA SleepSafe ==
    ASSUME IInv, NEW t \in Thread, Sleep(t)
    PROVE  IInv'
PROOF
<1>1. /\ pc' = [pc EXCEPT ![t] = "asleep"] /\ pc[t] \in {"post", "woken"}
      /\ word # 0 /\ word' = 2 /\ orphan' = orphan /\ lost' = lost
      /\ UNCHANGED <<shared, proc, fault, past>>
  BY DEF Goto, Sleep
<1>2. \A u \in Thread : pc[u] = "hold" => pc'[u] = "hold"
  BY <1>1 DEF IInv, TypeOK
<1>3. SleepersHaveWaker'
  BY <1>1, <1>2 DEF IInv, SleepersHaveWaker
<1>4. /\ pc' \in [Thread -> {"out", "wrapper", "post", "asleep",
                             "woken", "hold"}]
      /\ \A u \in Thread : pc'[u] # pc[u] => pc[u] # "out"
      /\ word' \in 0 .. 2 /\ lost' \subseteq Thread
  BY <1>1 DEF IInv, TypeOK
<1> QED  BY <1>1, <1>3, <1>4, CallsSafe 

\* Who unlocks a marked mutex wakes a sleeper, if there is one.
LEMMA UnlockSafe ==
    ASSUME IInv, NEW t \in Thread, Unlock(t)
    PROVE  IInv'
PROOF
<1> DEFINE Place == {"out", "wrapper", "post", "asleep", "woken", "hold"}
<1>0. /\ pc[t] = "hold" /\ word' = 0 /\ orphan' = orphan
      /\ UNCHANGED <<shared, proc, fault, past>>
  BY DEF Unlock
<1>1. CASE \E u \in Asleep :
              /\ pc' = [pc EXCEPT ![t] = "out", ![u] = "woken"]
              /\ lost' = lost \ {u}
  <2>1. PICK u \in Asleep :
           /\ pc' = [pc EXCEPT ![t] = "out", ![u] = "woken"]
           /\ lost' = lost \ {u}
    BY <1>1
  <2>2. u \in Thread /\ pc[u] = "asleep" /\ u # t
    BY <1>0 DEF Asleep
  <2>3. pc'[u] = "woken" /\ pc' \in [Thread -> Place]
        /\ \A v \in Thread : v \notin {t, u} => pc'[v] = pc[v]
    BY <2>1, <2>2 DEF IInv, TypeOK
  <2>4. SleepersHaveWaker'
    BY <1>0, <2>2, <2>3 DEF SleepersHaveWaker
  <2>5. lost' \subseteq Thread /\ word' \in 0 .. 2
    BY <1>0, <2>1 DEF IInv, TypeOK
  <2>6. \A v \in Thread : pc'[v] # pc[v] => pc[v] # "out"
    BY <1>0, <2>2, <2>3
  <2> QED  BY <1>0, <2>3, <2>4, <2>5, <2>6, CallsSafe
<1>2. CASE (word # 2 \/ Asleep = {}) /\ Goto(t, "out") /\ UNCHANGED lost
  <2>1. pc' = [pc EXCEPT ![t] = "out"] /\ lost' = lost
    BY <1>2 DEF Goto
  <2>2. pc'[t] = "out" /\ pc' \in [Thread -> Place]
        /\ \A v \in Thread \ {t} : pc'[v] = pc[v]
    BY <2>1 DEF IInv, TypeOK
  <2>3. ASSUME NEW v \in Asleep'
        PROVE  orphan' \/ v \in lost' \/ \E u \in Thread : pc'[u] = "woken"
    <3>1. v \in Asleep
      BY <2>2, <2>3 DEF Asleep
    <3>2. orphan \/ v \in lost \/ \E u \in Thread : pc[u] = "woken"
      BY <1>2, <3>1 DEF IInv, SleepersHaveWaker
    <3>3. \A u \in Thread : pc[u] = "woken" => pc'[u] = "woken"
      BY <1>0, <2>2
    <3> QED  BY <1>0, <2>1, <3>2, <3>3
  <2>4. SleepersHaveWaker'
    BY <1>0, <2>3 DEF SleepersHaveWaker
  <2>5. lost' \subseteq Thread /\ word' \in 0 .. 2
    BY <1>0, <2>1 DEF IInv, TypeOK
  <2>6. \A v \in Thread : pc'[v] # pc[v] => pc[v] # "out"
    BY <1>0, <2>2
  <2> QED  BY <1>0, <2>2, <2>4, <2>5, <2>6, CallsSafe
<1> QED  BY <1>1, <1>2 DEF Unlock

\* A call that misses memory or a trampoline belongs to a process of several
\* threads.
LEMMA InCallSafe ==
    ASSUME IInv, NEW t \in Thread, InCall(t)
    PROVE  IInv'
PROOF
<1>1. pc[t] # "out"
  BY DEF InCall, Real, Acquire, Sleep, Unmapped, Unlock
<1>2. /\ ProcessOf[t] \in Process /\ st[ProcessOf[t]] \in PastInit
      /\ Threads(ProcessOf[t]) \subseteq Main =>
            ProcessOf[t] \in mapped /\ ProcessOf[t] \in tramp
  BY <1>1, CallerReady
<1>3. CASE Fail(ProcessOf[t], "segv")
           /\ (ProcessOf[t] \notin mapped \/ ProcessOf[t] \notin tramp)
  BY <1>2, <1>3, FailSafe, SizesNothing
<1>4. CASE Real(t)
  <2>1. CASE ProcessOf[t] \in tramp
    BY <1>4, <2>1, RealSafe
  <2>2. CASE ProcessOf[t] \notin tramp
    BY <1>3, <1>4, <2>2 DEF Real
  <2> QED  BY <2>1, <2>2
<1>5. CASE Unmapped(t)
  BY <1>3, <1>5 DEF Unmapped
<1> QED
  BY <1>4, <1>5, AcquireSafe, SleepSafe, UnlockSafe DEF InCall

-----------------------------------------------------------------------------
(* The theorems.                                                           *)

\* Only a call that misses memory is a fault of this kind.
LEMMA FaultsOfCalls ==
    ASSUME IInv, [Next]_vars, NEW p \in Process,
           fault'[p] = "segv", fault[p] # "segv"
    PROVE  \E t \in Thread :
              /\ InCall(t) /\ ProcessOf[t] = p
              /\ p \notin mapped \/ p \notin tramp
PROOF
<1>1. ~UNCHANGED fault  OBVIOUS
<1>2. \A q \in Process :
         ~(Begin(q) \/ Kill(q) \/ Exit(q) \/ Publish(q) \/ Patch(q) \/ Close(q)
           \/ Unpatch(q) \/ Free(q) \/ Quit(q))
  BY <1>1 DEF Begin, Kill, Exit, Publish, Patch, Close, Unpatch, Free, Quit
<1>3. \A q \in Process, s \in Segment : ~Open(q, s) /\ ~Truncate(q, s)
  BY <1>1 DEF Open, Truncate
<1>4. \A q \in Process, f \in {"bus", "torn"} : ~Fail(q, f)
  BY DEF Fail, IInv, TypeOK
<1>5. \A q \in Process : ~(InitDataSleep(q) \/ Wait(q) \/ InitMutex(q))
  BY <1>1, <1>4 DEF InitDataSleep, Wait, InitMutex
<1>6. \A t \in Thread : ~Call(t)
  BY <1>1, <1>4, LifecycleAssumption DEF Call
<1>7. PICK t \in Thread : InCall(t)
  BY <1>1, <1>2, <1>3, <1>5, <1>6 DEF Next, Step, vars
<1>8. Fail(ProcessOf[t], "segv")
      /\ (ProcessOf[t] \notin mapped \/ ProcessOf[t] \notin tramp)
  BY <1>1, <1>7 DEF InCall, Real, Acquire, Sleep, Unmapped, Unlock
<1>9. ProcessOf[t] = p
  BY <1>8, LifecycleAssumption DEF Fail, IInv, TypeOK
<1> QED  BY <1>7, <1>8, <1>9

\* Only the first access to a segment without a size is a bus error.
LEMMA FaultsOfStarts ==
    ASSUME IInv, [Next]_vars, NEW p \in Process,
           fault'[p] = "bus", fault[p] # "bus"
    PROVE  /\ st[p] \in {"data_sleep", "wait", "init"}
           /\ \E s \in Segment : seg[s] = "empty"
PROOF
<1>1. ~UNCHANGED fault  OBVIOUS
<1>2. \A q \in Process :
         ~(Begin(q) \/ Kill(q) \/ Exit(q) \/ Publish(q) \/ Patch(q) \/ Close(q)
           \/ Unpatch(q) \/ Free(q) \/ Quit(q))
  BY <1>1 DEF Begin, Kill, Exit, Publish, Patch, Close, Unpatch, Free, Quit
<1>3. \A q \in Process, s \in Segment : ~Open(q, s) /\ ~Truncate(q, s)
  BY <1>1 DEF Open, Truncate
<1>4. \A q \in Process, f \in {"segv", "torn"} : ~Fail(q, f)
  BY DEF Fail, IInv, TypeOK
<1>5. \A t \in Thread : ~Call(t) /\ ~InCall(t)
  BY <1>1, <1>4, LifecycleAssumption
  DEF Call, InCall, Real, Acquire, Sleep, Unmapped, Unlock
<1>6. PICK q \in Process : InitDataSleep(q) \/ Wait(q) \/ InitMutex(q)
  BY <1>1, <1>2, <1>3, <1>5 DEF Next, Step, vars
<1>7. /\ Fail(q, "bus") /\ st[q] \in {"data_sleep", "wait", "init"}
      /\ \E s \in Segment : seg[s] = "empty"
  BY <1>1, <1>6 DEF InitDataSleep, Wait, InitMutex
<1>8. q = p
  BY <1>7 DEF Fail, IInv, TypeOK
<1> QED  BY <1>7, <1>8

\* Each theorem holds in every behaviour: IInv is inductive.
THEOREM Invariant == Spec => []IInv
PROOF
<1>1. Init => IInv
  <2> SUFFICES ASSUME Init PROVE IInv
    OBVIOUS
  <2>1. TypeOK
    <3>1. word \in 0 .. 2
      BY DEF Init
    <3> QED  BY <3>1 DEF Init, TypeOK
  <2>3. Creators /\ MainSafe /\ SleepersHaveWaker
    BY DEF Init, Creators, MainSafe, SleepersHaveWaker, Asleep
  <2>2. Ordered
    BY LifecycleAssumption
    DEF Init, Ordered, Found, Patched, Calling, PastInit, PastWait, PastData
  <2> QED  BY <2>1, <2>2, <2>3 DEF IInv
<1>2. IInv /\ [Next]_vars => IInv'
  <2> SUFFICES ASSUME IInv, [Next]_vars PROVE IInv'
    OBVIOUS
  <2>1. CASE UNCHANGED vars
    BY <2>1
    DEF vars, shared, proc, mutex, past, IInv, TypeOK, Ordered, Found, Patched,
        Calling, Creators, Sizing, MainSafe, Threads, SleepersHaveWaker, Asleep
  <2>2. CASE \E p \in Process : Begin(p) \/ Kill(p) \/ Exit(p) \/ Step(p)
    BY <2>2, BeginSafe, KillSafe, OpenSafe, TruncateSafe, InitDataSleepSafe,
       PublishSafe, WaitSafe, InitMutexSafe, PatchSafe, LeaveSafe, QuitSafe
    DEF Step
  <2>3. CASE \E t \in Thread : Call(t) \/ InCall(t)
    BY <2>3, CallSafe, InCallSafe
  <2> QED  BY <2>1, <2>2, <2>3 DEF Next
<1> QED  BY <1>1, <1>2, PTL DEF Spec

\* Every variable keeps its type, a patched process has trampolines, and after
\* finalize nothing is left (Init_Shared_Mutex, finalize).
THEOREM TypeCorrect == Spec => []TypeOK
PROOF
<1>1. IInv => TypeOK  BY DEF IInv
<1> QED  BY <1>1, Invariant, PTL

\* A process that intercepts calls has found every segment sized and the
\* parameters published, whoever made them and whoever died (Init_Shared_Mutex).
THEOREM ReadyWhenIntercepting == Spec => []InterceptsWhenReady
PROOF
<1>1. IInv => InterceptsWhenReady
  BY DEF IInv, Ordered, Found, Patched, InterceptsWhenReady, PastInit, PastWait,
         PastData
<1> QED  BY <1>1, Invariant, PTL

\* Only a creator that stands between creating a segment and sizing it, or was
\* killed there, brings SIGBUS to another process (Init_Shared_Mutex).
THEOREM BusErrorsFromCreators == Spec => BusFromCreator
PROOF
<1>1. ASSUME IInv, [Next]_vars, NEW p \in Process,
             fault'[p] = "bus", fault[p] # "bus"
      PROVE  \E s \in Segment :
                \/ s \in undone
                \/ \E q \in Process \ {p} : st[q] = Sizing(s)
  <2>1. st[p] \in {"data_sleep", "wait", "init"}
    BY <1>1, FaultsOfStarts
  <2>2. PICK s \in Segment : seg[s] = "empty"
    BY <1>1, FaultsOfStarts
  <2>3. s \in undone \/ \E q \in Process : st[q] = Sizing(s)
    BY <1>1, <2>2 DEF IInv, Creators
  <2>4. st[p] # Sizing(s)
    BY <2>1, SizingPlace DEF Creation
  <2> QED  BY <2>3, <2>4
<1>2. IInv /\ [Next]_vars =>
         [\A p \in Process :
             fault'[p] = "bus" /\ fault[p] # "bus" =>
             \E s \in Segment :
                \/ s \in undone
                \/ \E q \in Process \ {p} : st[q] = Sizing(s)]_vars
  BY <1>1
<1> QED  BY <1>2, Invariant, PTL DEF Spec, BusFromCreator

\* A thread asleep on the mutex has somebody to wake it, unless the one that had
\* the mutex died or a starting process has initialised it (Update_open_Count,
\* init): no wake-up is lost otherwise, with any number of threads.
THEOREM SleepersWoken == Spec => []SleepersHaveWaker
PROOF
<1>1. IInv => SleepersHaveWaker  BY DEF IInv
<1> QED  BY <1>1, Invariant, PTL

\* A process of one thread never faults in a call, whatever the others do and
\* however often it calls while it exits (finalize).
THEOREM SingleThreadsSafe ==
    ASSUME IsFiniteSet(Thread)
    PROVE  Spec => []SingleThreadSafe
PROOF
<1>1. ASSUME NEW p \in Process, Cardinality(Threads(p)) = 1
      PROVE  Threads(p) \subseteq Main
  <2>1. IsFiniteSet(Threads(p))
    BY FS_Subset DEF Threads
  <2>2. PICK u : Threads(p) = {u}
    BY <1>1, <2>1, FS_Singleton
  <2> QED  BY <2>2, LifecycleAssumption DEF Threads
<1>2. IInv => SingleThreadSafe
  BY <1>1 DEF IInv, MainSafe, SingleThreadSafe
<1> QED  BY <1>2, Invariant, PTL

\* In any process memory is missing under a call only once finalize has unmapped
\* it (Close_Shared_Mutex before uninstall_hook).
THEOREM SegvsOnlyAtExit == Spec => SegvOnlyAtExit
PROOF
<1>1. ASSUME IInv, [Next]_vars, NEW p \in Process,
             fault'[p] = "segv", fault[p] # "segv"
      PROVE  st[p] \in {"unpatch", "free", "end"}
  <2>1. PICK t \in Thread :
           /\ InCall(t) /\ ProcessOf[t] = p
           /\ p \notin mapped \/ p \notin tramp
    BY <1>1, FaultsOfCalls
  <2>2. Calling(t) /\ Patched(p) /\ pc[t] # "out"
    BY <1>1, <2>1
    DEF IInv, Ordered, InCall, Real, Acquire, Sleep, Unmapped, Unlock
  <2> QED  BY <1>1, <2>1, <2>2 DEF Calling, Patched, IInv, TypeOK
<1>2. IInv /\ [Next]_vars =>
         [\A p \in Process :
             fault'[p] = "segv" /\ fault[p] # "segv"
             => st[p] \in {"unpatch", "free", "end"}]_vars
  BY <1>1
<1> QED  BY <1>2, Invariant, PTL DEF Spec, SegvOnlyAtExit

=============================================================================
