# A TLA+ verification of ooops

ooops keeps the users of a compute node from overloading a shared file system.
A library preloaded into every process intercepts `open()` and `stat()`, counts
them in memory shared by all processes of a user, and makes a process sleep when
the user's calls come too fast or the file system answers too slowly.  The
operator changes the limits at run time with `set_io_param`; a server and its
clients collect the counters of all nodes.

This directory holds TLA+ modules translated from that code, the TLC
configurations that check them on small instances, and theorems proved with
TLAPS for every value of the constants.

    tlc -workers 2 -config throttle_processes.cfg MCThrottle.tla
    tlapm ThrottleProofs.tla

## 1. Inventory

Paths are relative to the repository.

| Component | State | Operations | Talks to |
|---|---|---|---|
| Throttle (`src/ooops.c` 488-603) | per kind and server: call counter, delayed counter, ring of 512 time stamps; two mutexes; all in shared memory. Per process: `tim1`, copy of the limits. Per thread: registers | `Update_open_Count`, `post_lxstat`, after every intercepted call | other processes through shared memory; the parameters |
| Parameters (`src/ooops.c` 1298-1377, `src/set_io_param.c`) | segment: settings per server, `p_Disabled`, time stamp, ready word. Per process: the copies and `Active`, `n_fs_server`, `t_Updated_Param` | `Publish_Parameters` (library and tool), `Update_Parameters`, `set_io_param 0/1/...` | every process, with no lock |
| Start and end (`src/ooops.c` 938-1060, 1094-1295) | the segments, mutexes, mappings, `Shm_Ready` | `init`, `Init_Shared_Mutex`, `finalize`, `Close_Shared_Mutex` | every process of the user |
| Working directory (`src/ooops.c`) | `szUpdatedDir` and `Idx_fs_Server_CWD`, both thread-local | `my_chdir`, `my_fchdir`, `my_getcwd`, `Update_CWD` | the test of a path |
| Configuration file (`Read_Config`) | settings of up to `MAX_FS_SERVER` servers, sections by CPU frequency | one parse by the creator of the segment | the parameters |
| Hook library (`src/hook.c`) | tables of modules, functions, trampolines, patched code | `register_a_hook`, `install_hook`, `uninstall_hook` | the constructor, `finalize` |
| Report server (`src/server.c`) | list of nodes, table of reports, count of reports, sockets | `accept_client`, `drain_client`, `Print_Summary`, timer | clients over TCP; the local segment |
| Report client (`src/client.c`) | socket, rank, counters | connect once, send its name, periodic report | the server; the local segment |
| Dictionary (`src/dict.c`) | hash table with chains by index | `DictCreate`, `DictInsert`, `DictSearch` | the server |
| mpi_aggregator, measurement tools, job-script rewriting | none to speak of | | |
| Vendored: xxhash, libudis86, utarray | | | |

Hard behaviours and what makes each component correct:

* **Throttle.**  Concurrent processes read and store shared counters; a thread
  sleeps while it holds a mutex all others need; a slot of the ring is written
  twice by its call and read by a later one; the time to sleep passes through a
  static variable; a process that starts initialises the mutexes again.
  Correct: no update is lost, every call has a number of its own,
  sleeps of a kind are serialised, a delay lasts as long as was decided, the
  user keeps within the limit, every call returns.
* **Parameters.**  Words are stored and copied with no lock; the stamp must mean
  what it says; the first process publishes while others wait.  Correct: a copy
  with the published stamp is the published one, nobody uses what was never
  published, switching on and off is obeyed, files of no server are left alone.
* **Start and end.**  The creation of a segment races its first use; the creator
  or the holder of a mutex may die; `finalize` unmaps before it unhooks.
  Mutexes are initialised under the threads that sleep at them.  Correct: who
  intercepts calls has found all memory they use, every fault and every endless
  wait has one of a few known causes, nothing is left behind.
* **Working directory.**  A thread-local cache of a process-wide fact, looked up in
  a table that another thread may be counting anew.  Correct: a process is told, and
  charged for, the directory it is in.
* **Server and clients.**  A stream read as if it were messages; a summary after
  every `gsize-1` reports whoever sent them; clients that die, one of them perhaps
  while the server waits for its name.  Correct: each row is the newest accepted
  report of its own node, what is published is their sum, the log misses nothing
  and repeats nothing, SIGTERM is obeyed.
* **Dictionary.**  Chains and a limit of its table.  Correct: a name is found
  with its own value whatever hashes collide.
* **Hook library.**  Patching code other threads run; aliases; partial
  installation; trampolines that must be near.  Correct: calls meet their wrapper,
  wrappers the original, removal restores every byte.

`PROJECT.json` lists every hazard at its line with the properties that cover it.  Some
have none; a note then says whether a model reaches the hazard and which premise of
which property leaves it out.

## 2. Modules

| Module | What it is |
|---|---|
| `Throttle` | The life of an intercepted call from its first time stamp to its return, for several processes, threads, kinds and servers; refines `Limiter`. |
| `Limiter` | Abstract: what a user's calls may expect of the throttle. |
| `MCThrottle` | Values of its constants for TLC. |
| `ThrottleProofs` | Theorems about `Throttle`, the refinement among them. |
| `Params` | Publication and refresh of the parameters, word by word. |
| `MCParams` | Values of its constants for TLC, and the symmetry. |
| `ParamsProofs` | Theorems about `Params`. |
| `Lifecycle` | Processes from constructor to destructor: segments, mutexes, patches, calls of their threads, kills and faults. |
| `LifecycleProofs` | Theorems about `Lifecycle`. |
| `WorkingDir` | Abstract: what a process with one thread may expect of its working directory. |
| `Cwd` | The thread-local copies of the directory; refines `WorkingDir`. |
| `CwdProofs` | Theorems about `Cwd`, the refinement among them. |
| `Collector` | Abstract: what the totals of the report server mean. |
| `Dict` | The hash table of host names, as operators on a record. |
| `Report` | Server, clients and the streams between them, on `Dict`; refines `Collector`. |
| `Hook` | Registration, installation and removal of hooks. |
| `DataProofs` | Lemmas on least elements, finite sums and walks along descending links, which `HookProofs` and `ReportProofs` need. |
| `DictProofs` | Lemmas on `Dict`: the chains, and what a search finds. |
| `ReportProofs` | Theorems about `Report` and its dictionary, the refinement of `Collector` among them. |
| `HookProofs` | Theorems about `Hook`. |
| `MCLifecycle`, `MCCwd`, `MCReport`, `MCHook` | Values of their constants for TLC. |

`Lifecycle` gives the setting in which the others start: a process that has
reached `run` has the segments, the parameters and the patches that `Throttle`,
`Params` and `Cwd` take as given (`InterceptsWhenReady`).  It keeps one mutex and
one patched function of the several there are, and no counts.  `Hook` opens the
steps `Patch` and `Unpatch` of `Lifecycle`.  `Report` reads what `Throttle` counts.

`Throttle` and `Params` meet at one point of the code.  `Params` follows a call from
`Check_FS_Server` to the line where it is counted or left alone, taking
`Update_Parameters` apart load by load; `Throttle` takes a call on a tracked
server with the tool switched on, with `Update_Parameters` as one step, and
follows it through counting, stamping and sleeping.  `Params` is what justifies
that one step: `SyncedAgree` and `CalmCallObeys` say which settings a refresh
leaves behind.

### Throttle

`Update_open_Count` and `post_lxstat` have one shape and are one model with the
kind of call as a parameter.

| TLA+ | Code (`Update_open_Count`) |
|---|---|
| `count`, `delayed`, `tlist` | `*p_open_Count[]`, `*p_open_Delayed_Count[]`, `p_T_list_open[]` |
| `locked[k]` | the word of the shared mutex; it does not record its owner |
| `tim1[p]` | the static variable of the process |
| `Begin`, `Post` | time stamp before the real call; `Update_Parameters` after it |
| `Count`, `Counted` | 563-564 and 565-567: lock and read, store and unlock |
| `Stamp` | 569-580: duration of the call, `gettimeofday` into the slot |
| `Pass`, `Delay` | 582-592: decide, fill `tim1` |
| `Sleep`, `Wake`, `Unsleep` | 594-599: lock and sleep for what `tim1` *now* holds; read; store and unlock |
| `Restamp` | 600: stamp the slot again, return |
| `Start`, `Exit` | constructor on existing segments (both mutexes initialised again); end of a process |
| `SetIoParam` | a run of `set_io_param` for one server |
| `Tick` | time |

Shared words are read and written in separate steps wherever the code does so,
also inside a mutex, since a mutex that is initialised again protects nothing.
Abstractions: time is a global count of ticks; a frequency F is its window
`N_SAMPLE_FOR_AVG / F`; `limit`, `due` and `done` are history.  The time to sleep
stays in a register of the thread between its computation and `tim1`: the
optimised build does not read the shared copy `p_Data_Sleep` back.  The debug
counters of the process and the list of thread ids, which nothing reads, are
left out.  Call numbers are unbounded: the wrap of the `int` counter at 2^31 is
a listed hazard, not modelled.  A free mutex can be taken by whoever asks; the
sleepers at it and their wakeups are in `Lifecycle`.

`Limiter` says the same without mutexes, registers, rings or parameters: a call takes
the next number (`Counted`), may be set a time (`Delay`), is delayed alone in its kind
(`Sleep` to `Unsleep`), and returns (`Pass`, `Restamp`).  The phases of its calls are
sets of places of `Throttle`; the other steps stutter.

`QuietStart` says whether processes may start while a mutex is in use.  The
code does nothing to prevent it; with `FALSE` serialisation fails (run
`sleep_latestart`).  The other properties are what the code promises when jobs
start their processes before the storm.

### Params

| TLA+ | Code |
|---|---|
| `word`, `disabled`, `stamp`, `ready` | the parameter segment |
| `own`, `ownStamp`, `active`, `nfs` | a process's copies, `Active`, `n_fs_server` |
| `Switch`, `PublishWord`, `PublishOn`, `PublishStamp` | `set_io_param`: `main`, `Publish_Parameters`, in its order of stores |
| `Create` .. `CreateReady` | the first process: segment, configuration, the library's `Publish_Parameters` (stamp first) |
| `Join`, `JoinReady` | a later process waits for `p_Param_Mem_Ready` |
| `RefreshOff` .. `RefreshEnd` | `Update_Parameters` load by load |
| `Begin`, `Skip`, `Look` | `Check_FS_Server`, the tests of `GetTime` and `post_lxstat`, the comparison of stamps |
| `Leave`, `Throttled`, `Finish` | `Active` or the server says leave it alone; or it is counted |

Stores of one server's settings are one step for a publisher and one step for a
reader, with a register between load and store.  The stamp, read with `rdtscp`,
is a counter of which no two publications take the same value.  Memory order is
that of x86: stores and loads are seen in program order.

### Lifecycle

| TLA+ | Code (`src/ooops.c` unless named) |
|---|---|
| `seg[s]` | `/my_mutex_<uid>`, `/my_dt_<uid>`, `/my_io_param_<uid>`: absent, created, sized |
| `Begin`, `Open`, `Truncate` | `init`, `Init_Shared_Mutex`: `shm_open` exclusive or plain, `ftruncate` |
| `InitDataSleep`, `Wait`, `InitMutex` | the first access to each segment, a fault if it has no size |
| `Publish` | `Read_Config` and `Publish_Parameters` of the creator |
| `Patch`, `Unpatch`, `Free` | `install_hook`, `uninstall_hook` (`src/hook.c`): trampolines first, a patch in two stores |
| `word` | the word of a mutex of glibc: 0 free, 1 held, 2 held and perhaps waited for |
| `Call`, `Real` | an intercepted call: patched entry, trampoline |
| `Acquire`, `Sleep`, `Unlock` | `pthread_mutex_lock`: take a free word, or store 2 and sleep in the kernel; `pthread_mutex_unlock`: store 0 and, if it was 2, wake one sleeper |
| `Unmapped` | the same on segments that are gone |
| `Exit`, `Close`, `Quit` | `finalize`, `Close_Shared_Mutex`, the end of the process after later destructors |
| `Kill`, `Fail` | SIGKILL anywhere; SIGBUS, SIGSEGV or a torn instruction |

`InitMutex` is `pthread_mutex_init`: it stores 0 and wakes nobody.  Four variables are
history.  `undone` holds what killed creators left undone, the sizing of a segment or
the publication.  `orphan` says that, since the mutex was initialised last, a thread
died that held it or had been woken to take it.  `lost` holds the threads that slept
when it was initialised and have not been woken since.  `killed` counts towards
`MaxKill`.  After `exit()` begins other threads go on, and main threads make calls
again from later destructors.

### Cwd and WorkingDir

| TLA+ | Code |
|---|---|
| `szUpdatedDir[t]`, `Idx_fs_Server_CWD[t]` | the thread-local variables of these names |
| `nfs[p]` | `n_fs_server` of the process |
| `Change` | `my_chdir`, `my_fchdir`: the original function |
| `Copy`, `Look` | `Update_CWD`, which follows also when the original failed: the name, then the index |
| `IndexOf` | its loop over `n_fs_server` entries |
| `Refresh`, `Count`, `Counted` | `Update_Parameters`: `n_fs_server = 0`, one more for each server, the end |
| `Getcwd` | `my_getcwd_ld`, `my_getcwd_libc` |
| `Relative` | `Check_FS_Server` on a name without a leading slash |
| `Start`, `Fork`, `Create` | `init`; `fork()`; a new thread |

A directory stands for its name and `ServerOf` for the comparison of tags.  Threads
count the servers with no lock, so that a lookup may meet a table that is not complete
yet or, by finding 5 below, longer than the configured servers; the entries beyond
them have empty tags, which match every name.  The loop of `Update_CWD` reads
`n_fs_server` before each comparison; the model looks up in one step, with the value
of the last of these reads: when the loop stops at a match all earlier entries were
compared, and when it stops at the limit no entry below the limit matched.

`tracked` (the process started with the tool on) and `crossed` (a thread counted the
servers while another one counted or was in `chdir()`) are history, with `single`,
`changer` and `updater`.  `WorkingDir` asks nothing of a process that has, or was
forked from one that had, a second thread; `LastIsRight` says what is left then.

### Report, Dict and Collector

| TLA+ | Code |
|---|---|
| `HostDict`, `DictCreate`, `DictInsert`, `DictSearch`, `Full` | `Read_Host_List` (`src/server.c`), `src/dict.c` |
| `Connect`, `SendName`, `SendReport`, `Die` | `src/client.c` |
| `Accept`, `Greet` | `accept_client`: accept, then a blocking `read()` of the name, rank, epoll |
| `Drain`, `Store`, `Close` | `drain_client`: a `read()` of 1024 bytes is used only if it is one whole report |
| `Summed` | `Print_Summary` |
| `Alarm`, `Tenths` | `periodic`: the first line logs the total itself as its rate, the later ones the growth per second with one decimal |
| `Stop`, `HighIO`; `Interrupt` | SIGTERM, the decision in `Create_Chart_Reports`; the other signals, which end the server without a report |

Abstractions: one counter stands for the 32 of a node and one file system for
all; a report is two halves, so that a read may end inside one, at the end of one
or behind several; the name and the rank pass whole; `nDataCount` is kept modulo
`gsize-1`, all that is read of it; the hosts of a list are distinct and clients
run on listed hosts, as the job script starts them.  `Junk` is what `malloc()` left in
the table.  `Interval` is `T_Interal_Report` in seconds; rates are integers in tenths of
a call per second, and a growth of `d` calls is logged as one of the tenths nearest to
`d / Interval` (either, if it lies halfway, since `printf` sees a binary fraction).
`hist` is history; its `rates` are the calls the logged figures stand for.

### Hook

| TLA+ | Code (`src/hook.c`) |
|---|---|
| `module_list`, `patch_blk_list` | the tables of these names |
| `register_a_hook`, `query_registered_module` | same names |
| `query_all_org_func_addr` | resolution; a missing function disables its hook |
| `allocate_memory_block_for_patches`, `find_usable_block` | one round of its loop per step |
| `Skip`, `Patch`, `NextModule` | the loops of `install_hook` |
| `uninstall_hook`, `Back` | same name; slots copied back in ascending order |

Of machine code the model keeps what leads where: an entry is original, a jump to
a slot, or a jump that misses because its 32-bit offset does not reach; a slot
has the wrapper and the entry it saved.  Disassembly, relocation of instructions
and the parsing of `/proc/self/maps` and ELF files stay out.

## 3. Runs

| Run | Instance | Shows |
|---|---|---|
| `throttle_processes` | 2 single-threaded processes, both kinds, 1 server, ring of 4, sample 1, 4 calls, 3 ticks and as many more as sleepers need | `TypeOK`, `SleepSerialized`, `TicketsDistinct`, `CallsAccounted`, `DelaysAccounted`, `DelayHonoured`, the two inductive invariants `TicketInv` and `DelayInv`, the refinement `LimiterSpec`, and, with fairness, `CallReturns` (240 000 states) |
| `throttle_single` | 1 thread, ring of 4, sample 2, windows 1 and 3, 6 calls, 2 changes of the limits | `RateLimit`, across the wrap of the ring and the changes (530 000 states) |
| `params_processes` | 2 single-threaded processes, 2 servers of 3 possible, 2 runs of `set_io_param`, 2 calls | `TypeOK`, `SyncedAgree`, its inductive `SyncInv`, `CalmCallObeys`, `NoGarbage`, `LocalNotCounted` (1.3 million states) |
| `lifecycle` | 2 processes, one of 3 threads, the other of 1; 2 kills | `TypeOK`, `InterceptsWhenReady`, `SingleThreadSafe`, `SleepersHaveWaker`, `BusFromCreator`, `SegvOnlyAtExit`, and with fairness `StartEnds`, `BlockedByTheDead` (17 000 states) |
| `cwd` | a program of 2 threads and a forked child, 2 servers, a directory on the second and one on none, 3 calls of `chdir()` or refreshes | `TypeOK`, `LastIsRight`, the refinement `WorkingDirSpec` (1.6 million states) |
| `report_job` | host lists of 1, 2 and 3 nodes, all names with one hash; up to 2 calls and 2 reports in flight (1 and 1 with 3 nodes), 3, 2 and 1 alarms 5 seconds apart, 1 death | `TypeOK`, `RanksRight`, `RatesAddUp`, `WarningJustified`, the refinement `CollectorSpec`, and with fairness `DeadForgotten`, `TermObeyed` (139 000 states) |
| `hook` | 3 modules, one of them far from the others, an alias, missing functions; every sequence of up to 5 of 7 registrations | `TypeOK`, `CallMeetsWrapper`, `PointerMeetsOriginal`, `Restored`, `SlotKept` (76 000 states) |
| `delay_threads` | 2 threads in one process | violation of `DelayHonoured` |
| `sleep_latestart` | `QuietStart = FALSE` | violation of `SleepSerialized` |
| `params_disable`, `params_enable` | as `params_processes`, smaller | violations of `DisableObeyed`, `EnableObeyed` |
| `params_threads` | 2 threads in one process | violation of `LocalNotCounted` |

**Bounds.**  Two processes are enough for every race of the code that involves
two words and one lock; the theorems below cover any number.  Four calls with a
sample of 1 delay the third and fourth, so that two delayed calls meet at the
mutex and at the ring; six calls on a ring of 4 wrap it with a sample of 2.  Two
concurrent runs of `set_io_param` are the least that can interleave with each
other and with a reader.  Checking of deadlock is off because every bounded run
stops.  `SYMMETRY` in `params_processes` exchanges the two processes with
their threads, and the two publishers; the specification names none of them, and
the run has no temporal property.

In `lifecycle` one process comes first and one later, with a thread that calls
while the first exits, one that holds the mutex and one asleep at it; two kills can
hit a creator or holder and the process that might have repaired it.  In `report_job`
lists of one and two hosts meet the special cases of `gsize`; three make a round of two
reports, which one client can fill alone.  Two calls in 5 seconds are rates with
fractions, and three lines make two of them besides the first total.  In `hook` five
registrations fill one module with aliases and still leave some for another, and the
far module forces a second block.  In `cwd` two overlapping `chdir()` need two threads,
and a fork one more process; three calls let one thread change its directory while
another refreshes, or two refreshes double the count before a `chdir()`, and two
servers make a table that can be half counted.

**Fairness** of `Throttle` (`FairSpec`): weak fairness of each thread's steps within a call and
of the clock.  The kernel schedules a runnable thread and time passes; nothing
is asked of the mutexes, nor that anyone begins a call, starts a process or runs
`set_io_param`.  `CallReturns` would need strong fairness at a mutex if calls
went on for ever; the bound on calls makes that case finite, so what the run
shows is that no path leaves a mutex locked or a thread waiting for something
that never comes, not that glibc's mutex is fair.

In `Lifecycle` every constructor or destructor goes on, and every thread that can take
a step of a call (weak).  An unlock wakes a sleeper only if it finds the word at 2;
the kernel wakes the sleepers of a word in turn, so one that could be woken again and
again is (strong, `Woken`); and a thread that is awake and finds the mutex free again
and again takes it in the end (strong, `Acquire`; glibc promises no order, and without
it a mutex could pass a thread by for ever).  Nothing wakes a sleeper but an unlock:
`SleepersHaveWaker` is what the code itself guarantees, and the two strong assumptions
cannot help a thread in `lost` at whose mutex nobody waits any more.  A signal to a
sleeping thread, which makes it look at the word again, is left out.

In `Report` the server has strong fairness for accepting, for each client's stream and
for stopping: epoll reports ready descriptors in turn, and signals are blocked except
in `epoll_wait()`, which it enters after each handler.  A client that has
connected sends its name unless it dies (weak); nothing is asked of reports,
alarms or deaths.

**RateLimit is checked and proved for one thread only.**  With several, a call may look at a
slot whose own call is still asleep and has not stamped it again, and the rate
of the user can exceed the limit.  This is how the algorithm is meant to
approximate, no document of the repository promises more, and it is not listed
as a finding.

## 4. What the runs found

1. `tim1` is static (`src/src/ooops.c:308`) and filled before the mutex is taken
   (591-592): with two threads one sleeps for the time of the other
   (`delay_threads`).
2. Every process start initialises the shared mutexes (1009), so that a late
   process frees the mutex a sleeper holds, and two sleep at once
   (`sleep_latestart`); line 595 says "Sleep() needs to be serialized".
3. The switch is loaded before the stamp (1305, 1315): `set_io_param 0` between
   the two is missed until the next publication (`params_disable`).
4. A process that starts while the tool is off has no server, and its `open()`
   calls return at line 609 before they look at the stamp; they are not
   throttled after `set_io_param 1` (`params_enable`).
5. `n_fs_server` is reset and incremented with no lock (1313, 1341): two threads
   count the servers twice, the extra entries have empty tags, and calls on
   local files are counted (`params_threads`).

Other facts came up in modelling that no run counts as a violation, because no
document promises otherwise or a property is stated with the condition it needs:

* With `exit()` in a process of several threads, a call can miss the segments or
  trampolines, or run half a patch (`finalize` unmaps first and never resets
  `Shm_Ready`); `SegvOnlyAtExit` and `SingleThreadSafe` are what is left.
* A creator that dies before it has published leaves all later processes of the user
  waiting, and a process that opens a segment before its `ftruncate` faults.
  `StartEnds` admits the first and nothing else, `BusFromCreator` the second.
* `pthread_mutex_init` at a process start wakes nobody and clears the mark of waiters.
  A thread asleep at that moment goes on only if the mutex is contended again and an
  unlock wakes it; else its call stays blocked for ever, though nobody died.  A start
  may thus both repair the mutex of a dead holder and strand the threads that wait at
  it.  `SleepersHaveWaker` and `BlockedByTheDead` admit these threads (`lost`).
* By finding 5 a `chdir()` of one thread during a refresh of another finds the table
  of servers incomplete, or too long afterwards: the index of the working directory is
  then -1 or that of the entry after the last server.  Until the thread's next
  `chdir()` its relative names are not counted, or counted where no server is: hence
  `crossed` in `LastIsRight`.
* A module for which a second block of trampolines is allocated keeps index 0
  (`src/src/hook.c:545`) and its jumps go astray: hence `OneBlock`.  The library
  registers ld, libc and libpthread, which are near each other.
* Reports that arrive together are dropped, and a summary may add up a row nobody has
  stored: hence `tainted` in `WarningJustified`.  A period may have no summary or
  several: hence `paced` in `RatesAddUp`.  The column of rates begins with a total that
  is not divided by the interval (`src/src/server.c:211`), so that it alone counts as
  calls when the column is added up.
* A `set_io_param` that stops between its stores leaves settings without a stamp.
  `SyncedAgree` and `CalmCallObeys` say nothing from then on, since `NoPublisher` stays
  false.
* The comment of `DictSearch` (`src/src/dict.c:158`) says 0 is returned for a key
  that is not there; the code returns -1.

## 5. Theorems

All are proved from the named assumptions of the modules (`ThrottleAssumption`,
`ParamsAssumption`, `CwdAssumption`, `LifecycleAssumption`, `HookAssumption`,
`ReportAssumption`, `HashAssumption`: shapes of the constants, the sample smaller
than the ring, at least one server and kind, a main thread in each process, a
host list that is not empty and names no host twice, a function in one module,
no more modules than their table has room for and no more hooks than a block, a
hash in the naturals, an interval of at least a second) and hold for any number of
processes, threads, servers, directories, publishers, calls, kills, hosts, modules and
hooks.

| Module, theorem | Further assumption | Statement |
|---|---|---|
| `ThrottleProofs` `TypeCorrect` | none | `Spec => []TypeOK` |
| `SleepsSerialized` | `QuietStart` | `Spec => []SleepSerialized` |
| `TicketInvariant`, `NumbersDistinct` | `QuietStart` | `Spec => []TicketInv`, `Spec => []TicketsDistinct` |
| `CallsCounted`, `DelaysCounted` | `QuietStart`, `Thread` finite | `Spec => []CallsAccounted`, `Spec => []DelaysAccounted` |
| `RateKept` | `Single` | `Spec => []RateLimit` |
| `DelayInvariant`, `DelaysHonoured` | `OneThreadEach` | `Spec => []DelayInv`, `Spec => []DelayHonoured` |
| `ImplementsLimiter` | `QuietStart`, `OneThreadEach`, `Thread` finite | `Spec => LimiterSpec` |
| `ParamsProofs` `TypeCorrect` | `OneThreadEach` | `Spec => []TypeOK` |
| `RefreshesFollow`, `SyncedAgrees` | `OneThreadEach` | `Spec => []SyncInv`, `Spec => []SyncedAgree` |
| `GarbageNeverUsed`, `LocalNeverCounted` | `OneThreadEach` | `Spec => []NoGarbage`, `Spec => []LocalNotCounted` |
| `CalmCallsObey` | `OneThreadEach` | `Spec => []CalmCallObeys` |
| `CwdProofs` `TypeCorrect` | none | `Spec => []TypeOK` |
| `LastThreadsRight` | none | `Spec => []LastIsRight` |
| `Refinement` | none | `Spec => WorkingDirSpec` |
| `LifecycleProofs` `TypeCorrect` | none | `Spec => []TypeOK` |
| `ReadyWhenIntercepting`, `BusErrorsFromCreators` | none | `Spec => []InterceptsWhenReady`, `Spec => BusFromCreator` |
| `SleepersWoken` | none | `Spec => []SleepersHaveWaker` |
| `SingleThreadsSafe` | `Thread` finite | `Spec => []SingleThreadSafe` |
| `SegvsOnlyAtExit` | none | `Spec => SegvOnlyAtExit` |
| `ReportProofs` `DictionaryRight` | none | `HostDict` and `DictSearch` give the index of every listed host, -1 for any other name |
| `TypeCorrect`, `RanksAreRight` | none | `Spec => []TypeOK`, `Spec => []RanksRight` |
| `RatesAreComplete`, `WarningsAreJustified` | none | `Spec => []RatesAddUp`, `Spec => []WarningJustified` |
| `ImplementsCollector` | none | `Spec => CollectorSpec` |
| `HookProofs` `TypeCorrect`, `PatchesUndone` | none | `Spec => []TypeOK`, `Spec => []Restored` |
| `CallsMeetWrappers`, `PointersMeetOriginals` | none | `Spec => []CallMeetsWrapper`, `Spec => []PointerMeetsOriginal` |
| `SlotsKept` | none | `Spec => SlotKept` |

`QuietStart` and `OneThreadEach` are needed: findings 1, 2 and 5 are the
counterexamples without them (`DelaysHonoured` needs no `QuietStart`).  `Single`
says that there is one thread; section 3 says why `RateLimit` asks for it.

*Mutual exclusion and numbers.*  `SleepSerialized` and `TicketsDistinct` are not
inductive.  `Exclusive` adds that a thread at a point where it holds a mutex finds
the word set and is alone; `StepMutex` shows that each step takes a free mutex,
frees the one it holds or touches none, and a quiet start finds nobody inside.
`Numbered` adds that the value a thread has read is still the counter when it
stores it, which needs `Exclusive`, and that all numbers given lie below the
counter, so that the next is new (`StepTicket`, `StepNumbered`).

*Counters.*  Storing the counter puts one thread among those that hold a number, and a
return moves it, under a number not used before (`TicketsDistinct`), into the calls
done (`StepAccounted`).  `DelayedInv` does the same for the delayed calls: the value
read after the sleep is still the counter when it is stored, since the thread holds
the mutex, and a call has a time to sleep to exactly when it is delayed.

*Rate.*  `RateInv` adds that the limit a call was counted under is the one its process
holds, since `Post` has just made the two agree (`Copied`), and that a stamp stays in
its slot until `MAX_REC` more calls are numbered (`RingKept`): two numbers less than a
ring apart have different slots (`SlotsDiffer`), and the sample is shorter than the
ring.  A call that passes has measured the window, one that is delayed has slept to its end.

*Delays.*  `DelayInv` follows `due`, the first stamp plus the time to sleep: stamps
are never in the future, so `due <= now + dT` when the call heads for the mutex;
nobody else writes `tim1` meanwhile; waking comes at `due` or later.  No mutex
enters the argument.

*Parameters.*  `SyncInv` says that the creator is alone until the segment is ready;
that stamps stay below the clock, so that the stamp of a run still under way is
nobody's; that a refresh begins only when the stamps differ; and that while
nothing is being published and the copied stamp is the published one, the words
copied so far agree.  A store of `set_io_param` falsifies the premise, and its
stamp, when it comes, is new.  The inductive invariant `IInv` is `TypeOK`,
`SyncInv` and `SyncedAgree` together, since the bound of `n_fs_server` needs
`SyncInv` too: during a refresh it equals the index of the copying loop.

`KnownInv` follows the values: once the segment is ready all its words were
published, a refresh holds only such words, and a process's servers below
`n_fs_server` have them.  `CalmInv` says of a call during which nothing is published
that no run of `set_io_param` is under way, that the stamp it copied first is the
published one, and so, by `SyncInv`, that its copy agrees at the gate.

*Working directory.*  `LastIsRight` is not inductive: after a `chdir()` has
changed the directory and before it refreshes, nobody's copy need be right.
`IInv` adds that a process not yet started has no threads, that the thread which
changed the directory last is one of the process (`ChangerOwn`), and that in a process
no refresh has crossed the number of servers is what its one refresh has counted, or
all, or none if it started with the tool off (`CountsRight`).  `IndexFor` is what a
lookup then yields, in a crossed process and in another (`IndexOfServer`).
`LastLooked` and `LastNamed` say when the last changer and the last to copy have an
index that goes with their name and the name of the directory, and `SingleRight` that
the only thread of a process has both except within `chdir()`.  The
refinement follows step by step from `SingleRight`: a step of one process leaves the
abstract state of the others, and its own step is a step of `WorkingDir` or a stutter.

*Lifecycle.*  `Ordered` says of each place in the code what has been found
before it: a segment that was found sized stays sized, a process is patched only
between `InitMutex` and `Close`, a main thread has no call under way when `finalize`
begins.  `InterceptsWhenReady` and `SegvOnlyAtExit` follow.  `Creators` says that a
segment without its size has a creator on its way to size it or one that was killed
there; a process that meets such a segment is not that creator, which is
`BusFromCreator`.  `SleepersHaveWaker` is inductive by itself: only a thread that takes
the mutex or is about to sleep at it marks it, an unlock that frees a marked mutex
wakes one of the sleepers, the woken thread marks it again (`Acquire` stores 2 after a
sleep) or sleeps at a marked one, and the end of a process sets `orphan` if one of its
threads held the mutex or was woken (`EndWaits`).  `MainSafe` is `SingleThreadSafe`
without cardinalities.

*Limiter.*  The three invariants meet.  `Numbered` makes the store of a register the
taking of the next number, and the store of a count of delayed calls one more delay
(`DelayedInv`); `Exclusive` makes a delay begin while no other of its kind goes on;
`DelayInv` lets it end only when it is due.  `StepFrame` says that a step of a thread
is a step of its own call; a start, which frees the mutexes, is not seen.

*Dictionary.*  `Holds` describes a dictionary by its list: the head of each bucket is
the newest name that fell into it (`Newest`), each unit links to the next older one of
its bucket, and the units not yet used are the free list.  `CreateHolds` and
`InsertHolds` keep it.  A search walks to ever smaller units; `SearchFinds` and
`SearchMisses` look at the least unit at which it would go wrong, and find none.

*Server and clients.*  `IInv` orders the numbers of a node: its row, if it was ever
stored, is at most what any report under way carries, those follow one another in
their order, and none exceeds the counter (`Rows`, `Wires`).  A read of one whole
report therefore replaces a row by a newer value, and dropping any other read leaves
the order as it was.  `Rates` says how the sum and its growth relate to the line logged
last, after no summary, one or several; by `LineAccounts` a line then adds to what the
log stands for the growth of its total, but for half a tenth per second (`Accounted`).
`Counted` says that sums of stored rows do not exceed the calls made
(`SumOverMonotone`).  For the refinement, `Seen` is the table by
host name, and its sum that of the table since ranks and hosts correspond
(`SumOverReindex`).

*Hooks.*  A function is patched at most once: modules are listed once each (`Registered`)
and of the hooks of a module with one function all but the first are disabled
(`Looked`).  The slot to be filled is empty, since filled slots lie below the number
of trampolines (`Filled`, `Limit`), which is the number of hooks of the modules passed
(`Trampolines`, as a cardinality); so it never reaches the end of the block either.
Each filled slot has saved an original entry, which makes removal in any order
restore it.  `OneBlock` enters with `Near`: the only block is near every module.

*No induction over data.*  Sums, the dictionary of a list and the walk along a chain are
recursive functions.  Where the argument is by induction, `DataProofs` takes a least
counterexample instead, a natural number or a subset of a finite set (`LeastExists`,
`SmallestExists`), and that the recursive equation has a solution is proved in the
same way (`SumsExist`, `WalkExists`, `DictsExist`).

**Only model-checked**: liveness (`CallReturns`, `StartEnds`, `BlockedByTheDead`,
`DeadForgotten`, `TermObeyed`), which is out of the prover's reach.

## 6. What is left

* `RateLimit` for several threads needs a bound on how far the stamps of calls under
  way may be out of order, which the code does not keep; a weaker bound that it does
  keep is not known yet.
* A sleep that a signal to the program ends early, and a wait for a mutex that a signal
  interrupts: the thread then looks at the word again, which may save one in `lost`.
* The first plan had a model of the ring in integers of bounded width and one of
  the parsers of the configuration file.  The wrap of an `int` at 2^31 is beyond any
  bound TLC reaches and scaling the width down changes the relation to the
  512 slots that matters; the parsers are text processing by one process.  Both
  were dropped.

## 7. Not modelled, and why

Of the repository's 18 700 lines about 12 000 are vendored code and its tables
(`src/libudis86`, `src/xxhash.c`, `src/xxhash.h`, `src/utarray.h`): third-party
libraries without state shared between calls.  Of ooops' own code these parts have no module:

* `mpi_aggregator`: one MPI reduction and a printout.
* The rewriting of job scripts (`Append_Job_End_Handler_*`, `my_write`): text editing
  of one file by one process.
* The measurement tools and tests: loops that print times.
* The three parsers of the configuration file: text processing whose result is a constant.
* In `src/hook.c`: disassembly and relocation of instructions, `/proc/self/maps`,
  ELF symbols.  In `src/ooops.c`: early returns of `init` on nodes and programs
  where the library does nothing.
* In `src/server.c`: writing of charts and logs.

Debug output and the formatting of reports are left out everywhere.  Not in any
model, though listed as hazards: the wrap of the counters at 2^31, a frequency of 0,
sleeps that a signal ends early, more hooks than `MAX_PATCH`, clients on hosts that are not listed, and directories that
are renamed or removed.
