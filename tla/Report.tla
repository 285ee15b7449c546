------------------------------- MODULE Report -------------------------------
(***************************************************************************)
(* The report server ooopsd (server.c) on the first node of a job, its     *)
(* clients (client.c) on the other nodes and the TCP streams between them. *)
(* A client sends the counters of its node again and again; the server     *)
(* keeps the last report of every node, adds them up after every gsize-1   *)
(* reports, writes a line of its log at every alarm and decides at the end *)
(* whether the job is to be warned.                                        *)
(*                                                                         *)
(* One counter stands for the 32 of a node.  A report on the wire is two   *)
(* halves, for a read() of the server may end anywhere in the stream.      *)
(***************************************************************************)
EXTENDS Dict, Sequences, FiniteSets, FiniteSetsExt

CONSTANTS
    Lists,          \* the host files the job may have
    READ_MAX,       \* halves of a report that one read() of 1024 bytes takes
    Junk,           \* what the memory of malloc() may hold
    CallThreshold,  \* nCall_Threshold
    RateThreshold,  \* nCall_per_Second_Threshold, in tenths
    Interval,       \* T_Interal_Report, in seconds
    MaxCall,        \* bound, for each host file: calls counted on all nodes
    MaxWire,        \* bound, likewise: halves unread of all clients
    MaxPeriod,      \* bound, likewise: alarms
    MaxDie          \* bound: clients that die

ASSUME ReportAssumption ==
    /\ \A l \in Lists : /\ l \in Seq(Key) /\ l # << >>
                        /\ \A i, j \in DOMAIN l : l[i] = l[j] => i = j
    /\ IsFiniteSet(Key)
    /\ READ_MAX \in Nat \ {0, 1}
    /\ Junk \subseteq Int
    /\ CallThreshold \in Nat /\ RateThreshold \in Nat \ {0}
    /\ Interval \in Nat \ {0}
    /\ MaxCall \in [Lists -> Nat] /\ MaxWire \in [Lists -> Nat]
    /\ MaxPeriod \in [Lists -> Nat] /\ MaxDie \in Nat

VARIABLES
    hosts,      \* szNodeNameList: the host file
    dict,       \* p_Hash
    count,      \* the counter in the shared memory of each node
    cl,         \* where the client of each node is
    crank,      \* its rank
    wire,       \* the halves on their way from it to the server
    backlog,    \* the connections not accepted yet
    srv,        \* "loop": in epoll_wait(); "hello": reading the first message
                \* of a client; "gone"
    fds,        \* cfg.fds: the clients the server listens to
    term,       \* SIGTERM was sent to it
    table,      \* pOoops_Data_List
    nDataCount, \* nDataCount modulo gsize-1, all that is read of it
    sums,       \* CounterSum, CounterSum_Save, delta_CounterSum
    log,        \* the log: lines, total of the last line, whether the figure
                \* for the rate reached RateThreshold in a line
    high_io,    \* the file high_io was written
    hist        \* history: the rows stored; whether a row was added that was
                \* not; the summaries since the last line; whether each line
                \* but the first had one summary; the calls the figures of
                \* the lines stand for, in tenths

net     == <<cl, crank, wire, backlog>>
summary == <<table, nDataCount, sums, log, hist>>
vars    == <<hosts, dict, count, net, srv, fds, term, summary, high_io>>

-----------------------------------------------------------------------------
gsize    == Len(hosts)
Rank     == 0 .. gsize - 1
Host(r)  == hosts[r + 1]
Node     == {Host(r) : r \in Rank}
Client   == Node \ {Host(0)}
Total(f) == MapThenSumSet(LAMBDA x : f[x], DOMAIN f)

\* Read_Host_List: the dictionary of the hosts of list l, each with its index.
HostDict(l) ==
    LET d[i \in 0 .. Len(l)] ==
            IF i = 0 THEN DictCreate(2 * Len(l))
                     ELSE DictInsert(d[i - 1], l[i], i - 1)
    IN  d[Len(l)]

\* The server is in its main loop, its table as malloc() left it.
Init ==
    /\ hosts \in Lists
    /\ dict = HostDict(hosts)
    /\ count = [h \in Key |-> 0]
    /\ cl = [h \in Key |-> "none"]
    /\ crank = [h \in Key |-> -1]
    /\ wire = [h \in Key |-> << >>]
    /\ backlog = << >>
    /\ srv = "loop"
    /\ fds = {}
    /\ term = FALSE
    /\ \E j \in Junk : table = [r \in Rank |-> j]
    /\ nDataCount = 0
    /\ sums = [now |-> 0, saved |-> 0, delta |-> 0]
    /\ log = [lines |-> 0, last |-> 0, fast |-> FALSE]
    /\ high_io = FALSE
    /\ hist = [heard |-> {}, tainted |-> FALSE, since |-> 0, paced |-> TRUE,
               rates |-> 0]

\* A program of node h makes a call that is counted.
Call(h) ==
    /\ h \in Node /\ Total(count) < MaxCall[hosts] /\ srv # "gone"
    /\ count' = [count EXCEPT ![h] = @ + 1]
    /\ UNCHANGED <<hosts, dict, net, srv, fds, term, summary, high_io>>

-----------------------------------------------------------------------------
(* The client of node h.                                                   *)

\* It connects, once; the kernel queues the connection.
Connect(h) ==
    /\ h \in Client /\ cl[h] = "none" /\ srv # "gone"
    /\ cl' = [cl EXCEPT ![h] = "connected"]
    /\ backlog' = Append(backlog, h)
    /\ UNCHANGED <<hosts, dict, count, crank, wire, srv, fds, term, summary,
                   high_io>>

\* It sends the name of its host and waits for its rank.
SendName(h) ==
    /\ cl[h] = "connected" /\ srv # "gone"
    /\ cl' = [cl EXCEPT ![h] = "named"]
    /\ UNCHANGED <<hosts, dict, count, crank, wire, backlog, srv, fds, term,
                   summary, high_io>>

\* It copies the counters of its node and sends them.
SendReport(h) ==
    /\ cl[h] = "running" /\ srv # "gone"
    /\ MapThenSumSet(LAMBDA x : Len(wire[x]), Key) + 2 <= MaxWire[hosts]
    /\ LET half(i) == [part |-> i, rank |-> crank[h], count |-> count[h]]
       IN  wire' = [wire EXCEPT ![h] = @ \o << half(1), half(2) >>]
    /\ UNCHANGED <<hosts, dict, count, cl, crank, backlog, srv, fds, term,
                   summary, high_io>>

\* It is killed; the kernel closes the connection behind what was sent.
Die(h) ==
    /\ cl[h] \in {"connected", "named", "running"} /\ srv # "gone"
    /\ Cardinality({x \in Key : cl[x] = "dead"}) < MaxDie
    /\ cl' = [cl EXCEPT ![h] = "dead"]
    /\ UNCHANGED <<hosts, dict, count, crank, wire, backlog, srv, fds, term,
                   summary, high_io>>

-----------------------------------------------------------------------------
(* The server: clients.                                                    *)

\* accept_client: the first connection in the queue is accepted, ...
Accept ==
    /\ srv = "loop" /\ backlog # << >>
    /\ srv' = "hello"
    /\ UNCHANGED <<hosts, dict, count, net, fds, term, summary, high_io>>

\* Mutant: the end of the stream is not taken for an answer.
GreetNamed ==
    LET h == Head(backlog)
    IN  /\ srv = "hello" /\ cl[h] = "named"
        /\ cl' = [cl EXCEPT ![h] = "running"]
        /\ crank' = [crank EXCEPT ![h] = DictSearch(dict, h)]
        /\ srv' = "loop"
        /\ backlog' = Tail(backlog)
        /\ fds' = fds \cup {h}
        /\ UNCHANGED <<hosts, dict, count, wire, term, summary, high_io>>

\* ... and read(), which blocks until the client has sent its name or died; it
\* is told its rank and added to the set of epoll.
Greet ==
    LET h == Head(backlog)
    IN  /\ srv = "hello"
        /\ \/ /\ cl[h] = "named"
              /\ cl' = [cl EXCEPT ![h] = "running"]
              /\ crank' = [crank EXCEPT ![h] = DictSearch(dict, h)]
           \/ cl[h] = "dead" /\ UNCHANGED <<cl, crank>>
        /\ srv' = "loop"
        /\ backlog' = Tail(backlog)
        /\ fds' = fds \cup {h}
        /\ UNCHANGED <<hosts, dict, count, wire, term, summary, high_io>>

\* Mutant: the sums of the last summary are not reset.
SummedOn(t) ==
    LET sum == sums.now + Total(t)
    IN  [now |-> sum, saved |-> sum, delta |-> sum - sums.saved]

\* Mutant: the sum is not saved for the next difference.
SummedUnsaved(t) ==
    [now |-> Total(t), saved |-> sums.saved, delta |-> Total(t) - sums.saved]

\* Print_Summary on the table t.
Summed(t) ==
    [now |-> Total(t), saved |-> Total(t), delta |-> Total(t) - sums.saved]

\* Mutant: the local counters are stored after the rows are added up.
StoreLate(m) ==
    LET n == (nDataCount + 1) % (gsize - 1)
        t == [table EXCEPT ![m.rank] = m.count]
        heard == hist.heard \cup {m.rank} \cup {r \in {0} : n = 0}
    IN  /\ table' = [t EXCEPT ![0] = IF n = 0 THEN count[Host(0)] ELSE @]
        /\ nDataCount' = n
        /\ sums' = IF n = 0 THEN Summed(t) ELSE sums
        /\ hist' = [hist EXCEPT !.heard = heard]
        /\ UNCHANGED log

\* A report is stored in the row of its rank; after gsize-1 of them the local
\* counters are stored too and all rows are added up.
Store(m) ==
    LET n == (nDataCount + 1) % (gsize - 1)
        t == [r \in Rank |-> CASE r = m.rank      -> m.count
                               [] r = 0 /\ n = 0  -> count[Host(0)]
                               [] OTHER           -> table[r]]
        heard == hist.heard \cup {m.rank} \cup {r \in {0} : n = 0}
    IN  /\ table' = t
        /\ nDataCount' = n
        /\ sums' = IF n = 0 THEN Summed(t) ELSE sums
        /\ hist' = [hist EXCEPT
               !.heard   = heard,
               !.tainted = @ \/ (n = 0 /\ heard # Rank),
               !.since   = IF n = 0 /\ @ < 2 THEN @ + 1 ELSE @]
        /\ UNCHANGED log

\* drain_client: k halves are read from client h.  They are used if they are as
\* long as one report, begin as one and do not come from rank 0.
Drain(h, k) ==
    LET first == Head(wire[h])
    IN  /\ srv = "loop" /\ h \in fds
        /\ k \in 1 .. READ_MAX /\ k <= Len(wire[h])
        /\ wire' = [wire EXCEPT ![h] = SubSeq(@, k + 1, Len(@))]
        /\ IF k = 2 /\ first.part = 1 /\ first.rank # 0
             THEN Store(first)
             ELSE UNCHANGED summary
        /\ UNCHANGED <<hosts, dict, count, cl, crank, backlog, srv, fds, term,
                       high_io>>

\* Mutant: the record of the client is not erased.
CloseKept(h) ==
    /\ srv = "loop" /\ h \in fds
    /\ wire[h] = << >> /\ cl[h] = "dead"
    /\ UNCHANGED vars

\* drain_client: end of the stream.
Close(h) ==
    /\ srv = "loop" /\ h \in fds
    /\ wire[h] = << >> /\ cl[h] = "dead"
    /\ fds' = fds \ {h}
    /\ UNCHANGED <<hosts, dict, count, net, srv, term, summary, high_io>>

-----------------------------------------------------------------------------
(* The server: signals, which are blocked but in epoll_wait().             *)

\* The difference d as calls per second, in tenths, as printf() rounds it.
Tenths(d) ==
    LET q == (10 * d) \div Interval
    IN  {f \in {q, q + 1} :
            LET err == 2 * (Interval * f - 10 * d)
            IN  -Interval <= err /\ err <= Interval}

\* periodic: a server without clients makes its summary here.  The figure for
\* the rate is the total itself in the first line, at time 0, and the growth
\* per second in the others.
Alarm ==
    LET alone == gsize = 1
        t     == IF alone THEN [table EXCEPT ![0] = count[Host(0)]] ELSE table
        s     == IF alone THEN Summed(t) ELSE sums
        since == IF alone THEN 1 ELSE hist.since
        first == log.lines = 0
    IN  /\ srv = "loop" /\ log.lines < MaxPeriod[hosts]
        /\ table' = t
        /\ sums' = s
        /\ \E f \in IF first THEN {10 * s.now} ELSE Tenths(s.delta) :
              /\ log' = [lines |-> log.lines + 1, last |-> s.now,
                         fast  |-> log.fast \/ f >= RateThreshold]
              /\ hist' = [hist EXCEPT
                     !.heard = @ \cup {r \in {0} : alone},
                     !.since = 0,
                     !.paced = @ /\ (first \/ since = 1),
                     !.rates = @ + IF first THEN f ELSE Interval * f]
        /\ UNCHANGED <<hosts, dict, count, net, srv, fds, term, nDataCount,
                       high_io>>

\* The end of the job.
Terminate ==
    /\ ~term
    /\ term' = TRUE
    /\ UNCHANGED <<hosts, dict, count, net, srv, fds, summary, high_io>>

\* Create_Chart_Reports reads the log again: the total of its last line and the
\* highest of its rates.  Without a line the total is not initialised, but the
\* highest rate is 0, which no threshold in use accepts.
HighIO == log.last >= CallThreshold /\ log.fast

\* SIGTERM: the reports are made, and the server ends.
Stop ==
    /\ srv = "loop" /\ term
    /\ srv' = "gone"
    /\ high_io' = HighIO
    /\ fds' = {}
    /\ UNCHANGED <<hosts, dict, count, net, term, summary>>

\* Another signal of those it takes: it ends without a report.
Interrupt ==
    /\ srv = "loop"
    /\ srv' = "gone"
    /\ fds' = {}
    /\ UNCHANGED <<hosts, dict, count, net, term, summary, high_io>>

-----------------------------------------------------------------------------
Read(h) == Close(h) \/ \E k \in 1 .. READ_MAX : Drain(h, k)

Next ==
    \/ \E h \in Key : Call(h) \/ Connect(h) \/ SendName(h) \/ SendReport(h)
                      \/ Die(h) \/ Read(h)
    \/ Accept \/ Greet \/ Alarm \/ Terminate \/ Stop \/ Interrupt

Spec == Init /\ [][Next]_vars

\* epoll reports what is ready in turn; a client is scheduled until it dies.
FairSpec ==
    /\ Spec
    /\ SF_vars(Accept) /\ WF_vars(Greet) /\ SF_vars(Stop)
    /\ \A h \in Key : WF_vars(SendName(h)) /\ SF_vars(Read(h))

-----------------------------------------------------------------------------
(* Properties.                                                             *)

\* The types; the dictionary is not full, a case in which the server stops.
TypeOK ==
    /\ hosts \in Lists
    /\ ~Full(dict)
    /\ count \in [Key -> Nat]
    /\ cl \in [Key -> {"none", "connected", "named", "running", "dead"}]
    /\ crank \in [Key -> -1 .. gsize - 1]
    /\ \A h \in Key : \A i \in DOMAIN wire[h] :
          wire[h][i] \in [part : 1 .. 2, rank : Rank, count : Nat]
    /\ backlog \in Seq(Client)
    /\ srv \in {"loop", "hello", "gone"}
    /\ fds \subseteq Client
    /\ term \in BOOLEAN /\ high_io \in BOOLEAN
    /\ table \in [Rank -> Int]
    /\ nDataCount \in Nat
    /\ sums \in [now : Int, saved : Int, delta : Int]
    /\ log \in [lines : Nat, last : Int, fast : BOOLEAN]
    /\ hist \in [heard : SUBSET Rank, tainted : BOOLEAN, since : 0 .. 2,
                 paced : BOOLEAN, rates : Int]

\* The rank a client is told is the index of its own host in the host file,
\* whatever hashes collide (accept_client, DictSearch).
RanksRight == \A h \in Key : cl[h] = "running" => hosts[crank[h] + 1] = h

\* The server implements the collector: each row is the newest report accepted
\* from its node, however the stream was cut by read(), and what is published
\* is their sum (drain_client, Print_Summary).
Collects ==
    INSTANCE Collector WITH
        Node  <- Key,
        calls <- count,
        heard <- {Host(r) : r \in hist.heard},
        seen  <- [h \in Key |-> IF h \in Node
                                  THEN table[CHOOSE r \in Rank : Host(r) = h]
                                  ELSE 0],
        total <- sums.now

CollectorSpec == Collects!Spec

\* If each period had one summary, as with a server alone on its node, the log
\* accounts for its total: the total of the first line and the rates of the
\* others, each for the whole interval, differ from it by no more than printf()
\* has rounded, half a tenth per line and second.  No call is missed or logged
\* twice (periodic, Print_Summary and the special first line).
RatesAddUp ==
    hist.paced =>
        LET gap == 2 * (hist.rates - 10 * log.last)
        IN  -(Interval * log.lines) <= gap /\ gap <= Interval * log.lines

\* A job that is warned has made the calls, unless rows that were never stored
\* were added up (Create_Chart_Reports, Print_Summary).
WarningJustified ==
    high_io /\ ~hist.tainted => Total(count) >= CallThreshold

\* The connections of clients that died are closed (drain_client).
DeadForgotten == []<>(\A h \in fds : cl[h] # "dead")

\* SIGTERM ends the server, also when it is waiting for the name of a client
\* that dies first (main, accept_client).
TermObeyed == term ~> (srv = "gone")

=============================================================================
