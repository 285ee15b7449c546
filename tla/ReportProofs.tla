---------------------------- MODULE ReportProofs ----------------------------
(***************************************************************************)
(* Proofs about Report: its types, the ranks the clients are told, the     *)
(* rates of the log, the warning, and that the server implements the       *)
(* collector, for every number of hosts, clients, reports and alarms, every*)
(* hash function and every way read() cuts the streams.                    *)
(***************************************************************************)
EXTENDS Report, DictProofs, SequenceTheorems

Half == [part : 1 .. 2, rank : Rank, count : Nat]

\* The dictionary holds the hosts of the list, each with its index.
Listed == Holds(dict, hosts, 2 * gsize, gsize)

\* A client that runs has the index of its host; one that is greeted is there.
Ranked ==
    /\ srv = "hello" => backlog # << >>
    /\ \A h \in Key : cl[h] # "none" => h \in Client
    /\ \A h \in Key : cl[h] = "running" => crank[h] \in Rank /\ Host(crank[h]) = h

\* The number that is kept of a node is no newer than its counter.
Rows == \A r \in hist.heard : table[r] <= count[Host(r)]

\* What is under way from a client is of its rank, in the order of sending, no
\* newer than its counter and no older than its row.
Wires ==
    /\ wire \in [Key -> Seq(Half)]
    /\ \A h \in Key : \A i \in DOMAIN wire[h] :
          /\ h \in Client /\ Host(wire[h][i].rank) = h
          /\ wire[h][i].count <= count[h]
          /\ wire[h][i].rank \in hist.heard =>
                table[wire[h][i].rank] <= wire[h][i].count
    /\ \A h \in Key : \A i, j \in DOMAIN wire[h] :
          i <= j => wire[h][i].count <= wire[h][j].count

\* Since the last line there was no summary, one, or more.  Without one the sum
\* is that of the line, after one the sum less its growth is.
Rates ==
    /\ sums.saved = sums.now
    /\ log.lines = 0 => log.last = 0 /\ hist.rates = 0
    /\ log.lines # 0 /\ hist.since = 0 => sums.now = log.last
    /\ log.lines # 0 /\ hist.since = 1 => sums.now - sums.delta = log.last
    /\ gsize = 1 => hist.since = 0
    /\ RatesAddUp

\* If only stored rows were added up, no sum exceeds the calls that were made.
Counted ==
    /\ ~hist.tainted => sums.now <= Total(count) /\ log.last <= Total(count)
    /\ WarningJustified

IInv ==
    /\ TypeOK /\ Listed /\ Ranked /\ Rows /\ Wires /\ Rates /\ Counted

-----------------------------------------------------------------------------
(* The hosts and the dictionary of their names.                            *)

\* A host list is a sequence of distinct names, and not empty.
LEMMA ListFacts ==
    ASSUME NEW l \in Lists
    PROVE  /\ Len(l) \in Nat \ {0}
           /\ l \in [1 .. Len(l) -> Key]
           /\ \A i, j \in 1 .. Len(l) : l[i] = l[j] => i = j
PROOF
<1>1. l \in Seq(Key) /\ l # << >> /\ \A i, j \in DOMAIN l : l[i] = l[j] => i = j
  BY ReportAssumption
<1>2. l \in [1 .. Len(l) -> Key] /\ DOMAIN l = 1 .. Len(l) /\ Len(l) \in Nat
  BY <1>1, LenProperties
<1>3. Len(l) # 0
  BY <1>1, EmptySeq
<1> QED  BY <1>1, <1>2, <1>3

\* Ranks and listed hosts correspond one to one.
LEMMA HostFacts ==
    ASSUME hosts \in Lists
    PROVE  /\ gsize \in Nat \ {0} /\ IsFiniteSet(Rank) /\ 0 \in Rank
           /\ \A r \in Rank : Host(r) \in Key
           /\ \A r, q \in Rank : Host(r) = Host(q) => r = q
           /\ Node \subseteq Key /\ Client \subseteq Node
           /\ \A h \in Node : \E r \in Rank : Host(r) = h
           /\ gsize = 1 => Client = {}
PROOF
<1>1. gsize \in Nat \ {0} /\ hosts \in [1 .. gsize -> Key]
  BY ListFacts DEF gsize
<1>2. IsFiniteSet(Rank)
  <2>1. 0 \in Int /\ gsize - 1 \in Int
    BY <1>1
  <2> QED  BY <2>1, FS_Interval DEF Rank
<1>3. \A r \in Rank : r + 1 \in 1 .. gsize /\ r \in Int
  BY <1>1 DEF Rank
<1>4. \A r \in Rank : Host(r) \in Key
  BY <1>1, <1>3 DEF Host
<1>5. \A r, q \in Rank : Host(r) = Host(q) => r = q
  <2> TAKE r, q \in Rank
  <2>1. hosts[r + 1] = hosts[q + 1] => r + 1 = q + 1
    BY <1>3, ListFacts DEF gsize
  <2> QED  BY <1>3, <2>1 DEF Host
<1>6. Node \subseteq Key /\ Client \subseteq Node
  BY <1>4 DEF Node, Client
<1>7. \A h \in Node : \E r \in Rank : Host(r) = h
  BY DEF Node
<1>8. 0 \in Rank
  BY <1>1 DEF Rank
<1>9. gsize = 1 => Client = {}
  <2> SUFFICES ASSUME gsize = 1, NEW h \in Client PROVE FALSE
    OBVIOUS
  <2>1. Rank = {0}
    BY DEF Rank
  <2> QED  BY <2>1 DEF Client, Node
<1> QED  BY <1>1, <1>2, <1>4, <1>5, <1>6, <1>7, <1>8, <1>9

\* The dictionaries before and after each of L insertions.
Dicts(l, first, L, d) ==
    d = [i \in 0 .. L |-> IF i = 0 THEN first
                          ELSE DictInsert(d[i - 1], l[i], i - 1)]

\* The recursion of HostDict has a solution at every length.
LEMMA DictsExist ==
    ASSUME NEW l, NEW first, NEW L \in Nat
    PROVE  \E d : Dicts(l, first, L, d)
PROOF
<1> DEFINE C == {n \in Nat : ~ \E d : Dicts(l, first, n, d)}
<1> SUFFICES ASSUME C # {} PROVE FALSE
  OBVIOUS
<1>1. PICK n \in C : \A k \in C : n <= k
  <2>1. C \subseteq Nat
    OBVIOUS
  <2> HIDE DEF C
  <2> QED  BY <2>1, LeastExists
<1>2. n # 0
  <2> SUFFICES ASSUME n = 0 PROVE FALSE
    OBVIOUS
  <2> DEFINE d == [i \in 0 .. 0 |-> first]
  <2>1. d = [i \in 0 .. 0 |-> IF i = 0 THEN first
                              ELSE DictInsert(d[i - 1], l[i], i - 1)]
    OBVIOUS
  <2> QED  BY <2>1 DEF Dicts
<1>3. PICK c : Dicts(l, first, n - 1, c)
  <2>1. n - 1 \in Nat /\ ~(n <= n - 1)
    BY <1>2
  <2> QED  BY <1>1, <2>1
<1> DEFINE d == [i \in 0 .. n |-> IF i = 0 THEN first
                                  ELSE DictInsert(c[i - 1], l[i], i - 1)]
<1>4. ASSUME NEW i \in 0 .. n - 1 PROVE c[i] = d[i]
  <2>1. i \in 0 .. n
    OBVIOUS
  <2> QED  BY <1>3, <2>1 DEF Dicts
<1>5. ASSUME NEW i \in 0 .. n
      PROVE  d[i] = IF i = 0 THEN first ELSE DictInsert(d[i - 1], l[i], i - 1)
  <2>1. CASE i = 0
    BY <2>1
  <2>2. CASE i # 0
    <3>1. i - 1 \in 0 .. n - 1
      BY <2>2
    <3>2. d[i] = DictInsert(c[i - 1], l[i], i - 1)
      BY <2>2
    <3> HIDE DEF d
    <3> QED  BY <1>4, <2>2, <3>1, <3>2
  <2> QED  BY <2>1, <2>2
<1>6. Dicts(l, first, n, d)
  <2>1. d = [i \in 0 .. n |-> d[i]]
    OBVIOUS
  <2> HIDE DEF d
  <2> QED  BY <1>5, <2>1 DEF Dicts
<1> QED  BY <1>1, <1>6

\* Read_Host_List enters every host.
LEMMA HostDictHolds ==
    ASSUME NEW l \in Lists
    PROVE  Holds(HostDict(l), l, 2 * Len(l), Len(l))
PROOF
<1> DEFINE L == Len(l)
           first == DictCreate(2 * L)
           d == CHOOSE e : Dicts(l, first, L, e)
<1>1. L \in Nat \ {0} /\ l \in [1 .. L -> Key]
  BY ListFacts
<1>2. HostDict(l) = d[L]
  BY DEF HostDict, Dicts
<1> HIDE DEF L, first
<1>3. \E e : Dicts(l, first, L, e)
  BY <1>1, DictsExist
<1>4. Dicts(l, first, L, d)
  BY <1>3
<1> HIDE DEF d
<1> DEFINE C == {i \in 0 .. L : ~Holds(d[i], l, 2 * L, i)}
<1>5. C = {}
  <2> SUFFICES ASSUME C # {} PROVE FALSE
    OBVIOUS
  <2>1. PICK n \in C : \A k \in C : n <= k
    <3>1. C \subseteq Nat
      OBVIOUS
    <3> HIDE DEF C
    <3> QED  BY <3>1, LeastExists
  <2>2. n # 0
    <3>1. d[0] = first
      BY <1>1, <1>4 DEF Dicts
    <3>2. 2 * L \in Nat \ {0}
      BY <1>1
    <3> QED  BY <3>1, <3>2, CreateHolds DEF first
  <2>3. n - 1 \in 0 .. L /\ n - 1 \in Nat /\ ~(n <= n - 1) /\ (n - 1) + 1 = n
    BY <1>1, <2>2
  <2>4. Holds(d[n - 1], l, 2 * L, n - 1)
    BY <2>1, <2>3
  <2>5. d[n] = DictInsert(d[n - 1], l[n], n - 1)
    BY <1>4, <2>2 DEF Dicts
  <2>6. 2 * L \in Nat /\ (n - 1) + 1 < 2 * L
    BY <1>1, <2>3
  <2>7. l[(n - 1) + 1] \in Key
    BY <1>1, <2>2, <2>3
  <2>8. Holds(DictInsert(d[n - 1], l[(n - 1) + 1], n - 1), l, 2 * L, (n - 1) + 1)
    BY <2>3, <2>4, <2>6, <2>7, InsertHolds
  <2> QED  BY <2>3, <2>5, <2>8
<1>6. Holds(d[L], l, 2 * L, L)
  BY <1>1, <1>5
<1> QED  BY <1>2, <1>6 DEF L

\* A search for a client finds its rank.
LEMMA RankFound ==
    ASSUME hosts \in Lists, Listed, NEW r \in Rank
    PROVE  DictSearch(dict, Host(r)) = r
PROOF
<1> DEFINE L == gsize
<1>1. L \in Nat \ {0} /\ 2 * L \in Nat \ {0} /\ L <= 2 * L
  BY HostFacts
<1>2. ASSUME NEW i \in 0 .. L - 1, NEW j \in 0 .. L - 1,
             hosts[i + 1] = hosts[j + 1]
      PROVE  i = j
  BY <1>2, HostFacts DEF Rank, Host
<1>3. r \in 0 .. L - 1 /\ L \in Nat
  BY <1>1 DEF Rank
<1>4. Holds(dict, hosts, 2 * L, L)
  BY DEF Listed
<1> HIDE DEF L
<1>5. DictSearch(dict, hosts[r + 1]) = r
  BY <1>1, <1>2, <1>3, <1>4, SearchFinds
<1> QED  BY <1>5 DEF Host


\* Read_Host_List and DictSearch: the dictionary of any list of distinct hosts
\* gives each name its index in the list and any other name -1, whatever hashes
\* collide.
THEOREM DictionaryRight ==
    \A l \in Lists : \A k \in Key :
        /\ \A i \in 1 .. Len(l) : l[i] = k => DictSearch(HostDict(l), k) = i - 1
        /\ (\A i \in 1 .. Len(l) : l[i] # k) => DictSearch(HostDict(l), k) = -1
PROOF
<1> TAKE l \in Lists
<1> TAKE k \in Key
<1> DEFINE L == Len(l)
           d == HostDict(l)
<1>1. /\ L \in Nat \ {0} /\ L \in Nat /\ 2 * L \in Nat \ {0} /\ L <= 2 * L
      /\ \A i, j \in 1 .. L : l[i] = l[j] => i = j
  BY ListFacts
<1>2. Holds(d, l, 2 * L, L)
  BY HostDictHolds
<1> HIDE DEF L, d
<1>3. \A i, j \in 0 .. L - 1 : l[i + 1] = l[j + 1] => i = j
  <2> TAKE i, j \in 0 .. L - 1
  <2>1. i + 1 \in 1 .. L /\ j + 1 \in 1 .. L
    BY <1>1
  <2>2. l[i + 1] = l[j + 1] => i + 1 = j + 1
    BY <1>1, <2>1
  <2> QED  BY <2>2
<1>4. ASSUME NEW i \in 1 .. L, l[i] = k PROVE DictSearch(d, k) = i - 1
  <2>1. i - 1 \in 0 .. L - 1 /\ (i - 1) + 1 = i
    BY <1>1
  <2>2. DictSearch(d, l[(i - 1) + 1]) = i - 1
    BY <1>1, <1>2, <1>3, <2>1, SearchFinds
  <2> QED  BY <1>4, <2>1, <2>2
<1>5. ASSUME \A i \in 1 .. L : l[i] # k PROVE DictSearch(d, k) = -1
  <2>1. \A j \in 0 .. L - 1 : l[j + 1] # k
    BY <1>1, <1>5
  <2> QED  BY <1>1, <1>2, <2>1, SearchMisses
<1> QED  BY <1>4, <1>5 DEF L, d

\* A table of twice as many units as hosts is never full.
LEMMA NotFull ==
    ASSUME hosts \in Lists, Listed
    PROVE  ~Full(dict)
PROOF
<1>1. dict.n = gsize /\ dict.size = 2 * gsize
  BY DEF Listed, Holds
<1> DEFINE L == gsize
<1>2. L \in Nat \ {0}
  BY HostFacts
<1> HIDE DEF L
<1>3. ~(10 * L >= 8 * (2 * L))
  BY <1>2
<1> QED  BY <1>1, <1>3 DEF Full, L

-----------------------------------------------------------------------------
(* Totals.                                                                 *)

\* Total is the sum over the domain.
LEMMA TotalIsSum ==
    ASSUME NEW f, NEW S, DOMAIN f = S
    PROVE  Total(f) = SumOver(f, S)
PROOF
<1> QED  BY DEF Total, SumOver

\* A total of integers is an integer.
LEMMA TotalType ==
    ASSUME NEW S, IsFiniteSet(S), NEW f \in [S -> Int]
    PROVE  Total(f) \in Int
PROOF
<1> QED  BY TotalIsSum, SumOverType

\* A total grows with its terms.
LEMMA TotalMonotone ==
    ASSUME NEW S, IsFiniteSet(S), NEW f \in [S -> Int], NEW g \in [S -> Int],
           \A x \in S : f[x] <= g[x]
    PROVE  Total(f) <= Total(g)
PROOF
<1>1. \A x \in S : f[x] \in Int /\ g[x] \in Int /\ f[x] <= g[x]
  OBVIOUS
<1>2. SumOver(f, S) <= SumOver(g, S)
  BY <1>1, SumOverMonotone
<1>3. Total(f) = SumOver(f, S) /\ Total(g) = SumOver(g, S)
  BY TotalIsSum
<1> QED  BY <1>2, <1>3

\* A total of zeros is 0.
LEMMA TotalZero ==
    ASSUME NEW S, IsFiniteSet(S)
    PROVE  Total([x \in S |-> 0]) = 0
PROOF
<1> DEFINE f == [x \in S |-> 0]
<1>1. /\ DOMAIN f = S
      /\ \A x \in S : f[x] \in Int
      /\ \A x \in S \ {} : f[x] = 0
  OBVIOUS
<1>2. IsFiniteSet({})
  BY FS_EmptySet
<1> HIDE DEF f
<1>3. SumOver(f, S) = SumOver(f, {})
  BY <1>1, SumOverSupport
<1>4. SumOver(f, {}) = 0
  BY <1>2, SumOverRec
<1>5. Total(f) = 0
  BY <1>1, <1>3, <1>4, TotalIsSum
<1> QED  BY <1>5 DEF f

\* The numbers kept of all nodes, none newer than its counter, add up to no
\* more than the counters of all nodes.
LEMMA TotalOfRows ==
    ASSUME hosts \in Lists, count \in [Key -> Nat], NEW t \in [Rank -> Int],
           \A r \in Rank : t[r] <= count[Host(r)]
    PROVE  Total(t) <= Total(count)
PROOF
<1> DEFINE c == [r \in Rank |-> count[Host(r)]]
           n == [h \in Key |-> IF h \in Node THEN count[h] ELSE 0]
           b == [r \in Rank |-> Host(r)]
<1>1. IsFiniteSet(Key) /\ IsFiniteSet(Rank)
  BY ReportAssumption, HostFacts
<1>2. Node \subseteq Key /\ IsFiniteSet(Node)
  BY <1>1, HostFacts, FS_Subset
<1>3. c \in [Rank -> Int] /\ n \in [Key -> Int]
  BY HostFacts
<1>4. Total(t) <= Total(c)
  <2>1. \A r \in Rank : t[r] <= c[r]
    OBVIOUS
  <2> HIDE DEF c
  <2> QED  BY <1>1, <1>3, <2>1, TotalMonotone
<1>5. Total(c) = SumOver(c, Rank)
  BY TotalIsSum
<1>6. SumOver(c, Rank) = SumOver(n, Node)
  <2>1. \A r \in Rank : c[r] \in Int
    BY <1>3
  <2>2. \A h \in Node : n[h] \in Int
    BY <1>2, <1>3
  <2>3. \A r \in Rank : b[r] \in Node /\ c[r] = n[b[r]]
    BY HostFacts DEF Node
  <2>4. \A r, q \in Rank : b[r] = b[q] => r = q
    BY HostFacts
  <2>5. \A h \in Node : \E r \in Rank : b[r] = h
    BY HostFacts
  <2> HIDE DEF b, c, n
  <2> QED  BY <1>1, <1>2, <2>1, <2>2, <2>3, <2>4, <2>5, SumOverReindex
<1>7. SumOver(n, Key) = SumOver(n, Node)
  <2>1. \A h \in Key : n[h] \in Int
    BY <1>3
  <2>2. \A h \in Key \ Node : n[h] = 0
    OBVIOUS
  <2> HIDE DEF n
  <2> QED  BY <1>1, <1>2, <2>1, <2>2, SumOverSupport
<1>8. Total(n) = SumOver(n, Key)
  BY TotalIsSum
<1>9. Total(n) <= Total(count)
  <2>1. \A h \in Key : n[h] <= count[h]
    OBVIOUS
  <2>2. count \in [Key -> Int]
    OBVIOUS
  <2> HIDE DEF n
  <2> QED  BY <1>1, <1>3, <2>1, <2>2, TotalMonotone
<1>10. Total(t) \in Int /\ Total(n) \in Int /\ Total(count) \in Int
  <2>1. count \in [Key -> Int]
    OBVIOUS
  <2> HIDE DEF n
  <2> QED  BY <1>1, <1>3, <2>1, TotalType
<1> HIDE DEF c, n
<1> QED  BY <1>4, <1>5, <1>6, <1>7, <1>8, <1>9, <1>10

-----------------------------------------------------------------------------
(* What a step keeps that does not touch it.                               *)

\* What depends on the host list only.
LEMMA HostsKept ==
    ASSUME hosts' = hosts
    PROVE  /\ gsize' = gsize /\ Rank' = Rank /\ Half' = Half
           /\ Node' = Node /\ Client' = Client
           /\ \A r : Host(r)' = Host(r)
PROOF
<1>1. gsize' = gsize /\ Rank' = Rank
  BY DEF gsize, Rank
<1>2. \A r : Host(r)' = Host(r)
  BY DEF Host
<1>3. Node' = Node
  BY <1>1, <1>2 DEF Node
<1>4. Client' = Client
  BY <1>2, <1>3 DEF Client
<1> QED  BY <1>1, <1>2, <1>3, <1>4 DEF Half

\* Listed depends on the hosts and their dictionary.
LEMMA ListedKept ==
    ASSUME Listed, UNCHANGED <<hosts, dict>>
    PROVE  Listed'
PROOF
<1>1. dict' = dict /\ hosts' = hosts /\ gsize' = gsize
  BY HostsKept
<1> QED  BY <1>1 DEF Listed, Holds, Newest, Bucket

\* Ranked depends on the clients, their ranks and the head of the backlog.
LEMMA RankedKept ==
    ASSUME Ranked, UNCHANGED <<hosts, cl, crank>>,
           srv' = "hello" => backlog' # << >>
    PROVE  Ranked'
PROOF
<1>1. Client' = Client /\ Rank' = Rank /\ \A r : Host(r)' = Host(r)
  BY HostsKept
<1>2. srv' = "hello" => backlog' # << >>
  OBVIOUS
<1>3. \A h \in Key : cl'[h] # "none" => h \in Client'
  BY <1>1 DEF Ranked
<1>4. ASSUME NEW h \in Key, cl'[h] = "running"
      PROVE  crank'[h] \in Rank' /\ Host(crank'[h]) = h
  BY <1>1, <1>4 DEF Ranked
<1> QED  BY <1>1, <1>2, <1>3, <1>4 DEF Ranked, Host

\* A row stays below its counter while counters only grow.
LEMMA RowsKept ==
    ASSUME Rows, UNCHANGED <<hosts, table, hist>>,
           count \in [Key -> Nat], count' \in [Key -> Nat],
           \A h \in Key : count[h] <= count'[h],
           hosts \in Lists, hist.heard \subseteq Rank, table \in [Rank -> Int]
    PROVE  Rows'
PROOF
<1>1. \A r : Host(r)' = Host(r)
  BY HostsKept
<1>2. ASSUME NEW r \in hist.heard PROVE table'[r] <= count'[Host(r)]
  <2>1. table[r] <= count[Host(r)] /\ Host(r) \in Key
    BY HostFacts DEF Rows
  <2> QED  BY <2>1
<1> QED  BY <1>1, <1>2 DEF Rows, Host

\* So do the reports under way.
LEMMA WiresKept ==
    ASSUME Wires, UNCHANGED <<hosts, wire, table, hist>>,
           count \in [Key -> Nat], count' \in [Key -> Nat],
           \A h \in Key : count[h] <= count'[h]
    PROVE  Wires'
PROOF
<1>1. Client' = Client /\ Half' = Half /\ \A r : Host(r)' = Host(r)
  BY HostsKept
<1>2. wire' \in [Key -> Seq(Half')]
  BY <1>1 DEF Wires
<1>3. ASSUME NEW h \in Key, NEW i \in DOMAIN wire[h]
      PROVE  /\ h \in Client' /\ Host(wire[h][i].rank)' = h
             /\ wire[h][i].count <= count'[h]
             /\ wire[h][i].rank \in hist.heard =>
                   table[wire[h][i].rank] <= wire[h][i].count
  <2>1. wire[h][i].count \in Nat
    <3>1. wire[h] \in Seq(Half)
      BY DEF Wires
    <3>2. wire[h][i] \in Half
      BY <3>1, ElementOfSeq, LenProperties
    <3> QED  BY <3>2 DEF Half
  <2>2. wire[h][i].count <= count[h]
    BY DEF Wires
  <2>3. wire[h][i].count <= count'[h]
    BY <2>1, <2>2
  <2> QED  BY <1>1, <2>3 DEF Wires
<1> QED  BY <1>1, <1>2, <1>3 DEF Wires

\* Rates depends on the sums and the log.
LEMMA RatesKept ==
    ASSUME Rates, UNCHANGED <<hosts, sums, log, hist>>
    PROVE  Rates'
PROOF
<1>1. gsize' = gsize
  BY HostsKept
<1> QED  BY <1>1 DEF Rates, RatesAddUp

\* Counted depends on the counters, the sums and the log.
LEMMA CountedKept ==
    ASSUME Counted, UNCHANGED <<count, sums, log, hist, high_io>>
    PROVE  Counted'
PROOF
<1>1. Total(count)' = Total(count)
  <2>1. PICK c : c = count
    OBVIOUS
  <2>2. Total(count) = Total(c) /\ Total(count') = Total(c)
    BY <2>1
  <2> QED  BY <2>2
<1> QED  BY <1>1 DEF Counted, WarningJustified


-----------------------------------------------------------------------------
(* The beginning, and the steps.                                           *)

\* The server starts with no client and the dictionary of its host list.
LEMMA InitInv == Init => IInv
PROOF
<1> SUFFICES ASSUME Init PROVE IInv
  OBVIOUS
<1> USE DEF Init
<1>0. DOMAIN << >> = {} /\ << >> \in Seq(Client) /\ << >> \in Seq(Half)
  <2>1. << >> \in Seq(Client) /\ Len(<< >>) = 0
    BY EmptySeq
  <2> QED  BY <2>1, EmptySeq, LenProperties
<1>1. /\ gsize \in Nat \ {0} /\ IsFiniteSet(Rank) /\ IsFiniteSet(Key)
      /\ Client \subseteq Key
  BY HostFacts, ReportAssumption
<1>2. Listed
  BY HostDictHolds DEF Listed, gsize
<1>3. ~Full(dict)
  BY <1>2, NotFull
<1>4. TypeOK
  <2>1. table \in [Rank -> Int]
    BY ReportAssumption
  <2>2. crank \in [Key -> -1 .. gsize - 1]
    BY <1>1
  <2>3. \A h \in Key : DOMAIN wire[h] = {}
    BY <1>0
  <2>4. hist \in [heard : SUBSET Rank, tainted : BOOLEAN, since : 0 .. 2,
                  paced : BOOLEAN, rates : Int]
    OBVIOUS
  <2> QED  BY <1>0, <1>3, <2>1, <2>2, <2>3, <2>4 DEF TypeOK
<1>5. Ranked /\ Rows
  BY DEF Ranked, Rows
<1>6. Wires
  <2>1. \A h \in Key : DOMAIN wire[h] = {}
    BY <1>0
  <2>2. wire \in [Key -> Seq(Half)]
    BY <1>0
  <2> QED  BY <2>1, <2>2 DEF Wires
<1>7. Rates
  <2>1. -(Interval * 0) = 0 /\ Interval * 0 = 0
    BY ReportAssumption
  <2>2. RatesAddUp
    BY <2>1 DEF RatesAddUp
  <2> QED  BY <2>2 DEF Rates
<1>8. Total(count) = 0
  BY <1>1, TotalZero
<1>9. Counted
  BY <1>8 DEF Counted, WarningJustified
<1> QED  BY <1>2, <1>4, <1>5, <1>6, <1>7, <1>9 DEF IInv

\* A call raises the counter of its node, so that nothing exceeds it.
LEMMA CallInv ==
    ASSUME IInv, NEW h \in Key, Call(h)
    PROVE  IInv'
PROOF
<1> USE DEF IInv
<1>1. /\ UNCHANGED <<hosts, dict, cl, crank, wire, backlog, srv, fds, term,
                     table, nDataCount, sums, log, hist, high_io>>
      /\ count' = [count EXCEPT ![h] = @ + 1]
  BY DEF Call, net, summary
<1>2. /\ count \in [Key -> Nat] /\ hosts \in Lists
      /\ table \in [Rank -> Int] /\ hist.heard \subseteq Rank
  BY DEF TypeOK
<1>3. count' \in [Key -> Nat] /\ \A x \in Key : count[x] <= count'[x]
  BY <1>1, <1>2
<1>4. TypeOK'
  <2>1. gsize' = gsize /\ Rank' = Rank /\ Client' = Client
    BY <1>1, HostsKept
  <2>2. ~Full(dict)'
    BY <1>1, NotFull DEF TypeOK, Full
  <2> QED  BY <1>1, <1>3, <2>1, <2>2 DEF TypeOK
<1>5. Listed'
  BY <1>1, ListedKept
<1>6. Ranked'
  BY <1>1, RankedKept DEF Ranked
<1>7. Rows'
  BY <1>1, <1>2, <1>3, RowsKept
<1>8. Wires'
  BY <1>1, <1>2, <1>3, WiresKept
<1>9. Rates'
  BY <1>1, RatesKept
<1>10. Counted'
  <2>1. PICK c : c = count
    OBVIOUS
  <2>2. PICK d : d = count'
    OBVIOUS
  <2>3. Total(c) <= Total(d) /\ Total(c) \in Int /\ Total(d) \in Int
    <3>1. IsFiniteSet(Key)
      BY ReportAssumption
    <3>2. c \in [Key -> Int] /\ d \in [Key -> Int] /\ \A x \in Key : c[x] <= d[x]
      BY <1>2, <1>3, <2>1, <2>2
    <3> QED  BY <3>1, <3>2, TotalMonotone, TotalType
  <2>4. Total(count) = Total(c) /\ Total(count)' = Total(d)
    BY <2>1, <2>2
  <2>5. sums.now \in Int /\ log.last \in Int /\ CallThreshold \in Int
    BY ReportAssumption DEF TypeOK
  <2>6. ~hist'.tainted => sums'.now <= Total(d) /\ log'.last <= Total(d)
    BY <1>1, <2>3, <2>4, <2>5 DEF Counted
  <2>7. high_io' /\ ~hist'.tainted => Total(d) >= CallThreshold
    BY <1>1, <2>3, <2>4, <2>5 DEF Counted, WarningJustified
  <2> QED  BY <2>4, <2>6, <2>7 DEF Counted, WarningJustified
<1> QED  BY <1>4, <1>5, <1>6, <1>7, <1>8, <1>9, <1>10

\* The steps that keep all but where a client is.
LEMMA ConnectInv ==
    ASSUME IInv, NEW h \in Key, Connect(h)
    PROVE  IInv'
PROOF
<1> USE DEF IInv
<1>1. /\ UNCHANGED <<hosts, dict, count, crank, wire, srv, fds, term,
                     table, nDataCount, sums, log, hist, high_io>>
      /\ h \in Client /\ cl' = [cl EXCEPT ![h] = "connected"]
      /\ backlog' = Append(backlog, h)
  BY DEF Connect, summary
<1>2. /\ count \in [Key -> Nat] /\ hosts \in Lists /\ backlog \in Seq(Client)
      /\ table \in [Rank -> Int] /\ hist.heard \subseteq Rank
  BY DEF TypeOK
<1>3. /\ gsize' = gsize /\ Rank' = Rank /\ Client' = Client
      /\ \A r : Host(r)' = Host(r)
  BY <1>1, HostsKept
<1>4. backlog' \in Seq(Client) /\ backlog' # << >>
  BY <1>1, <1>2, AppendProperties
<1>5. TypeOK'
  <2>1. ~Full(dict)'
    BY <1>1, NotFull DEF TypeOK, Full
  <2> QED  BY <1>1, <1>3, <1>4, <2>1 DEF TypeOK
<1>6. Listed'
  BY <1>1, ListedKept
<1>7. Ranked'
  <2>1. cl \in [Key -> {"none", "connected", "named", "running", "dead"}]
    BY DEF TypeOK
  <2>2. \A x \in Key : cl'[x] # "none" => x \in Client'
    BY <1>1, <1>3, <2>1 DEF Ranked
  <2>3. ASSUME NEW x \in Key, cl'[x] = "running"
        PROVE  crank'[x] \in Rank' /\ Host(crank'[x]) = x
    <3>1. cl[x] = "running"
      BY <1>1, <2>1, <2>3
    <3> QED  BY <1>1, <1>3, <3>1 DEF Ranked
  <2> QED  BY <1>1, <1>3, <1>4, <2>2, <2>3 DEF Ranked, Host
<1>8. Rows'
  BY <1>1, <1>2, RowsKept
<1>9. Wires'
  BY <1>1, <1>2, WiresKept
<1>10. Rates'
  BY <1>1, RatesKept
<1>11. Counted'
  BY <1>1, CountedKept
<1> QED  BY <1>5, <1>6, <1>7, <1>8, <1>9, <1>10, <1>11

\* A client that sends its name or dies sends no report.
LEMMA ClientStepInv ==
    ASSUME IInv, NEW h \in Key, SendName(h) \/ Die(h)
    PROVE  IInv'
PROOF
<1> USE DEF IInv
<1>1. /\ UNCHANGED <<hosts, dict, count, crank, wire, backlog, srv, fds, term,
                     table, nDataCount, sums, log, hist, high_io>>
      /\ cl[h] # "none"
      /\ \/ cl' = [cl EXCEPT ![h] = "named"]
         \/ cl' = [cl EXCEPT ![h] = "dead"]
  BY DEF SendName, Die, summary
<1>2. /\ count \in [Key -> Nat] /\ hosts \in Lists
      /\ table \in [Rank -> Int] /\ hist.heard \subseteq Rank
  BY DEF TypeOK
<1>3. /\ gsize' = gsize /\ Rank' = Rank /\ Client' = Client
      /\ \A r : Host(r)' = Host(r)
  BY <1>1, HostsKept
<1>4. cl \in [Key -> {"none", "connected", "named", "running", "dead"}]
  BY DEF TypeOK
<1>5. TypeOK'
  <2>1. ~Full(dict)'
    BY <1>1, NotFull DEF TypeOK, Full
  <2>2. cl' \in [Key -> {"none", "connected", "named", "running", "dead"}]
    BY <1>1, <1>4
  <2> QED  BY <1>1, <1>3, <2>1, <2>2 DEF TypeOK
<1>6. Listed'
  BY <1>1, ListedKept
<1>7. Ranked'
  <2>1. \A x \in Key : cl'[x] # "none" => x \in Client'
    BY <1>1, <1>3, <1>4 DEF Ranked
  <2>2. ASSUME NEW x \in Key, cl'[x] = "running"
        PROVE  crank'[x] \in Rank' /\ Host(crank'[x]) = x
    <3>1. cl[x] = "running"
      BY <1>1, <1>4, <2>2
    <3> QED  BY <1>1, <1>3, <3>1 DEF Ranked
  <2>3. srv' = "hello" => backlog' # << >>
    BY <1>1 DEF Ranked
  <2> QED  BY <1>3, <2>1, <2>2, <2>3 DEF Ranked, Host
<1>8. Rows'
  BY <1>1, <1>2, RowsKept
<1>9. Wires'
  BY <1>1, <1>2, WiresKept
<1>10. Rates'
  BY <1>1, RatesKept
<1>11. Counted'
  BY <1>1, CountedKept
<1> QED  BY <1>5, <1>6, <1>7, <1>8, <1>9, <1>10, <1>11

\* The reports under way to the server, half by half, and their types.
LEMMA WireFacts ==
    ASSUME TypeOK, Wires, NEW h \in Key
    PROVE  /\ Len(wire[h]) \in Nat /\ DOMAIN wire[h] = 1 .. Len(wire[h])
           /\ wire[h] \in Seq(Half)
           /\ \A i \in DOMAIN wire[h] : /\ wire[h][i] \in Half
                                        /\ wire[h][i].rank \in Rank
                                        /\ wire[h][i].count \in Nat
PROOF
<1>1. wire[h] \in Seq(Half)
  BY DEF Wires
<1>2. Len(wire[h]) \in Nat /\ DOMAIN wire[h] = 1 .. Len(wire[h])
  BY <1>1, LenProperties
<1>3. \A i \in DOMAIN wire[h] : wire[h][i] \in Half
  BY <1>1, <1>2, ElementOfSeq
<1> QED  BY <1>1, <1>2, <1>3 DEF Half

\* A new report carries the counter, which no older one exceeds.
LEMMA SendReportInv ==
    ASSUME IInv, NEW h \in Key, SendReport(h)
    PROVE  IInv'
PROOF
<1> USE DEF IInv
<1> DEFINE q == << [part |-> 1, rank |-> crank[h], count |-> count[h]],
                   [part |-> 2, rank |-> crank[h], count |-> count[h]] >>
<1>1. /\ UNCHANGED <<hosts, dict, count, cl, crank, backlog, srv, fds, term,
                     table, nDataCount, sums, log, hist, high_io>>
      /\ cl[h] = "running"
      /\ wire' = [wire EXCEPT ![h] = @ \o q]
  BY DEF SendReport, summary
<1>2. /\ count \in [Key -> Nat] /\ hosts \in Lists
      /\ table \in [Rank -> Int] /\ hist.heard \subseteq Rank
  BY DEF TypeOK
<1>3. /\ gsize' = gsize /\ Rank' = Rank /\ Client' = Client /\ Half' = Half
      /\ \A r : Host(r)' = Host(r)
  BY <1>1, HostsKept
<1>4. h \in Client /\ crank[h] \in Rank /\ Host(crank[h]) = h
  BY <1>1 DEF Ranked
<1>5. /\ q \in Seq(Half) /\ Len(q) = 2
      /\ \A i \in 1 .. 2 : q[i].rank = crank[h] /\ q[i].count = count[h]
  <2>1. q[1] \in Half /\ q[2] \in Half
    BY <1>2, <1>4 DEF Half
  <2> QED  BY <1>2, <1>4 DEF Half
<1> HIDE DEF q
<1>6. /\ wire[h] \in Seq(Half) /\ Len(wire[h]) \in Nat
      /\ DOMAIN wire[h] = 1 .. Len(wire[h])
  BY WireFacts
<1> DEFINE w == wire[h] \o q
<1>7. /\ w \in Seq(Half) /\ Len(w) = Len(wire[h]) + 2
      /\ \A i \in 1 .. Len(wire[h]) + 2 :
            w[i] = IF i <= Len(wire[h]) THEN wire[h][i] ELSE q[i - Len(wire[h])]
  <2> DEFINE v == wire[h]
  <2>1. v \in Seq(Half)
    BY <1>6
  <2> HIDE DEF v
  <2>2. /\ v \o q \in Seq(Half) /\ Len(v \o q) = Len(v) + Len(q)
        /\ \A i \in 1 .. Len(v) + Len(q) :
              (v \o q)[i] = IF i <= Len(v) THEN v[i] ELSE q[i - Len(v)]
    BY <1>5, <2>1, ConcatProperties
  <2> QED  BY <1>5, <2>2 DEF v
<1>8. DOMAIN w = 1 .. Len(wire[h]) + 2
  BY <1>7, LenProperties
<1> HIDE DEF w
<1>9. ASSUME NEW i \in DOMAIN w
      PROVE  \/ i \in DOMAIN wire[h] /\ w[i] = wire[h][i]
             \/ /\ i > Len(wire[h])
                /\ w[i].rank = crank[h] /\ w[i].count = count[h]
  <2>1. CASE i <= Len(wire[h])
    BY <1>6, <1>7, <1>8, <2>1
  <2>2. CASE ~(i <= Len(wire[h]))
    <3>1. i - Len(wire[h]) \in 1 .. 2 /\ i > Len(wire[h])
      BY <1>6, <1>8, <2>2
    <3>2. w[i] = q[i - Len(wire[h])]
      BY <1>7, <1>8, <2>2
    <3> QED  BY <1>5, <3>1, <3>2
  <2> QED  BY <2>1, <2>2
<1>10. wire' = [wire EXCEPT ![h] = w] /\ wire \in [Key -> Seq(Half)]
  BY <1>1 DEF w, Wires
<1>11. wire'[h] = w /\ \A x \in Key : x # h => wire'[x] = wire[x]
  BY <1>10
<1>12. wire' \in [Key -> Seq(Half)]
  BY <1>7, <1>10
<1>13. TypeOK'
  <2>1. ~Full(dict)'
    BY <1>1, NotFull DEF TypeOK, Full
  <2>2. ASSUME NEW x \in Key, NEW i \in DOMAIN wire'[x]
        PROVE  wire'[x][i] \in [part : 1 .. 2, rank : Rank, count : Nat]
    <3>1. wire'[x] \in Seq(Half)
      BY <1>12
    <3>2. wire'[x][i] \in Half
      BY <3>1, ElementOfSeq, LenProperties
    <3> QED  BY <3>2 DEF Half
  <2> QED  BY <1>1, <1>3, <2>1, <2>2 DEF TypeOK
<1>14. Listed'
  BY <1>1, ListedKept
<1>15. Ranked'
  BY <1>1, RankedKept DEF Ranked
<1>16. Rows'
  BY <1>1, <1>2, RowsKept
<1>17. count[h] \in Int /\ (crank[h] \in hist.heard => table[crank[h]] <= count[h])
  BY <1>2, <1>4 DEF Rows
<1>18. ASSUME NEW x \in Key, NEW i \in DOMAIN wire'[x]
       PROVE  /\ x \in Client /\ Host(wire'[x][i].rank) = x
              /\ wire'[x][i].count <= count[x]
              /\ wire'[x][i].rank \in hist.heard =>
                    table[wire'[x][i].rank] <= wire'[x][i].count
  <2>1. CASE x # h
    BY <1>11, <2>1 DEF Wires
  <2>2. CASE x = h
    <3>1. CASE i \in DOMAIN wire[h] /\ w[i] = wire[h][i]
      BY <1>11, <2>2, <3>1 DEF Wires
    <3>2. CASE w[i].rank = crank[h] /\ w[i].count = count[h]
      BY <1>4, <1>11, <1>17, <2>2, <3>2
    <3> QED  BY <1>9, <1>11, <2>2, <3>1, <3>2
  <2> QED  BY <2>1, <2>2
<1>19. ASSUME NEW x \in Key, NEW i \in DOMAIN wire'[x], NEW j \in DOMAIN wire'[x],
              i <= j
       PROVE  wire'[x][i].count <= wire'[x][j].count
  <2>1. CASE x # h
    BY <1>11, <1>19, <2>1 DEF Wires
  <2>2. CASE x = h
    <3>1. CASE j \in DOMAIN wire[h] /\ w[j] = wire[h][j]
      <4>1. i \in DOMAIN wire[h] /\ w[i] = wire[h][i]
        BY <1>6, <1>8, <1>9, <1>11, <1>19, <2>2, <3>1
      <4> QED  BY <1>11, <1>19, <2>2, <3>1, <4>1 DEF Wires
    <3>2. CASE w[j].count = count[h]
      <4>1. CASE i \in DOMAIN wire[h] /\ w[i] = wire[h][i]
        BY <1>11, <2>2, <3>2, <4>1 DEF Wires
      <4>2. CASE w[i].count = count[h]
        BY <1>11, <1>17, <2>2, <3>2, <4>2
      <4> QED  BY <1>9, <1>11, <2>2, <4>1, <4>2
    <3> QED  BY <1>9, <1>11, <2>2, <3>1, <3>2
  <2> QED  BY <2>1, <2>2
<1>20. Wires'
  <2>1. wire' \in [Key -> Seq(Half')]
    BY <1>3, <1>12
  <2>2. \A x \in Key : \A i \in DOMAIN wire'[x] :
           Host(wire[x][i].rank)' = Host(wire'[x][i].rank)
    BY <1>1 DEF Host
  <2> QED  BY <1>1, <1>3, <1>18, <1>19, <2>1, <2>2 DEF Wires
<1>21. Rates'
  BY <1>1, RatesKept
<1>22. Counted'
  BY <1>1, CountedKept
<1> QED  BY <1>13, <1>14, <1>15, <1>16, <1>20, <1>21, <1>22

\* The steps of the server that touch neither its table nor the streams.
LEMMA ServerStepInv ==
    ASSUME IInv, Accept \/ Terminate \/ \E h \in Key : Close(h)
    PROVE  IInv'
PROOF
<1> USE DEF IInv
<1>1. /\ UNCHANGED <<hosts, dict, count, cl, crank, wire, backlog,
                     table, nDataCount, sums, log, hist, high_io>>
      /\ srv' = srv \/ (srv' = "hello" /\ backlog # << >>)
      /\ fds' \subseteq fds /\ term' \in BOOLEAN
  BY DEF Accept, Terminate, Close, summary, net, TypeOK
<1>2. /\ count \in [Key -> Nat] /\ hosts \in Lists
      /\ table \in [Rank -> Int] /\ hist.heard \subseteq Rank
  BY DEF TypeOK
<1>3. TypeOK'
  <2>1. gsize' = gsize /\ Rank' = Rank /\ Client' = Client
    BY <1>1, HostsKept
  <2>2. ~Full(dict)'
    BY <1>1, NotFull DEF TypeOK, Full
  <2> QED  BY <1>1, <2>1, <2>2 DEF TypeOK
<1>4. Listed'
  BY <1>1, ListedKept
<1>5. Ranked'
  BY <1>1, RankedKept DEF Ranked
<1>6. Rows'
  BY <1>1, <1>2, RowsKept
<1>7. Wires'
  BY <1>1, <1>2, WiresKept
<1>8. Rates'
  BY <1>1, RatesKept
<1>9. Counted'
  BY <1>1, CountedKept
<1> QED  BY <1>3, <1>4, <1>5, <1>6, <1>7, <1>8, <1>9

\* A signal ends the server; after SIGTERM what the log says decides the warning.
LEMMA StopInv == IInv /\ (Stop \/ Interrupt) => IInv'
PROOF
<1> SUFFICES ASSUME IInv, Stop \/ Interrupt PROVE IInv'
  OBVIOUS
<1> USE DEF IInv
<1>1. /\ UNCHANGED <<hosts, dict, count, cl, crank, wire, backlog, term,
                     table, nDataCount, sums, log, hist>>
      /\ srv' = "gone" /\ fds' = {} /\ high_io' \in {HighIO, high_io}
  BY DEF Stop, Interrupt, summary, net
<1>2. /\ count \in [Key -> Nat] /\ hosts \in Lists
      /\ table \in [Rank -> Int] /\ hist.heard \subseteq Rank
      /\ log.fast \in BOOLEAN /\ log.last \in Int
  BY DEF TypeOK
<1>3. TypeOK'
  <2>1. gsize' = gsize /\ Rank' = Rank /\ Client' = Client
    BY <1>1, HostsKept
  <2>2. ~Full(dict)'
    BY <1>1, NotFull DEF TypeOK, Full
  <2>3. high_io' \in BOOLEAN
    BY <1>1 DEF HighIO, TypeOK
  <2> QED  BY <1>1, <2>1, <2>2, <2>3 DEF TypeOK
<1>4. Listed'
  BY <1>1, ListedKept
<1>5. Ranked'
  BY <1>1, RankedKept
<1>6. Rows'
  BY <1>1, <1>2, RowsKept
<1>7. Wires'
  BY <1>1, <1>2, WiresKept
<1>8. Rates'
  BY <1>1, RatesKept
<1>9. Counted'
  <2>1. Total(count)' = Total(count)
    BY <1>1
  <2>2. Total(count) \in Int
    <3>1. IsFiniteSet(Key) /\ count \in [Key -> Int]
      BY <1>2, ReportAssumption
    <3> QED  BY <3>1, TotalType
  <2>3. high_io' => log.last >= CallThreshold \/ high_io
    BY <1>1 DEF HighIO
  <2>4. CallThreshold \in Int
    BY ReportAssumption
  <2> QED  BY <1>1, <1>2, <2>1, <2>2, <2>3, <2>4 DEF Counted, WarningJustified
<1> QED  BY <1>3, <1>4, <1>5, <1>6, <1>7, <1>8, <1>9

\* A client is told its rank.
LEMMA GreetInv == IInv /\ Greet => IInv'
PROOF
<1> SUFFICES ASSUME IInv, Greet PROVE IInv'
  OBVIOUS
<1> USE DEF IInv
<1> DEFINE h == Head(backlog)
<1>1. /\ UNCHANGED <<hosts, dict, count, wire, term,
                     table, nDataCount, sums, log, hist, high_io>>
      /\ srv = "hello" /\ srv' = "loop" /\ backlog' = Tail(backlog)
      /\ fds' = fds \cup {h}
      /\ \/ /\ cl' = [cl EXCEPT ![h] = "running"]
            /\ crank' = [crank EXCEPT ![h] = DictSearch(dict, h)]
         \/ UNCHANGED <<cl, crank>>
  BY DEF Greet, summary
<1>2. /\ count \in [Key -> Nat] /\ hosts \in Lists /\ fds \subseteq Client
      /\ table \in [Rank -> Int] /\ hist.heard \subseteq Rank
      /\ cl \in [Key -> {"none", "connected", "named", "running", "dead"}]
      /\ crank \in [Key -> -1 .. gsize - 1] /\ backlog \in Seq(Client)
  BY DEF TypeOK
<1>3. /\ gsize' = gsize /\ Rank' = Rank /\ Client' = Client
      /\ \A r : Host(r)' = Host(r)
  BY <1>1, HostsKept
<1>4. h \in Client /\ backlog' \in Seq(Client)
  <2>1. backlog # << >>
    BY <1>1 DEF Ranked
  <2> QED  BY <1>1, <1>2, <2>1, HeadTailProperties
<1> HIDE DEF h
<1>5. h \in Key /\ DictSearch(dict, h) \in Rank /\ Host(DictSearch(dict, h)) = h
  <2>1. PICK r \in Rank : Host(r) = h
    BY <1>2, <1>4, HostFacts
  <2>2. DictSearch(dict, h) = r
    BY <1>2, <2>1, RankFound
  <2> QED  BY <1>2, <2>1, <2>2, HostFacts
<1>6. \A r \in Rank : r \in -1 .. gsize - 1
  BY <1>2, HostFacts DEF Rank
<1>7. TypeOK'
  <2>1. ~Full(dict)'
    BY <1>1, NotFull DEF TypeOK, Full
  <2>2. cl' \in [Key -> {"none", "connected", "named", "running", "dead"}]
    BY <1>1, <1>2
  <2>3. crank' \in [Key -> -1 .. gsize - 1]
    <3>1. DictSearch(dict, h) \in -1 .. gsize - 1
      BY <1>5, <1>6
    <3> QED  BY <1>1, <1>2, <3>1
  <2>4. fds' \subseteq Client
    BY <1>1, <1>2, <1>4
  <2> QED  BY <1>1, <1>3, <1>4, <2>1, <2>2, <2>3, <2>4 DEF TypeOK
<1>8. Listed'
  BY <1>1, ListedKept
<1>9. Ranked'
  <2>1. ASSUME NEW x \in Key, cl'[x] # "none" PROVE x \in Client'
    BY <1>1, <1>2, <1>3, <1>4, <2>1 DEF Ranked
  <2>2. ASSUME NEW x \in Key, cl'[x] = "running"
        PROVE  crank'[x] \in Rank' /\ Host(crank'[x]) = x
    <3>1. CASE cl'[x] = cl[x] /\ crank'[x] = crank[x]
      BY <1>3, <2>2, <3>1 DEF Ranked
    <3>2. CASE x = h /\ crank'[x] = DictSearch(dict, h)
      BY <1>3, <1>5, <3>2
    <3> QED  BY <1>1, <1>2, <3>1, <3>2
  <2> QED  BY <1>1, <1>3, <2>1, <2>2 DEF Ranked, Host
<1>10. Rows'
  BY <1>1, <1>2, RowsKept
<1>11. Wires'
  BY <1>1, <1>2, WiresKept
<1>12. Rates'
  BY <1>1, RatesKept
<1>13. Counted'
  BY <1>1, CountedKept
<1> QED  BY <1>7, <1>8, <1>9, <1>10, <1>11, <1>12, <1>13


\* What is left of the streams when k halves of client h were read.
LEMMA CutWires ==
    ASSUME TypeOK, Wires, NEW h \in Key, NEW k \in Nat \ {0}, k <= Len(wire[h]),
           wire' = [wire EXCEPT ![h] = SubSeq(@, k + 1, Len(@))]
    PROVE  /\ wire' \in [Key -> Seq(Half)]
           /\ \A x \in Key : x # h => wire'[x] = wire[x]
           /\ \A i \in DOMAIN wire'[h] : /\ k + i \in DOMAIN wire[h] /\ i \in Nat
                                         /\ wire'[h][i] = wire[h][k + i]
PROOF
<1> DEFINE w == wire[h]
           v == SubSeq(w, k + 1, Len(w))
<1>1. w \in Seq(Half) /\ Len(w) \in Nat /\ DOMAIN w = 1 .. Len(w)
  BY WireFacts
<1>2. wire \in [Key -> Seq(Half)] /\ wire' = [wire EXCEPT ![h] = v]
  BY DEF Wires
<1> HIDE DEF w
<1> DEFINE m == k + 1
           n == Len(w)
<1>3. m \in Int /\ n \in Int /\ \A i \in m .. n : w[i] \in Half
  BY <1>1, ElementOfSeq
<1>4. /\ SubSeq(w, m, n) \in Seq(Half)
      /\ Len(SubSeq(w, m, n)) = IF m <= n THEN n - m + 1 ELSE 0
      /\ \A i \in 1 .. n - m + 1 : SubSeq(w, m, n)[i] = w[m + i - 1]
  <2> HIDE DEF m, n
  <2> QED  BY <1>3, SubSeqProperties
<1>5. k <= n
  BY DEF w
<1>6. v \in Seq(Half) /\ Len(v) = n - k
  <2>1. (IF m <= n THEN n - m + 1 ELSE 0) = n - k
    <3> HIDE DEF n
    <3> QED  BY <1>3, <1>5
  <2>2. v = SubSeq(w, m, n)
    OBVIOUS
  <2> HIDE DEF v, m, n
  <2> QED  BY <1>4, <2>1, <2>2
<1>7. DOMAIN v = 1 .. n - k
  BY <1>6, LenProperties
<1>8. ASSUME NEW i \in DOMAIN v
      PROVE  k + i \in DOMAIN w /\ i \in Nat /\ v[i] = w[k + i]
  <2>1. i \in 1 .. n - m + 1 /\ i \in Nat /\ m + i - 1 = k + i
    BY <1>1, <1>5, <1>7
  <2>2. SubSeq(w, m, n)[i] = w[m + i - 1]
    <3> HIDE DEF m, n
    <3> QED  BY <1>4, <2>1
  <2> QED  BY <1>1, <1>5, <1>7, <2>1, <2>2
<1> HIDE DEF v
<1>9. wire'[h] = v /\ \A x \in Key : x # h => wire'[x] = wire[x]
  BY <1>2
<1>10. wire' \in [Key -> Seq(Half)]
  BY <1>2, <1>6
<1> QED  BY <1>8, <1>9, <1>10 DEF w

\* A read of one whole report replaces the row of its own node by a value that
\* is no smaller; any other read drops what it read.
LEMMA DrainInv ==
    ASSUME IInv, NEW h \in Key, NEW k \in 1 .. READ_MAX, Drain(h, k)
    PROVE  IInv'
PROOF
<1> USE DEF IInv
<1> DEFINE m == Head(wire[h])
           n == (nDataCount + 1) % (gsize - 1)
<1>1. /\ UNCHANGED <<hosts, dict, count, cl, crank, backlog, srv, fds, term,
                     high_io>>
      /\ h \in fds /\ k <= Len(wire[h])
      /\ wire' = [wire EXCEPT ![h] = SubSeq(@, k + 1, Len(@))]
      /\ \/ m.rank # 0 /\ Store(m)
         \/ UNCHANGED <<table, nDataCount, sums, log, hist>>
  BY DEF Drain, summary
<1>2. /\ count \in [Key -> Nat] /\ hosts \in Lists /\ fds \subseteq Client
      /\ table \in [Rank -> Int] /\ hist.heard \subseteq Rank
      /\ nDataCount \in Nat /\ sums \in [now : Int, saved : Int, delta : Int]
      /\ log \in [lines : Nat, last : Int, fast : BOOLEAN]
      /\ hist \in [heard : SUBSET Rank, tainted : BOOLEAN, since : 0 .. 2,
                   paced : BOOLEAN, rates : Int]
  BY DEF TypeOK
<1>3. /\ gsize' = gsize /\ Rank' = Rank /\ Client' = Client /\ Half' = Half
      /\ \A r : Host(r)' = Host(r)
  BY <1>1, HostsKept
<1>4. /\ gsize \in Nat \ {0, 1} /\ IsFiniteSet(Rank) /\ 0 \in Rank
      /\ h \in Client
  BY <1>1, <1>2, HostFacts
<1>5. k \in Nat \ {0}
  BY ReportAssumption
<1>6. /\ wire' \in [Key -> Seq(Half)]
      /\ \A x \in Key : x # h => wire'[x] = wire[x]
      /\ \A i \in DOMAIN wire'[h] : /\ k + i \in DOMAIN wire[h] /\ i \in Nat
                                    /\ wire'[h][i] = wire[h][k + i]
  BY <1>1, <1>5, CutWires
<1>7. /\ wire[h] \in Seq(Half) /\ Len(wire[h]) \in Nat /\ 1 \in DOMAIN wire[h]
      /\ DOMAIN wire[h] = 1 .. Len(wire[h])
      /\ m = wire[h][1]
  <2>1. /\ wire[h] \in Seq(Half) /\ Len(wire[h]) \in Nat
        /\ DOMAIN wire[h] = 1 .. Len(wire[h])
    BY WireFacts
  <2>2. 1 \in DOMAIN wire[h]
    BY <1>1, <1>5, <2>1
  <2> QED  BY <2>1, <2>2
<1>8. /\ m.rank \in Rank /\ m.count \in Nat /\ Host(m.rank) = h
      /\ m.count <= count[h]
  BY <1>7, WireFacts DEF Wires
<1> HIDE DEF m
<1> DEFINE t == [r \in Rank |-> CASE r = m.rank      -> m.count
                                  [] r = 0 /\ n = 0  -> count[Host(0)]
                                  [] OTHER           -> table[r]]
           heard == hist.heard \cup {m.rank} \cup {r \in {0} : n = 0}
<1>9. n \in Nat
  <2> DEFINE a == nDataCount + 1
             b == gsize - 1
  <2>1. a \in Nat /\ b \in Nat \ {0}
    BY <1>2, <1>4
  <2> HIDE DEF a, b
  <2>2. a % b \in Nat
    BY <2>1
  <2> QED  BY <2>2 DEF a, b
<1>10. CASE m.rank # 0 /\ Store(m)
  <2>1. /\ table' = t /\ nDataCount' = n
        /\ sums' = IF n = 0 THEN Summed(t) ELSE sums
        /\ hist' = [hist EXCEPT
                     !.heard   = heard,
                     !.tainted = @ \/ (n = 0 /\ heard # Rank),
                     !.since   = IF n = 0 /\ @ < 2 THEN @ + 1 ELSE @]
        /\ log' = log
    BY <1>10 DEF Store
  <2>2. Host(0) \in Key /\ count[Host(0)] \in Nat
    BY <1>2, <1>4, HostFacts
  <2>3. /\ t \in [Rank -> Int] /\ t[m.rank] = m.count
        /\ n = 0 => t[0] = count[Host(0)]
        /\ \A r \in Rank : r = m.rank \/ (r = 0 /\ n = 0) \/ t[r] = table[r]
    <3>1. \A r \in Rank : r = m.rank => t[r] = m.count
      BY <1>10
    <3>2. \A r \in Rank : r # m.rank /\ r = 0 /\ n = 0 => t[r] = count[Host(0)]
      BY <1>10
    <3>3. \A r \in Rank : r # m.rank /\ ~(r = 0 /\ n = 0) => t[r] = table[r]
      BY <1>10
    <3>4. t = [r \in Rank |-> t[r]]
      OBVIOUS
    <3> HIDE DEF t, n
    <3>5. \A r \in Rank : t[r] \in Int
      BY <1>2, <1>8, <2>2, <3>1, <3>2, <3>3
    <3> QED  BY <1>4, <1>8, <1>10, <3>1, <3>2, <3>3, <3>4, <3>5
  <2>4. heard \subseteq Rank /\ hist.heard \subseteq heard /\ m.rank \in heard
    BY <1>2, <1>4, <1>8
  <2>5. \A r \in heard : r = m.rank \/ (r = 0 /\ n = 0) \/ r \in hist.heard
    OBVIOUS
  <2> HIDE DEF t, n, heard
  <2>6. \A r \in heard : t[r] <= count[Host(r)]
    <3> TAKE r \in heard
    <3>1. CASE r = m.rank
      BY <1>8, <2>3, <3>1
    <3>2. CASE r = 0 /\ n = 0
      BY <2>2, <2>3, <3>2
    <3>3. CASE r # m.rank /\ ~(r = 0 /\ n = 0)
      <4>1. r \in hist.heard /\ r \in Rank
        BY <2>4, <2>5, <3>3
      <4>2. t[r] = table[r]
        BY <2>3, <3>3, <4>1
      <4> QED  BY <4>1, <4>2 DEF Rows
    <3> QED  BY <3>1, <3>2, <3>3
  <2>7. Total(t) \in Int
    BY <1>4, <2>3, TotalType
  <2>8. /\ hist'.heard = heard /\ hist'.paced = hist.paced
        /\ hist'.rates = hist.rates
        /\ hist'.tainted = (hist.tainted \/ (n = 0 /\ heard # Rank))
        /\ hist'.since = (IF n = 0 /\ hist.since < 2 THEN hist.since + 1
                                                     ELSE hist.since)
    BY <1>2, <2>1
  <2>9. hist' \in [heard : SUBSET Rank, tainted : BOOLEAN, since : 0 .. 2,
                   paced : BOOLEAN, rates : Int]
    <3>1. (IF n = 0 /\ hist.since < 2 THEN hist.since + 1 ELSE hist.since)
            \in 0 .. 2
      BY <1>2
    <3>2. (hist.tainted \/ (n = 0 /\ heard # Rank)) \in BOOLEAN
      OBVIOUS
    <3> QED  BY <1>2, <2>1, <2>4, <3>1, <3>2
  <2>10. TypeOK'
    <3>1. ~Full(dict)'
      BY <1>1, NotFull DEF TypeOK, Full
    <3>2. ASSUME NEW x \in Key, NEW i \in DOMAIN wire'[x]
          PROVE  wire'[x][i] \in [part : 1 .. 2, rank : Rank, count : Nat]
      <4>1. wire'[x] \in Seq(Half)
        BY <1>6
      <4>2. wire'[x][i] \in Half
        BY <4>1, ElementOfSeq, LenProperties
      <4> QED  BY <4>2 DEF Half
    <3>3. sums' \in [now : Int, saved : Int, delta : Int]
      BY <1>2, <2>1, <2>7 DEF Summed
    <3> QED  BY <1>1, <1>3, <1>9, <2>1, <2>3, <2>9, <3>1, <3>2, <3>3 DEF TypeOK
  <2>11. Rows'
    BY <1>1, <1>3, <2>1, <2>6, <2>8 DEF Rows, Host
  <2>12. Wires'
    <3>1. ASSUME NEW x \in Key, NEW i \in DOMAIN wire'[x]
          PROVE  /\ x \in Client /\ Host(wire'[x][i].rank) = x
                 /\ wire'[x][i].count <= count[x]
                 /\ wire'[x][i].rank \in heard =>
                       t[wire'[x][i].rank] <= wire'[x][i].count
      <4>1. CASE x = h
        <5>1. /\ k + i \in DOMAIN wire[h] /\ i \in Nat
              /\ wire'[h][i] = wire[h][k + i]
          BY <1>6, <4>1
        <5> DEFINE e == wire[h][k + i]
        <5>2. Host(e.rank) = h /\ e.count <= count[h] /\ e.rank \in Rank
          BY <5>1, WireFacts DEF Wires
        <5>3. e.rank = m.rank
          BY <1>2, <1>8, <5>2, HostFacts
        <5>4. m.count <= e.count
          BY <1>5, <1>7, <5>1 DEF Wires
        <5> QED  BY <1>4, <2>3, <4>1, <5>1, <5>2, <5>3, <5>4
      <4>2. CASE x # h
        <5>1. /\ wire'[x] = wire[x] /\ i \in DOMAIN wire[x]
          BY <1>6, <4>2
        <5> DEFINE e == wire[x][i]
        <5>2. x \in Client /\ Host(e.rank) = x /\ e.count <= count[x]
          BY <5>1 DEF Wires
        <5>3. e.rank \in Rank /\ e.rank # m.rank /\ e.rank # 0
          BY <1>8, <4>2, <5>1, <5>2, WireFacts DEF Client
        <5>4. e.rank \in heard => e.rank \in hist.heard
          BY <2>5, <5>3
        <5>5. t[e.rank] = table[e.rank]
          BY <2>3, <5>3
        <5>6. e.rank \in hist.heard => table[e.rank] <= e.count
          BY <5>1 DEF Wires
        <5> QED  BY <5>1, <5>2, <5>4, <5>5, <5>6
      <4> QED  BY <4>1, <4>2
    <3>2. ASSUME NEW x \in Key, NEW i \in DOMAIN wire'[x],
                 NEW j \in DOMAIN wire'[x], i <= j
          PROVE  wire'[x][i].count <= wire'[x][j].count
      <4>1. CASE x = h
        BY <1>5, <1>6, <3>2, <4>1 DEF Wires
      <4>2. CASE x # h
        BY <1>6, <3>2, <4>2 DEF Wires
      <4> QED  BY <4>1, <4>2
    <3>3. wire' \in [Key -> Seq(Half')]
      BY <1>3, <1>6
    <3>4. \A x \in Key : \A i \in DOMAIN wire'[x] :
             Host(wire[x][i].rank)' = Host(wire'[x][i].rank)
      BY <1>1 DEF Host
    <3> QED  BY <1>1, <1>3, <2>1, <2>8, <3>1, <3>2, <3>3, <3>4 DEF Wires
  <2>13. Rates'
    <3>1. log' = log /\ gsize' # 1 /\ hist.since \in 0 .. 2
      BY <1>2, <1>3, <1>4, <2>1
    <3>2. CASE n = 0
      <4>1. /\ sums'.now = Total(t) /\ sums'.saved = Total(t)
            /\ sums'.delta = Total(t) - sums.saved
        BY <2>1, <3>2 DEF Summed
      <4>2. hist'.since # 0
        BY <2>8, <3>1, <3>2
      <4>3. log'.lines # 0 /\ hist'.since = 1
              => sums'.now - sums'.delta = log'.last
        <5> SUFFICES ASSUME log.lines # 0, hist'.since = 1
                     PROVE  sums'.now - sums'.delta = log.last
          BY <3>1
        <5>1. hist.since = 0
          BY <2>8, <3>1, <3>2
        <5>2. sums.now = log.last /\ sums.saved = sums.now
          BY <5>1 DEF Rates
        <5> DEFINE T == Total(t)
        <5>3. T \in Int /\ log.last \in Int
          BY <1>2, <2>7
        <5> HIDE DEF T
        <5>4. T - (T - log.last) = log.last
          BY <5>3
        <5> QED  BY <4>1, <5>2, <5>4 DEF T
      <4> QED  BY <2>8, <3>1, <4>1, <4>2, <4>3 DEF Rates, RatesAddUp
    <3>3. CASE n # 0
      <4>1. sums' = sums /\ hist'.since = hist.since
        BY <2>1, <2>8, <3>3
      <4> QED  BY <2>8, <3>1, <4>1 DEF Rates, RatesAddUp
    <3> QED  BY <3>2, <3>3
  <2>14. Counted'
    <3>1. Total(count)' = Total(count)
      BY <1>1
    <3>2. CASE n = 0
      <4>1. sums'.now = Total(t)
        BY <2>1, <3>2 DEF Summed
      <4>2. ~hist'.tainted => ~hist.tainted /\ heard = Rank
        BY <2>8, <3>2
      <4>3. heard = Rank => Total(t) <= Total(count)
        BY <1>2, <2>3, <2>6, TotalOfRows
      <4> QED  BY <1>1, <2>1, <3>1, <4>1, <4>2, <4>3
               DEF Counted, WarningJustified
    <3>3. CASE n # 0
      <4>1. sums' = sums /\ hist'.tainted = hist.tainted
        BY <1>2, <2>1, <2>8, <3>3
      <4> QED  BY <1>1, <2>1, <3>1, <4>1 DEF Counted, WarningJustified
    <3> QED  BY <3>2, <3>3
  <2>15. Listed'
    BY <1>1, ListedKept
  <2>16. Ranked'
    BY <1>1, RankedKept DEF Ranked
  <2> QED  BY <2>10, <2>11, <2>12, <2>13, <2>14, <2>15, <2>16
<1>11. CASE UNCHANGED <<table, nDataCount, sums, log, hist>>
  <2>1. TypeOK'
    <3>1. ~Full(dict)'
      BY <1>1, NotFull DEF TypeOK, Full
    <3>2. ASSUME NEW x \in Key, NEW i \in DOMAIN wire'[x]
          PROVE  wire'[x][i] \in [part : 1 .. 2, rank : Rank, count : Nat]
      <4>1. wire'[x] \in Seq(Half)
        BY <1>6
      <4>2. wire'[x][i] \in Half
        BY <4>1, ElementOfSeq, LenProperties
      <4> QED  BY <4>2 DEF Half
    <3> QED  BY <1>1, <1>3, <1>11, <3>1, <3>2 DEF TypeOK
  <2>2. Listed'
    BY <1>1, ListedKept
  <2>3. Ranked'
    BY <1>1, RankedKept DEF Ranked
  <2>4. Rows'
    BY <1>1, <1>2, <1>11, RowsKept
  <2>5. Wires'
    <3>1. ASSUME NEW x \in Key, NEW i \in DOMAIN wire'[x]
          PROVE  \E j \in DOMAIN wire[x] : wire'[x][i] = wire[x][j]
      BY <1>6
    <3>2. ASSUME NEW x \in Key, NEW i \in DOMAIN wire'[x]
          PROVE  /\ x \in Client /\ Host(wire'[x][i].rank) = x
                 /\ wire'[x][i].count <= count[x]
                 /\ wire'[x][i].rank \in hist.heard =>
                       table[wire'[x][i].rank] <= wire'[x][i].count
      BY <3>1 DEF Wires
    <3>3. ASSUME NEW x \in Key, NEW i \in DOMAIN wire'[x],
                 NEW j \in DOMAIN wire'[x], i <= j
          PROVE  wire'[x][i].count <= wire'[x][j].count
      <4>1. CASE x = h
        BY <1>5, <1>6, <3>3, <4>1 DEF Wires
      <4>2. CASE x # h
        BY <1>6, <3>3, <4>2 DEF Wires
      <4> QED  BY <4>1, <4>2
    <3>4. wire' \in [Key -> Seq(Half')]
      BY <1>3, <1>6
    <3>5. \A x \in Key : \A i \in DOMAIN wire'[x] :
             Host(wire[x][i].rank)' = Host(wire'[x][i].rank)
      BY <1>1 DEF Host
    <3> QED  BY <1>1, <1>3, <1>11, <3>2, <3>3, <3>4, <3>5 DEF Wires
  <2>6. Rates'
    BY <1>1, <1>11, RatesKept
  <2>7. Counted'
    BY <1>1, <1>11, CountedKept
  <2> QED  BY <2>1, <2>2, <2>3, <2>4, <2>5, <2>6, <2>7
<1> QED  BY <1>1, <1>10, <1>11

\* The calls that r tenths stand for are the total last, but for what was rounded
\* in so many lines.
Accounted(r, last, lines) ==
    LET gap == 2 * (r - 10 * last)
    IN  -(Interval * lines) <= gap /\ gap <= Interval * lines

\* A figure is a whole number of tenths.
LEMMA TenthsType ==
    ASSUME NEW d \in Int, NEW f \in Tenths(d)
    PROVE  f \in Int
PROOF
<1>1. (10 * d) \div Interval \in Int
  BY ReportAssumption
<1> QED  BY <1>1 DEF Tenths

\* A line with one summary before it accounts for what the total has grown.
LEMMA LineAccounts ==
    ASSUME NEW r \in Int, NEW last \in Int, NEW lines \in Nat, NEW d \in Int,
           NEW f \in Tenths(d), Accounted(r, last, lines)
    PROVE  Accounted(r + Interval * f, last + d, lines + 1)
PROOF
<1> DEFINE grown == Interval * f
           room  == Interval * lines
<1>1. f \in Int /\ Interval \in Int
  BY TenthsType, ReportAssumption
<1>2. grown \in Int /\ room \in Int /\ Interval * (lines + 1) = room + Interval
  BY <1>1
<1>3. -Interval <= 2 * (grown - 10 * d) /\ 2 * (grown - 10 * d) <= Interval
  BY DEF Tenths
<1>4. -room <= 2 * (r - 10 * last) /\ 2 * (r - 10 * last) <= room
  BY DEF Accounted
<1> HIDE DEF grown, room
<1>5. /\ -(room + Interval) <= 2 * ((r + grown) - 10 * (last + d))
      /\ 2 * ((r + grown) - 10 * (last + d)) <= room + Interval
  BY <1>1, <1>2, <1>3, <1>4
<1> QED  BY <1>2, <1>5 DEF Accounted, grown, room

\* A line of the log has the total or the last difference per second as its
\* figure.
LEMMA AlarmInv == IInv /\ Alarm => IInv'
PROOF
<1> SUFFICES ASSUME IInv, Alarm PROVE IInv'
  OBVIOUS
<1> USE DEF IInv
<1> DEFINE alone == gsize = 1
           t     == IF alone THEN [table EXCEPT ![0] = count[Host(0)]] ELSE table
           s     == IF alone THEN Summed(t) ELSE sums
           since == IF alone THEN 1 ELSE hist.since
           first == log.lines = 0
           Figures == IF first THEN {10 * s.now} ELSE Tenths(s.delta)
<1>1. PICK f \in Figures :
      /\ UNCHANGED <<hosts, dict, count, cl, crank, wire, backlog, srv, fds,
                     term, nDataCount, high_io>>
      /\ table' = t /\ sums' = s
      /\ log' = [lines |-> log.lines + 1, last |-> s.now,
                 fast  |-> log.fast \/ f >= RateThreshold]
      /\ hist' = [hist EXCEPT
                   !.heard = @ \cup {r \in {0} : alone},
                   !.since = 0,
                   !.paced = @ /\ (first \/ since = 1),
                   !.rates = @ + IF first THEN f ELSE Interval * f]
  BY DEF Alarm, net
<1>2. /\ count \in [Key -> Nat] /\ hosts \in Lists
      /\ table \in [Rank -> Int] /\ hist.heard \subseteq Rank
      /\ sums \in [now : Int, saved : Int, delta : Int]
      /\ log \in [lines : Nat, last : Int, fast : BOOLEAN]
      /\ hist \in [heard : SUBSET Rank, tainted : BOOLEAN, since : 0 .. 2,
                   paced : BOOLEAN, rates : Int]
  BY DEF TypeOK
<1>3. /\ gsize' = gsize /\ Rank' = Rank /\ Client' = Client /\ Half' = Half
      /\ \A r : Host(r)' = Host(r)
  BY <1>1, HostsKept
<1>4. /\ gsize \in Nat \ {0} /\ IsFiniteSet(Rank) /\ 0 \in Rank
      /\ Host(0) \in Key /\ count[Host(0)] \in Nat
  BY <1>2, HostFacts
<1>5. /\ t \in [Rank -> Int]
      /\ alone => t[0] = count[Host(0)]
      /\ \A r \in Rank : (r = 0 /\ alone) \/ t[r] = table[r]
  BY <1>2, <1>4
<1>6. alone => Rank = {0}
  BY DEF Rank
<1> HIDE DEF t
<1>7. Total(t) \in Int
  BY <1>4, <1>5, TotalType
<1>8. /\ s \in [now : Int, saved : Int, delta : Int]
      /\ alone => /\ s.now = Total(t) /\ s.saved = Total(t)
                  /\ s.delta = Total(t) - sums.saved
      /\ ~alone => s = sums
  BY <1>2, <1>7 DEF Summed
<1> HIDE DEF s
<1>9. /\ f \in Int
      /\ log.lines = 0 => f = 10 * s.now
      /\ log.lines # 0 => f \in Tenths(s.delta)
  <2>1. log.lines # 0 => f \in Int
    BY <1>8, TenthsType
  <2>2. log.lines = 0 => f = 10 * s.now /\ f \in Int
    BY <1>8
  <2> QED  BY <2>1, <2>2
<1> DEFINE figure == IF first THEN f ELSE Interval * f
<1>22. figure \in Int
  BY <1>9, ReportAssumption
<1> HIDE DEF Figures
<1>10. /\ log'.lines = log.lines + 1 /\ log'.last = s.now
       /\ log' \in [lines : Nat, last : Int, fast : BOOLEAN]
  <2>1. (log.fast \/ f >= RateThreshold) \in BOOLEAN
    OBVIOUS
  <2> QED  BY <1>1, <1>2, <1>8, <2>1
<1> DEFINE heard == hist.heard \cup {r \in {0} : alone}
<1>11. heard \subseteq Rank /\ \A r \in heard : (r = 0 /\ alone) \/ r \in hist.heard
  BY <1>2, <1>4
<1>12. /\ hist'.heard = heard /\ hist'.tainted = hist.tainted
       /\ hist'.since = 0 /\ hist'.rates = hist.rates + figure
       /\ hist'.paced = (hist.paced /\ (log.lines = 0 \/ since = 1))
  BY <1>1, <1>2
<1>13. hist' \in [heard : SUBSET Rank, tainted : BOOLEAN, since : 0 .. 2,
                  paced : BOOLEAN, rates : Int]
  <2>1. (hist.paced /\ (log.lines = 0 \/ since = 1)) \in BOOLEAN
    OBVIOUS
  <2>2. hist.rates + figure \in Int
    BY <1>2, <1>22
  <2>3. hist' = [heard   |-> heard, tainted |-> hist.tainted, since |-> 0,
                 paced   |-> hist.paced /\ (log.lines = 0 \/ since = 1),
                 rates   |-> hist.rates + figure]
    BY <1>1, <1>2
  <2> HIDE DEF heard, since, figure
  <2> QED  BY <1>2, <1>11, <2>1, <2>2, <2>3
<1> HIDE DEF heard, figure
<1>14. TypeOK'
  <2>1. ~Full(dict)'
    BY <1>1, NotFull DEF TypeOK, Full
  <2> QED  BY <1>1, <1>3, <1>5, <1>8, <1>10, <1>13, <2>1 DEF TypeOK
<1>15. Listed'
  BY <1>1, ListedKept
<1>16. Ranked'
  BY <1>1, RankedKept DEF Ranked
<1>17. \A r \in heard : t[r] <= count[Host(r)]
  <2> TAKE r \in heard
  <2>1. CASE r = 0 /\ alone
    BY <1>4, <1>5, <2>1
  <2>2. CASE ~(r = 0 /\ alone)
    <3>1. r \in hist.heard /\ r \in Rank
      BY <1>11, <2>2
    <3>2. t[r] = table[r]
      BY <1>5, <2>2, <3>1
    <3> QED  BY <3>1, <3>2 DEF Rows
  <2> QED  BY <2>1, <2>2
<1>18. Rows'
  BY <1>1, <1>3, <1>12, <1>17 DEF Rows, Host
<1>19. Wires'
  <2>1. ASSUME NEW x \in Key, NEW i \in DOMAIN wire[x]
        PROVE  wire[x][i].rank \in heard => t[wire[x][i].rank] <= wire[x][i].count
    <3> DEFINE e == wire[x][i]
    <3>1. e.rank \in Rank /\ Host(e.rank) = x /\ x \in Client
      BY WireFacts DEF Wires
    <3>2. e.rank # 0
      BY <3>1 DEF Client
    <3>3. t[e.rank] = table[e.rank]
      BY <1>5, <3>1, <3>2
    <3>4. e.rank \in heard => e.rank \in hist.heard
      BY <1>11, <3>2
    <3>5. e.rank \in hist.heard => table[e.rank] <= e.count
      BY DEF Wires
    <3> QED  BY <3>3, <3>4, <3>5
  <2>2. wire' \in [Key -> Seq(Half')]
    BY <1>1, <1>3 DEF Wires
  <2>3. \A x \in Key : \A i \in DOMAIN wire'[x] :
           Host(wire[x][i].rank)' = Host(wire'[x][i].rank)
    BY <1>1 DEF Host
  <2> QED  BY <1>1, <1>3, <1>12, <2>1, <2>2, <2>3 DEF Wires
<1>20. Rates'
  <2>1. sums' = s /\ log'.lines # 0 /\ gsize' = gsize
    BY <1>1, <1>2, <1>3, <1>10
  <2>2. s.saved = s.now
    BY <1>8 DEF Rates
  <2>3. RatesAddUp'
    <3>0. SUFFICES ASSUME hist'.paced
                 PROVE  Accounted(hist'.rates, log'.last, log'.lines)
      BY DEF RatesAddUp, Accounted
    <3>1. hist.paced /\ (log.lines = 0 \/ since = 1)
      BY <1>12, <3>0
    <3>2. Accounted(hist.rates, log.last, log.lines)
      BY <3>1 DEF Rates, RatesAddUp, Accounted
    <3>3. CASE log.lines = 0
      <4>1. hist.rates = 0 /\ log'.lines = 1
        BY <1>10, <3>3 DEF Rates
      <4>2. hist'.rates = 10 * s.now /\ log'.last = s.now
        BY <1>8, <1>9, <1>10, <1>12, <3>3, <4>1 DEF figure
      <4> DEFINE now == s.now
      <4>3. now \in Int /\ Accounted(10 * now, now, 1)
        BY <1>8, ReportAssumption DEF Accounted
      <4> QED  BY <4>1, <4>2, <4>3
    <3>4. CASE log.lines # 0
      <4>1. s.now - s.delta = log.last
        <5>1. CASE alone
          <6>1. sums.saved = log.last
            BY <3>4, <5>1 DEF Rates
          <6> DEFINE T == Total(t)
          <6>2. T \in Int /\ log.last \in Int
            BY <1>2, <1>7
          <6> HIDE DEF T
          <6>3. T - (T - log.last) = log.last
            BY <6>2
          <6> QED  BY <1>8, <5>1, <6>1, <6>3 DEF T
        <5>2. CASE ~alone
          BY <1>8, <3>1, <3>4, <5>2 DEF Rates
        <5> QED  BY <5>1, <5>2
      <4> DEFINE delta == s.delta
      <4>2. /\ delta \in Int /\ log.last \in Int /\ hist.rates \in Int
            /\ log.lines \in Nat /\ f \in Tenths(delta)
            /\ s.now = log.last + delta
        BY <1>2, <1>8, <1>9, <3>4, <4>1
      <4>3. /\ hist'.rates = hist.rates + Interval * f /\ log'.last = s.now
            /\ log'.lines = log.lines + 1
        BY <1>10, <1>12, <3>4 DEF figure
      <4> HIDE DEF delta
      <4> QED  BY <3>2, <4>2, <4>3, LineAccounts
    <3> QED  BY <3>3, <3>4
  <2> QED  BY <1>10, <1>12, <2>1, <2>2, <2>3 DEF Rates, RatesAddUp
<1>21. Counted'
  <2>1. Total(count)' = Total(count)
    BY <1>1
  <2>2. ~hist.tainted => s.now <= Total(count)
    <3>1. CASE alone
      <4>1. heard = Rank
        BY <1>6, <1>11, <3>1 DEF heard
      <4> QED  BY <1>2, <1>5, <1>8, <1>17, <3>1, <4>1, TotalOfRows
    <3>2. CASE ~alone
      BY <1>8, <3>2 DEF Counted
    <3> QED  BY <3>1, <3>2
  <2> QED  BY <1>1, <1>10, <1>12, <2>1, <2>2 DEF Counted, WarningJustified
<1> QED  BY <1>14, <1>15, <1>16, <1>18, <1>19, <1>20, <1>21

\* A stutter changes nothing.
LEMMA StutterInv == IInv /\ UNCHANGED vars => IInv'
PROOF
<1> SUFFICES ASSUME IInv, UNCHANGED vars PROVE IInv'
  OBVIOUS
<1> USE DEF IInv
<1>1. UNCHANGED <<hosts, dict, count, cl, crank, wire, backlog, srv, fds, term,
                  table, nDataCount, sums, log, hist, high_io>>
  BY DEF vars, net, summary
<1>2. /\ count \in [Key -> Nat] /\ hosts \in Lists
      /\ table \in [Rank -> Int] /\ hist.heard \subseteq Rank
      /\ \A h \in Key : count[h] <= count'[h]
  BY <1>1 DEF TypeOK
<1>3. TypeOK'
  <2>1. gsize' = gsize /\ Rank' = Rank /\ Client' = Client
    BY <1>1, HostsKept
  <2>2. ~Full(dict)'
    BY <1>1, NotFull DEF TypeOK, Full
  <2> QED  BY <1>1, <2>1, <2>2 DEF TypeOK
<1>4. Listed'
  BY <1>1, ListedKept
<1>5. Ranked'
  BY <1>1, RankedKept DEF Ranked
<1>6. Rows'
  BY <1>1, <1>2, RowsKept
<1>7. Wires'
  BY <1>1, <1>2, WiresKept
<1>8. Rates'
  BY <1>1, RatesKept
<1>9. Counted'
  BY <1>1, CountedKept
<1> QED  BY <1>3, <1>4, <1>5, <1>6, <1>7, <1>8, <1>9

\* Every step keeps the invariant.
LEMMA NextInv == IInv /\ [Next]_vars => IInv'
PROOF
<1> SUFFICES ASSUME IInv, [Next]_vars PROVE IInv'
  OBVIOUS
<1>1. ASSUME NEW h \in Key, Call(h) PROVE IInv'
  BY <1>1, CallInv
<1>2. ASSUME NEW h \in Key, Connect(h) PROVE IInv'
  BY <1>2, ConnectInv
<1>3. ASSUME NEW h \in Key, SendName(h) \/ Die(h) PROVE IInv'
  BY <1>3, ClientStepInv
<1>4. ASSUME NEW h \in Key, SendReport(h) PROVE IInv'
  BY <1>4, SendReportInv
<1>5. ASSUME NEW h \in Key, NEW k \in 1 .. READ_MAX, Drain(h, k) PROVE IInv'
  BY <1>5, DrainInv
<1>6. CASE Accept \/ Terminate \/ \E h \in Key : Close(h)
  BY <1>6, ServerStepInv
<1>7. CASE Greet
  BY <1>7, GreetInv
<1>8. CASE Alarm
  BY <1>8, AlarmInv
<1>9. CASE Stop \/ Interrupt
  BY <1>9, StopInv
<1>10. CASE UNCHANGED vars
  BY <1>10, StutterInv
<1> QED  BY <1>1, <1>2, <1>3, <1>4, <1>5, <1>6, <1>7, <1>8, <1>9, <1>10
         DEF Next, Read

\* The strengthening holds throughout: each row at most the counter of its node,
\* the reports under way between the two, and the sums as the log shows them.
THEOREM Invariance == Spec => []IInv
PROOF
<1> QED  BY InitInv, NextInv, PTL DEF Spec

-----------------------------------------------------------------------------
(* What follows from it.                                                   *)

\* The types of Report: no rank, row or connection is used that is not there, and
\* the dictionary of the hosts never fills up.
THEOREM TypeCorrect == Spec => []TypeOK
PROOF
<1>1. IInv => TypeOK
  BY DEF IInv
<1> QED  BY <1>1, Invariance, PTL

\* RanksRight: accept_client tells each client the index of its own host in the
\* host file, for every list of hosts and every hash function.
THEOREM RanksAreRight == Spec => []RanksRight
PROOF
<1>1. IInv => RanksRight
  BY DEF IInv, Ranked, RanksRight, Host
<1> QED  BY <1>1, Invariance, PTL

\* RatesAddUp: with one summary in every period the first total and the rates of
\* the log, over any interval, account for the last total but for the rounding
\* of the figures (periodic, Print_Summary).
THEOREM RatesAreComplete == Spec => []RatesAddUp
PROOF
<1>1. IInv => RatesAddUp
  BY DEF IInv, Rates
<1> QED  BY <1>1, Invariance, PTL

\* WarningJustified: a job that is warned has made the calls, whatever the
\* thresholds, unless rows that were never stored were added up.
THEOREM WarningsAreJustified == Spec => []WarningJustified
PROOF
<1>1. IInv => WarningJustified
  BY DEF IInv, Counted
<1> QED  BY <1>1, Invariance, PTL


-----------------------------------------------------------------------------
(* The server implements the collector.                                    *)

\* The nodes heard from and the number kept of each, as Collects maps them.
Heard == {Host(r) : r \in hist.heard}
Seen  == [h \in Key |-> IF h \in Node
                          THEN table[CHOOSE r \in Rank : Host(r) = h]
                          ELSE 0]

\* Seen is the table by name of the host, 0 for a name that has no row.
LEMMA SeenFacts ==
    ASSUME hosts \in Lists, table \in [Rank -> Int]
    PROVE  /\ Seen \in [Key -> Int]
           /\ \A r \in Rank : Seen[Host(r)] = table[r]
           /\ \A h \in Key \ Node : Seen[h] = 0
PROOF
<1>1. ASSUME NEW r \in Rank PROVE (CHOOSE q \in Rank : Host(q) = Host(r)) = r
  BY HostFacts
<1>2. ASSUME NEW r \in Rank PROVE Seen[Host(r)] = table[r]
  <2>1. Host(r) \in Node /\ Host(r) \in Key
    BY HostFacts DEF Node
  <2> QED  BY <1>1, <2>1 DEF Seen
<1>3. \A h \in Key \ Node : Seen[h] = 0
  BY DEF Seen
<1>4. ASSUME NEW h \in Key PROVE Seen[h] \in Int
  <2>1. CASE h \in Node
    <3>1. PICK r \in Rank : Host(r) = h
      BY <2>1, HostFacts
    <3> QED  BY <1>2, <3>1
  <2>2. CASE h \notin Node
    BY <1>3, <2>2
  <2> QED  BY <2>1, <2>2
<1>5. Seen \in [Key -> Int]
  <2>1. Seen = [h \in Key |-> Seen[h]]
    BY DEF Seen
  <2> QED  BY <1>4, <2>1
<1> QED  BY <1>2, <1>3, <1>5

\* The total of the table is the sum over all names.
LEMMA SeenTotal ==
    ASSUME hosts \in Lists, table \in [Rank -> Int]
    PROVE  Total(table) = SumOver(Seen, Key)
PROOF
<1> DEFINE b == [r \in Rank |-> Host(r)]
<1>1. IsFiniteSet(Key) /\ IsFiniteSet(Rank) /\ Node \subseteq Key
  BY ReportAssumption, HostFacts
<1>2. IsFiniteSet(Node)
  BY <1>1, FS_Subset
<1>3. \A r \in Rank : b[r] \in Node /\ table[r] = Seen[b[r]] /\ table[r] \in Int
  BY SeenFacts DEF Node
<1>4. \A r, q \in Rank : b[r] = b[q] => r = q
  BY HostFacts
<1>5. \A h \in Node : \E r \in Rank : b[r] = h
  BY HostFacts
<1>6. \A h \in Key : Seen[h] \in Int
  BY SeenFacts
<1>7. \A h \in Node : Seen[h] \in Int
  BY <1>1, <1>6
<1> HIDE DEF b
<1>8. SumOver(table, Rank) = SumOver(Seen, Node)
  BY <1>1, <1>2, <1>3, <1>4, <1>5, <1>7, SumOverReindex
<1>9. SumOver(Seen, Key) = SumOver(Seen, Node)
  BY <1>1, <1>6, SeenFacts, SumOverSupport
<1>10. Total(table) = SumOver(table, Rank)
  BY TotalIsSum
<1> QED  BY <1>8, <1>9, <1>10

\* The collector sums as the server does.
LEMMA SumOfIsSum ==
    ASSUME NEW S, NEW f, DOMAIN f = S
    PROVE  Collects!SumOf(f) = SumOver(f, S)
PROOF
<1> QED  BY DEF Collects!SumOf, Collects!MapThenSumSet, Collects!MapThenFoldSet,
                SumOver, MapThenSumSet, MapThenFoldSet

\* Both hold after a step as well.
SeenRight ==
    hosts \in Lists /\ table \in [Rank -> Int] =>
        /\ Seen \in [Key -> Int]
        /\ \A r \in Rank : Seen[Host(r)] = table[r]
        /\ \A h \in Key \ Node : Seen[h] = 0
        /\ Total(table) = SumOver(Seen, Key)

\* The two facts as one state predicate, ...
LEMMA SeenIsRight == SeenRight
PROOF
<1> QED  BY SeenFacts, SeenTotal DEF SeenRight

\* ... which holds in the next state too.
LEMMA SeenStaysRight == SeenRight'
PROOF
<1> QED  BY SeenIsRight, PTL

\* Rows that become newer, and perhaps their sum, are a step of the collector.
LEMMA CollectStep ==
    ASSUME hosts \in Lists, table \in [Rank -> Int], hist.heard \subseteq Rank,
           UNCHANGED <<hosts, count>>, table' \in [Rank -> Int],
           hist.heard \subseteq hist'.heard, hist'.heard \subseteq Rank,
           \A r \in Rank :
              \/ table'[r] = table[r] /\ (r \in hist'.heard => r \in hist.heard)
              \/ /\ r \in hist'.heard
                 /\ table'[r] <= count[Host(r)]
                 /\ r \in hist.heard => table'[r] >= table[r],
           sums'.now = sums.now \/ sums'.now = Total(table')
    PROVE  Collects!Collect
PROOF
<1>1. /\ gsize' = gsize /\ Rank' = Rank /\ Node' = Node
      /\ \A r : Host(r)' = Host(r)
  BY HostsKept
<1>2. hosts' \in Lists /\ table' \in [Rank' -> Int]
  BY <1>1
<1>3. /\ Seen' \in [Key -> Int]
      /\ \A r \in Rank : Seen'[Host(r)] = table'[r]
      /\ \A h \in Key \ Node : Seen'[h] = 0
  <2>1. /\ Seen' \in [Key -> Int]
        /\ \A r \in Rank' : Seen'[Host(r)'] = table'[r]
        /\ \A h \in Key \ Node' : Seen'[h] = 0
    BY <1>2, SeenStaysRight DEF SeenRight
  <2> QED  BY <1>1, <2>1
<1>4. Heard' = {Host(r) : r \in hist'.heard}
  BY <1>1 DEF Heard
<1>5. Heard \subseteq Heard'
  BY <1>4 DEF Heard
<1>6. ASSUME NEW h \in Key
      PROVE  \/ Seen'[h] = Seen[h] /\ (h \in Heard' => h \in Heard)
             \/ /\ h \in Heard'
                /\ Seen'[h] <= count[h]
                /\ h \in Heard => Seen'[h] >= Seen[h]
  <2>1. CASE h \in Node
    <3>1. PICK r \in Rank : Host(r) = h
      BY <2>1, HostFacts
    <3>2. Seen'[h] = table'[r] /\ Seen[h] = table[r]
      BY <1>3, <3>1, SeenFacts
    <3>3. (h \in Heard <=> r \in hist.heard) /\ (h \in Heard' <=> r \in hist'.heard)
      BY <1>4, <3>1, HostFacts DEF Heard
    <3> QED  BY <3>1, <3>2, <3>3
  <2>2. CASE h \notin Node
    <3>1. Seen'[h] = Seen[h]
      BY <1>3, <2>2, SeenFacts
    <3>2. h \notin Heard'
      BY <1>4, <2>2 DEF Node
    <3> QED  BY <3>1, <3>2
  <2> QED  BY <2>1, <2>2
<1>7. sums'.now \in {sums.now, SumOver(Seen', Key)}
  <2>1. Total(table)' = SumOver(Seen, Key)'
    BY <1>2, SeenStaysRight DEF SeenRight
  <2> QED  BY <2>1
<1>8. DOMAIN Seen' = Key
  BY <1>3
<1>9. Collects!SumOf(Seen') = SumOver(Seen', Key)
  BY <1>8, SumOfIsSum
<1> QED  BY <1>5, <1>6, <1>7, <1>8, <1>9 DEF Collects!Collect, Heard, Seen

\* A summary, or a row replaced, is a step of Collector.
LEMMA DrainCollects ==
    ASSUME IInv, IInv', NEW h \in Key, NEW k \in 1 .. READ_MAX, Drain(h, k)
    PROVE  Collects!Collect
PROOF
<1> DEFINE m == Head(wire[h])
           n == (nDataCount + 1) % (gsize - 1)
           t == [r \in Rank |-> CASE r = m.rank      -> m.count
                                  [] r = 0 /\ n = 0  -> count[Host(0)]
                                  [] OTHER           -> table[r]]
           heard == hist.heard \cup {m.rank} \cup {r \in {0} : n = 0}
<1>1. /\ UNCHANGED <<hosts, count>>
      /\ k <= Len(wire[h])
      /\ \/ /\ m.rank # 0
            /\ table' = t
            /\ sums' = IF n = 0 THEN Summed(t) ELSE sums
            /\ hist' = [hist EXCEPT
                         !.heard   = heard,
                         !.tainted = @ \/ (n = 0 /\ heard # Rank),
                         !.since   = IF n = 0 /\ @ < 2 THEN @ + 1 ELSE @]
         \/ UNCHANGED <<table, sums, hist>>
  BY DEF Drain, Store, summary
<1>2. /\ count \in [Key -> Nat] /\ hosts \in Lists
      /\ table \in [Rank -> Int] /\ hist.heard \subseteq Rank
      /\ hist \in [heard : SUBSET Rank, tainted : BOOLEAN, since : 0 .. 2,
                   paced : BOOLEAN, rates : Int]
  BY DEF IInv, TypeOK
<1>3. table' \in [Rank -> Int] /\ hist'.heard \subseteq Rank
  <2>1. Rank' = Rank
    BY <1>1, HostsKept
  <2> QED  BY <2>1 DEF IInv, TypeOK
<1>4. CASE UNCHANGED <<table, sums, hist>>
  BY <1>1, <1>2, <1>4, CollectStep
<1>5. CASE /\ m.rank # 0
           /\ table' = t
           /\ sums' = IF n = 0 THEN Summed(t) ELSE sums
           /\ hist'.heard = heard
  <2>1. 1 \in DOMAIN wire[h] /\ m = wire[h][1]
    <3>1. /\ wire[h] \in Seq(Half) /\ Len(wire[h]) \in Nat
          /\ DOMAIN wire[h] = 1 .. Len(wire[h])
      BY WireFacts DEF IInv
    <3>2. k \in Nat \ {0}
      BY ReportAssumption
    <3>3. 1 \in DOMAIN wire[h]
      BY <1>1, <3>1, <3>2
    <3> QED  BY <3>1, <3>3
  <2>2. /\ m.rank \in Rank /\ m.count \in Nat /\ Host(m.rank) = h
        /\ m.count <= count[h]
        /\ m.rank \in hist.heard => table[m.rank] <= m.count
    BY <2>1, WireFacts DEF IInv, Wires
  <2> HIDE DEF m
  <2>3. /\ \A r \in Rank : r = m.rank => t[r] = m.count
        /\ \A r \in Rank : r = 0 /\ n = 0 => t[r] = count[Host(0)]
        /\ \A r \in Rank : r # m.rank /\ ~(r = 0 /\ n = 0) => t[r] = table[r]
    BY <1>5
  <2>4. \A r \in Rank : /\ r = m.rank => r \in heard
                        /\ r = 0 /\ n = 0 => r \in heard
                        /\ r # m.rank /\ ~(r = 0 /\ n = 0) /\ r \in heard
                              => r \in hist.heard
    OBVIOUS
  <2>5. hist.heard \subseteq heard
    OBVIOUS
  <2> HIDE DEF t, n, heard
  <2>6. ASSUME NEW r \in Rank
        PROVE  \/ t[r] = table[r] /\ (r \in heard => r \in hist.heard)
               \/ /\ r \in heard
                  /\ t[r] <= count[Host(r)]
                  /\ r \in hist.heard => t[r] >= table[r]
    <3>1. CASE r = m.rank
      BY <1>2, <2>2, <2>3, <2>4, <3>1
    <3>2. CASE r = 0 /\ n = 0
      <4>1. count[Host(0)] \in Nat
        BY <1>2, HostFacts
      <4>2. 0 \in hist.heard => table[0] <= count[Host(0)]
        BY DEF IInv, Rows
      <4> QED  BY <2>3, <2>4, <3>2, <4>1, <4>2
    <3>3. CASE r # m.rank /\ ~(r = 0 /\ n = 0)
      BY <2>3, <2>4, <3>3
    <3> QED  BY <3>1, <3>2, <3>3
  <2>7. sums'.now = sums.now \/ sums'.now = Total(table')
    BY <1>5 DEF Summed
  <2> QED  BY <1>1, <1>2, <1>3, <1>5, <2>5, <2>6, <2>7, CollectStep
<1>6. ASSUME hist' = [hist EXCEPT
                       !.heard   = heard,
                       !.tainted = @ \/ (n = 0 /\ heard # Rank),
                       !.since   = IF n = 0 /\ @ < 2 THEN @ + 1 ELSE @]
      PROVE  hist'.heard = heard
  <2> HIDE DEF heard, n
  <2> QED  BY <1>2, <1>6
<1> QED  BY <1>1, <1>4, <1>5, <1>6

\* A line of the log is a step of Collector.
LEMMA AlarmCollects == IInv /\ IInv' /\ Alarm => Collects!Collect
PROOF
<1> SUFFICES ASSUME IInv, IInv', Alarm PROVE Collects!Collect
  OBVIOUS
<1> DEFINE alone == gsize = 1
           t     == IF alone THEN [table EXCEPT ![0] = count[Host(0)]] ELSE table
           heard == hist.heard \cup {r \in {0} : alone}
<1>1. /\ UNCHANGED <<hosts, count>>
      /\ table' = t /\ sums' = IF alone THEN Summed(t) ELSE sums
  BY DEF Alarm
<1>2. /\ count \in [Key -> Nat] /\ hosts \in Lists
      /\ table \in [Rank -> Int] /\ hist.heard \subseteq Rank
      /\ hist \in [heard : SUBSET Rank, tainted : BOOLEAN, since : 0 .. 2,
                   paced : BOOLEAN, rates : Int]
  BY DEF IInv, TypeOK
<1>3. table' \in [Rank -> Int] /\ hist'.heard \subseteq Rank
  <2>1. Rank' = Rank
    BY <1>1, HostsKept
  <2> QED  BY <2>1 DEF IInv, TypeOK
<1>4. hist'.heard = heard
  BY <1>2 DEF Alarm
<1>5. \A r \in Rank : IF r = 0 /\ alone
                        THEN t[r] = count[Host(0)] /\ r \in heard
                        ELSE t[r] = table[r] /\ (r \in heard => r \in hist.heard)
  BY <1>2
<1>6. hist.heard \subseteq heard
  OBVIOUS
<1>7. sums'.now = sums.now \/ sums'.now = Total(table')
  <2> HIDE DEF t
  <2> QED  BY <1>1 DEF Summed
<1> HIDE DEF t, heard
<1>8. ASSUME NEW r \in Rank
      PROVE  \/ t[r] = table[r] /\ (r \in heard => r \in hist.heard)
             \/ /\ r \in heard
                /\ t[r] <= count[Host(r)]
                /\ r \in hist.heard => t[r] >= table[r]
  <2>1. CASE r = 0 /\ alone
    <3>1. count[Host(0)] \in Nat
      BY <1>2, HostFacts
    <3>2. 0 \in hist.heard => table[0] <= count[Host(0)]
      BY DEF IInv, Rows
    <3> QED  BY <1>5, <2>1, <3>1, <3>2
  <2>2. CASE ~(r = 0 /\ alone)
    BY <1>5, <2>2
  <2> QED  BY <2>1, <2>2
<1> QED  BY <1>1, <1>2, <1>3, <1>4, <1>6, <1>7, <1>8, CollectStep

\* Every step of the server and its clients is one of the collector, or none.
LEMMA StepCollects == IInv /\ IInv' /\ [Next]_vars => [Collects!Next]_(Collects!vars)
PROOF
<1> SUFFICES ASSUME IInv, IInv', [Next]_vars
             PROVE  [Collects!Next]_(Collects!vars)
  OBVIOUS
<1>1. ASSUME NEW h \in Key, NEW k \in 1 .. READ_MAX, Drain(h, k)
      PROVE  Collects!Next
  BY <1>1, DrainCollects DEF Collects!Next
<1>2. CASE Alarm
  BY <1>2, AlarmCollects DEF Collects!Next
<1>3. ASSUME UNCHANGED <<hosts, table, sums, hist>>
      PROVE  Heard' = Heard /\ Seen' = Seen /\ sums'.now = sums.now
  <2>1. /\ Rank' = Rank /\ Node' = Node /\ \A r : Host(r)' = Host(r)
    BY <1>3, HostsKept
  <2>2. Heard' = Heard
    BY <1>3, <2>1 DEF Heard
  <2>3. hosts \in Lists /\ table \in [Rank -> Int]
    BY DEF IInv, TypeOK
  <2>4. /\ Seen \in [Key -> Int]
        /\ \A r \in Rank : Seen[Host(r)] = table[r]
        /\ \A h \in Key \ Node : Seen[h] = 0
    BY <2>3, SeenFacts
  <2>5. hosts' \in Lists /\ table' \in [Rank' -> Int]
    BY <1>3, <2>1, <2>3
  <2>6. /\ Seen' \in [Key -> Int]
        /\ \A r \in Rank' : Seen'[Host(r)'] = table'[r]
        /\ \A h \in Key \ Node' : Seen'[h] = 0
    BY <2>5, SeenStaysRight DEF SeenRight
  <2>7. ASSUME NEW h \in Key PROVE Seen'[h] = Seen[h]
    <3>1. CASE h \in Node
      <4>1. PICK r \in Rank : Host(r) = h
        BY <2>3, <3>1, HostFacts
      <4> QED  BY <1>3, <2>1, <2>4, <2>6, <4>1
    <3>2. CASE h \notin Node
      BY <2>1, <2>4, <2>6, <3>2
    <3> QED  BY <3>1, <3>2
  <2>8. Seen' = Seen
    BY <2>4, <2>6, <2>7
  <2> QED  BY <1>3, <2>2, <2>8
<1>4. ASSUME NEW h \in Key, Call(h) PROVE Collects!Next
  <2>1. /\ UNCHANGED <<hosts, table, sums, hist>>
        /\ count' = [count EXCEPT ![h] = @ + 1]
    BY <1>4 DEF Call, summary
  <2>2. Collects!Call(h)
    BY <1>3, <2>1 DEF Collects!Call, Heard, Seen
  <2> QED  BY <2>2 DEF Collects!Next
<1>5. ASSUME UNCHANGED <<hosts, count, table, sums, hist>>
      PROVE  UNCHANGED Collects!vars
  BY <1>3, <1>5 DEF Collects!vars, Heard, Seen
<1>6. ASSUME NEW h \in Key,
             Connect(h) \/ SendName(h) \/ SendReport(h) \/ Die(h) \/ Close(h)
      PROVE  UNCHANGED Collects!vars
  BY <1>5, <1>6 DEF Connect, SendName, SendReport, Die, Close, summary
<1>7. CASE Accept \/ Greet \/ Terminate \/ Stop \/ Interrupt
  BY <1>5, <1>7 DEF Accept, Greet, Terminate, Stop, Interrupt, summary
<1>8. CASE UNCHANGED vars
  BY <1>5, <1>8 DEF vars, summary
<1> QED  BY <1>1, <1>2, <1>4, <1>6, <1>7, <1>8 DEF Next, Read

\* CollectorSpec: what drain_client, Print_Summary and periodic publish is, for
\* every number of nodes, the sum of one number per node, none above its
\* counter and none older than the one before, however read() cuts the streams.
THEOREM ImplementsCollector == Spec => CollectorSpec
PROOF
<1>1. Init => Collects!Init
  <2> SUFFICES ASSUME Init PROVE Collects!Init
    OBVIOUS
  <2>1. hosts \in Lists /\ table \in [Rank -> Int]
    BY ReportAssumption DEF Init
  <2>2. Seen \in [Key -> Int] /\ Heard = {}
    BY <2>1, SeenFacts DEF Init, Heard
  <2> QED  BY <2>2 DEF Init, Collects!Init, Heard, Seen
<1> QED  BY <1>1, Invariance, StepCollects, PTL DEF Spec, CollectorSpec, Collects!Spec

=============================================================================
