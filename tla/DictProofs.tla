----------------------------- MODULE DictProofs -----------------------------
(***************************************************************************)
(* What the hash table of dict.c returns.  After distinct names were       *)
(* entered in an empty table that is large enough, each with its index,    *)
(* every chain holds exactly the names of its hash, the newest first, and  *)
(* a search for one of the names returns its index, however they collide.  *)
(***************************************************************************)
EXTENDS Dict, DataProofs

\* Unit u is the newest of those before unit i with hash h, -1 if there is none.
Newest(d, h, u, i) ==
    /\ u \in -1 .. i - 1
    /\ u # -1 => Bucket(d, d.elt[u].key) = h
    /\ \A j \in 0 .. i - 1 : Bucket(d, d.elt[j].key) = h => j <= u

\* d holds the names l[1] to l[n], the name l[i + 1] in unit i; the other units
\* are on the free list in order.
Holds(d, l, size, n) ==
    /\ d \in [size : {size}, n : {n}, first_av : {n},
              ht : [0 .. size - 1 -> -1 .. size - 1],
              next : [0 .. size - 1 -> -1 .. size - 1],
              elt : [0 .. n - 1 -> [key : Key, value : Nat]]]
    /\ \A i \in 0 .. n - 1 : d.elt[i] = [key |-> l[i + 1], value |-> i]
    /\ \A h \in 0 .. size - 1 : Newest(d, h, d.ht[h], n)
    /\ \A i \in 0 .. n - 1 : Newest(d, Bucket(d, l[i + 1]), d.next[i], i)
    /\ \A i \in n .. size - 1 :
          d.next[i] = IF i = size - 1 THEN -1 ELSE i + 1

-----------------------------------------------------------------------------

\* A key falls into a bucket of the table.
LEMMA BucketType ==
    ASSUME NEW d, d.size \in Nat \ {0}, NEW k \in Key
    PROVE  Bucket(d, k) \in 0 .. d.size - 1
PROOF
<1>1. Hash[k] \in Nat
  BY HashAssumption
<1> DEFINE h == Hash[k]
           s == d.size
<1>2. h \in Nat /\ s \in Nat \ {0}
  BY <1>1
<1> HIDE DEF h, s
<1>3. h % s \in 0 .. s - 1
  BY <1>2
<1> QED  BY <1>3 DEF Bucket, h, s

\* DictCreate makes the dictionary of no names.
LEMMA CreateHolds ==
    ASSUME NEW size \in Nat \ {0}, NEW l
    PROVE  Holds(DictCreate(size), l, size, 0)
PROOF
<1> DEFINE d == DictCreate(size)
<1>1. d \in [size : {size}, n : {0}, first_av : {0},
             ht : [0 .. size - 1 -> -1 .. size - 1],
             next : [0 .. size - 1 -> -1 .. size - 1],
             elt : [0 .. 0 - 1 -> [key : Key, value : Nat]]]
  BY DEF DictCreate
<1>2. \A h \in 0 .. size - 1 : Newest(d, h, d.ht[h], 0)
  BY DEF DictCreate, Newest
<1>3. \A i \in 0 .. size - 1 : d.next[i] = IF i = size - 1 THEN -1 ELSE i + 1
  BY DEF DictCreate
<1> HIDE DEF d
<1>4. Holds(d, l, size, 0)
  BY <1>1, <1>2, <1>3 DEF Holds
<1> QED  BY <1>4 DEF d

\* An insertion keeps the chains, whichever of them the name belongs to.
LEMMA InsertHolds ==
    ASSUME NEW size \in Nat, NEW n \in Nat, n + 1 < size,
           NEW l, NEW d, Holds(d, l, size, n), l[n + 1] \in Key
    PROVE  Holds(DictInsert(d, l[n + 1], n), l, size, n + 1)
PROOF
<1> DEFINE k == l[n + 1]
           e == DictInsert(d, k, n)
           h == Bucket(d, k)
<1>1. d \in [size : {size}, n : {n}, first_av : {n},
             ht : [0 .. size - 1 -> -1 .. size - 1],
             next : [0 .. size - 1 -> -1 .. size - 1],
             elt : [0 .. n - 1 -> [key : Key, value : Nat]]]
  BY DEF Holds
<1>0. /\ d.size = size /\ d.n = n /\ d.first_av = n
      /\ d.ht \in [0 .. size - 1 -> -1 .. size - 1]
      /\ d.next \in [0 .. size - 1 -> -1 .. size - 1]
      /\ d.elt \in [0 .. n - 1 -> [key : Key, value : Nat]]
  BY <1>1
<1>2. k \in Key /\ h \in 0 .. size - 1
  <2>1. d.size \in Nat \ {0} /\ k \in Key
    BY <1>0
  <2> QED  BY <1>0, <2>1, BucketType
<1>3. n \in 0 .. size - 1 /\ d.next[n] = n + 1
  BY DEF Holds
<1>4. d.ht[h] \in -1 .. n - 1
  BY <1>2 DEF Holds, Newest
<1> HIDE DEF k, h
<1>5. e = [size |-> size, n |-> n + 1, first_av |-> n + 1,
           ht |-> [d.ht EXCEPT ![h] = n], next |-> [d.next EXCEPT ![n] = d.ht[h]],
           elt |-> [i \in 0 .. n |-> IF i = n THEN [key |-> k, value |-> n]
                                              ELSE d.elt[i]]]
  <2>1. DOMAIN d.elt \cup {n} = 0 .. n
    BY <1>0
  <2>2. e = [d EXCEPT !.n = n + 1, !.first_av = n + 1, !.ht[h] = n,
                      !.next[n] = d.ht[h],
                      !.elt = [i \in 0 .. n |->
                                 IF i = n THEN [key |-> k, value |-> n]
                                          ELSE d.elt[i]]]
    BY <1>0, <1>3, <2>1 DEF DictInsert, h
  <2> QED  BY <1>1, <2>2
<1> HIDE DEF e
<1>6. e \in [size : {size}, n : {n + 1}, first_av : {n + 1},
             ht : [0 .. size - 1 -> -1 .. size - 1],
             next : [0 .. size - 1 -> -1 .. size - 1],
             elt : [0 .. n -> [key : Key, value : Nat]]]
  <2> DEFINE D == 0 .. size - 1
             V == -1 .. size - 1
  <2>1. /\ d.ht \in [D -> V] /\ d.next \in [D -> V]
        /\ h \in D /\ n \in D /\ n \in V /\ d.ht[h] \in V
    BY <1>0, <1>2, <1>3, <1>4
  <2> HIDE DEF D, V
  <2>2. [d.ht EXCEPT ![h] = n] \in [D -> V] /\ [d.next EXCEPT ![n] = d.ht[h]] \in [D -> V]
    BY <2>1
  <2>3. e.elt \in [0 .. n -> [key : Key, value : Nat]]
    <3>1. ASSUME NEW i \in 0 .. n
          PROVE  (IF i = n THEN [key |-> k, value |-> n] ELSE d.elt[i])
                    \in [key : Key, value : Nat]
      <4>1. CASE i = n
        BY <1>2, <4>1
      <4>2. CASE i # n
        <5>1. i \in 0 .. n - 1
          BY <4>2
        <5> QED  BY <1>0, <4>2, <5>1
      <4> QED  BY <4>1, <4>2
    <3> QED  BY <1>5, <3>1
  <2> QED  BY <1>5, <2>2, <2>3 DEF D, V
<1>7. /\ \A i \in 0 .. n - 1 : e.elt[i] = d.elt[i]
      /\ e.elt[n] = [key |-> k, value |-> n]
  BY <1>5
<1>8. ASSUME NEW i \in 0 .. n
      PROVE  e.elt[i] = [key |-> l[i + 1], value |-> i]
  <2>1. CASE i = n
    BY <1>7, <2>1 DEF k
  <2>2. CASE i # n
    <3>1. i \in 0 .. n - 1
      BY <2>2
    <3>2. d.elt[i] = [key |-> l[i + 1], value |-> i]
      BY <3>1 DEF Holds
    <3> HIDE DEF e
    <3> QED  BY <1>7, <3>1, <3>2
  <2> QED  BY <2>1, <2>2
<1>9. \A x : Bucket(e, x) = Bucket(d, x)
  BY <1>0, <1>5 DEF Bucket
<1>10. Bucket(d, e.elt[n].key) = h
  BY <1>7 DEF h
<1>11. ASSUME NEW g \in 0 .. size - 1 PROVE Newest(e, g, e.ht[g], n + 1)
  <2>1. Newest(d, g, d.ht[g], n)
    BY DEF Holds
  <2>2. CASE g = h
    <3>1. e.ht[g] = n
      BY <1>0, <1>2, <1>5, <2>2
    <3> QED  BY <1>9, <1>10, <2>2, <3>1 DEF Newest
  <2>3. CASE g # h
    <3>1. e.ht[g] = d.ht[g]
      BY <1>0, <1>2, <1>5, <2>3
    <3>2. \A j \in 0 .. n : Bucket(e, e.elt[j].key) = g => j <= d.ht[g]
      BY <1>7, <1>9, <1>10, <2>1, <2>3 DEF Newest
    <3> QED  BY <1>7, <1>9, <2>1, <3>1, <3>2 DEF Newest
  <2> QED  BY <2>2, <2>3
<1>12. ASSUME NEW i \in 0 .. n
       PROVE  Newest(e, Bucket(e, l[i + 1]), e.next[i], i)
  <2>1. CASE i = n
    <3>1. e.next[i] = d.ht[h]
      BY <1>0, <1>3, <1>5, <2>1
    <3>2. Newest(d, h, d.ht[h], n)
      BY <1>2 DEF Holds
    <3>3. Bucket(e, l[i + 1]) = h
      BY <1>9, <2>1 DEF h, k
    <3> QED  BY <1>7, <1>9, <2>1, <3>1, <3>2, <3>3 DEF Newest
  <2>2. CASE i # n
    <3>1. e.next[i] = d.next[i]
      BY <1>0, <1>3, <1>5, <2>2
    <3>2. Newest(d, Bucket(d, l[i + 1]), d.next[i], i)
      BY <2>2 DEF Holds
    <3> QED  BY <1>7, <1>9, <2>2, <3>1, <3>2 DEF Newest
  <2> QED  BY <2>1, <2>2
<1>13. ASSUME NEW i \in n + 1 .. size - 1
       PROVE  e.next[i] = IF i = size - 1 THEN -1 ELSE i + 1
  <2>1. e.next[i] = d.next[i]
    <3>1. i \in 0 .. size - 1 /\ i # n
      OBVIOUS
    <3> QED  BY <1>0, <1>3, <1>5, <3>1
  <2> QED  BY <2>1 DEF Holds
<1>14. Holds(e, l, size, n + 1)
  <2>1. (n + 1) - 1 = n
    OBVIOUS
  <2> QED  BY <2>1, <1>6, <1>8, <1>11, <1>12, <1>13 DEF Holds
<1> QED  BY <1>14 DEF e, k

-----------------------------------------------------------------------------
\* The chain from unit u, as DictSearch follows it.
Chain(d, k, walk) ==
    walk = [u \in -1 .. d.size - 1 |->
              IF u = -1 THEN -1
              ELSE IF d.elt[u].key = k THEN d.elt[u].value
              ELSE walk[d.next[u]]]

\* Every chain ends, so the search is defined.
LEMMA ChainExists ==
    ASSUME NEW size \in Nat \ {0}, NEW n \in Nat, n <= size,
           NEW l, NEW d, Holds(d, l, size, n), NEW k
    PROVE  \E walk : Chain(d, k, walk)
PROOF
<1> DEFINE S == -1 .. size - 1
           Base == {u \in S : u = -1 \/ d.elt[u].key = k}
           val == [u \in S |-> IF u = -1 THEN -1 ELSE d.elt[u].value]
           m == [u \in S |-> CASE u = -1 -> 0
                               [] u \in 0 .. n - 1 -> u + 1
                               [] OTHER -> n + (size - u)]
<1>1. d.size = size /\ d.next \in [0 .. size - 1 -> -1 .. size - 1]
  BY DEF Holds
<1>2. /\ \A u \in S : u = -1 => m[u] = 0
      /\ \A u \in S : u \in 0 .. n - 1 => m[u] = u + 1
      /\ \A u \in S : u \in n .. size - 1 => m[u] = n + (size - u)
  OBVIOUS
<1> HIDE DEF m
<1>3. \A u \in S : m[u] \in 0 .. n + size
  BY <1>2
<1>4. ASSUME NEW u \in S \ Base PROVE d.next[u] \in S /\ m[d.next[u]] < m[u]
  <2>1. u \in 0 .. size - 1 /\ d.next[u] \in S
    BY <1>1
  <2>2. CASE u < n
    <3>0. u \in 0 .. n - 1
      BY <2>1, <2>2
    <3>1. d.next[u] \in -1 .. u - 1
      <4>1. Newest(d, Bucket(d, l[u + 1]), d.next[u], u)
        BY <3>0 DEF Holds
      <4> QED  BY <4>1 DEF Newest
    <3>2. d.next[u] = -1 \/ d.next[u] \in 0 .. n - 1
      BY <2>1, <2>2, <3>1
    <3>3. m[d.next[u]] = d.next[u] + 1
      BY <1>2, <2>1, <3>2
    <3>4. m[u] = u + 1
      BY <1>2, <2>1, <2>2
    <3> QED  BY <2>1, <3>1, <3>3, <3>4
  <2>3. CASE n <= u
    <3>1. d.next[u] = IF u = size - 1 THEN -1 ELSE u + 1
      BY <2>1, <2>3 DEF Holds
    <3>2. m[u] = n + (size - u)
      BY <1>2, <2>1, <2>3
    <3>3. CASE u = size - 1
      BY <1>2, <2>1, <3>1, <3>2, <3>3
    <3>4. CASE u # size - 1
      <4>1. d.next[u] = u + 1 /\ u + 1 \in n .. size - 1
        BY <2>1, <2>3, <3>1, <3>4
      <4>2. m[u + 1] = n + (size - (u + 1))
        BY <1>2, <2>1, <4>1
      <4> QED  BY <2>1, <3>2, <4>1, <4>2
    <3> QED  BY <3>3, <3>4
  <2> QED  BY <2>1, <2>2, <2>3
<1> DEFINE next == d.next
<1>5. \A u \in S \ Base : next[u] \in S /\ m[next[u]] < m[u]
  BY <1>4
<1>6. \E w : Walks(S, Base, val, next, w)
  <2> DEFINE B == n + size
  <2>1. Descends(S, Base, next, m, B)
    BY <1>3, <1>5 DEF Descends
  <2> HIDE DEF S, Base, val, next, B
  <2> QED  BY <2>1, WalkExists
<1>7. PICK w : w = [u \in S |-> IF u \in Base THEN val[u] ELSE w[next[u]]]
  BY <1>6 DEF Walks
<1>8. ASSUME NEW u \in S
      PROVE  (IF u \in Base THEN val[u] ELSE w[next[u]])
                = IF u = -1 THEN -1
                  ELSE IF d.elt[u].key = k THEN d.elt[u].value
                  ELSE w[d.next[u]]
  <2>1. CASE u = -1
    BY <2>1
  <2>2. CASE u # -1 /\ d.elt[u].key = k
    BY <2>2
  <2>3. CASE u # -1 /\ d.elt[u].key # k
    <3>1. u \notin Base
      BY <2>3
    <3> HIDE DEF Base, val
    <3> QED  BY <2>3, <3>1
  <2> QED  BY <2>1, <2>2, <2>3
<1>9. [u \in S |-> IF u \in Base THEN val[u] ELSE w[next[u]]]
        = [u \in S |-> IF u = -1 THEN -1
                       ELSE IF d.elt[u].key = k THEN d.elt[u].value
                       ELSE w[d.next[u]]]
  BY <1>8
<1> HIDE DEF Base, val, next
<1>10. Chain(d, k, w)
  BY <1>1, <1>7, <1>9 DEF Chain
<1> QED  BY <1>10

\* The search for a name that was entered finds its index.
LEMMA SearchFinds ==
    ASSUME NEW size \in Nat \ {0}, NEW n \in Nat, n <= size,
           NEW l, NEW d, Holds(d, l, size, n),
           \A i, j \in 0 .. n - 1 : l[i + 1] = l[j + 1] => i = j,
           NEW i \in 0 .. n - 1
    PROVE  DictSearch(d, l[i + 1]) = i
PROOF
<1> DEFINE k == l[i + 1]
           h == Bucket(d, k)
           walk == CHOOSE w : Chain(d, k, w)
<1>1. Chain(d, k, walk)
  BY ChainExists
<1>2. DictSearch(d, k) = IF d.n = 0 THEN -1 ELSE walk[d.ht[h]]
  BY DEF DictSearch, Chain
<1> HIDE DEF walk
<1>3. d.size = size /\ d.n = n /\ n # 0
  BY DEF Holds
<1>4. \A j \in 0 .. n - 1 : d.elt[j].key = l[j + 1] /\ d.elt[j].value = j
  <2> TAKE j \in 0 .. n - 1
  <2>1. d.elt[j] = [key |-> l[j + 1], value |-> j]
    BY DEF Holds
  <2> QED  BY <2>1
<1>5. k \in Key /\ h \in 0 .. size - 1
  <2>1. d.elt[i].key \in Key
    BY DEF Holds
  <2> QED  BY <1>3, <1>4, <2>1, BucketType
<1> DEFINE C == {u \in i .. n - 1 : Bucket(d, l[u + 1]) = h /\ walk[u] # i}
<1>6. C = {}
  <2> SUFFICES ASSUME C # {} PROVE FALSE
    OBVIOUS
  <2>1. PICK u \in C : \A v \in C : u <= v
    <3>1. C \subseteq Nat
      OBVIOUS
    <3> HIDE DEF C
    <3> QED  BY <3>1, LeastExists
  <2>2. /\ u \in i .. n - 1 /\ Bucket(d, l[u + 1]) = h /\ walk[u] # i
        /\ u \in 0 .. n - 1 /\ u \in -1 .. size - 1 /\ u # -1
    OBVIOUS
  <2>3. walk[u] = IF u = -1 THEN -1
                  ELSE IF d.elt[u].key = k THEN d.elt[u].value
                  ELSE walk[d.next[u]]
    BY <1>1, <1>3, <2>2 DEF Chain
  <2>4. u # i
    BY <1>4, <2>2, <2>3
  <2>5. d.elt[u].key # k
    BY <1>4, <2>2, <2>4
  <2>6. walk[u] = walk[d.next[u]]
    BY <2>2, <2>3, <2>5
  <2> DEFINE v == d.next[u]
  <2>7. Newest(d, h, v, u)
    BY <2>2 DEF Holds
  <2> HIDE DEF v
  <2>8. v \in -1 .. u - 1 /\ i <= v
    BY <1>4, <2>2, <2>4, <2>7 DEF Newest
  <2>9. Bucket(d, l[v + 1]) = h
    BY <1>4, <2>2, <2>7, <2>8 DEF Newest
  <2>10. v \in C
    BY <2>2, <2>6, <2>8, <2>9 DEF v
  <2> QED  BY <2>1, <2>2, <2>8, <2>10
<1> DEFINE v == d.ht[h]
<1>7. Newest(d, h, v, n)
  BY <1>5 DEF Holds
<1> HIDE DEF v
<1>8. v \in -1 .. n - 1 /\ i <= v
  BY <1>4, <1>7 DEF Newest
<1>9. Bucket(d, l[v + 1]) = h
  BY <1>4, <1>7, <1>8 DEF Newest
<1>10. walk[v] = i
  BY <1>6, <1>8, <1>9
<1> QED  BY <1>2, <1>3, <1>10 DEF v


\* The search for a name that was not entered finds nothing.
LEMMA SearchMisses ==
    ASSUME NEW size \in Nat \ {0}, NEW n \in Nat, n <= size,
           NEW l, NEW d, Holds(d, l, size, n), NEW k \in Key,
           \A j \in 0 .. n - 1 : l[j + 1] # k
    PROVE  DictSearch(d, k) = -1
PROOF
<1> DEFINE h == Bucket(d, k)
           walk == CHOOSE w : Chain(d, k, w)
<1>1. Chain(d, k, walk)
  BY ChainExists
<1>2. DictSearch(d, k) = IF d.n = 0 THEN -1 ELSE walk[d.ht[h]]
  BY DEF DictSearch, Chain
<1> HIDE DEF walk
<1>3. d.size = size /\ d.n = n
  BY DEF Holds
<1>4. h \in 0 .. size - 1
  BY <1>3, BucketType
<1>5. walk[-1] = -1
  <2>1. -1 \in -1 .. size - 1
    OBVIOUS
  <2> QED  BY <1>1, <1>3, <2>1 DEF Chain
<1> DEFINE C == {u \in 0 .. n - 1 : walk[u] # -1}
<1>6. C = {}
  <2> SUFFICES ASSUME C # {} PROVE FALSE
    OBVIOUS
  <2>1. PICK u \in C : \A v \in C : u <= v
    <3>1. C \subseteq Nat
      OBVIOUS
    <3> HIDE DEF C
    <3> QED  BY <3>1, LeastExists
  <2>2. /\ u \in 0 .. n - 1 /\ walk[u] # -1
        /\ u \in -1 .. size - 1 /\ u # -1
    OBVIOUS
  <2>3. d.elt[u].key # k
    <3>1. d.elt[u] = [key |-> l[u + 1], value |-> u]
      BY <2>2 DEF Holds
    <3> QED  BY <2>2, <3>1
  <2>4. walk[u] = walk[d.next[u]]
    BY <1>1, <1>3, <2>2, <2>3 DEF Chain
  <2> DEFINE v == d.next[u]
  <2>5. v \in -1 .. u - 1
    <3>1. Newest(d, Bucket(d, l[u + 1]), v, u)
      BY <2>2 DEF Holds
    <3> QED  BY <3>1 DEF Newest
  <2> HIDE DEF v
  <2>6. v # -1
    BY <1>5, <2>2, <2>4 DEF v
  <2>7. v \in C
    BY <2>2, <2>4, <2>5, <2>6 DEF v
  <2> QED  BY <2>1, <2>2, <2>5, <2>7
<1> DEFINE v == d.ht[h]
<1>7. v \in -1 .. n - 1
  <2>1. Newest(d, h, v, n)
    BY <1>4 DEF Holds
  <2> QED  BY <2>1 DEF Newest
<1> HIDE DEF v
<1>8. walk[v] = -1
  BY <1>5, <1>6, <1>7
<1> QED  BY <1>2, <1>8 DEF v

=============================================================================
