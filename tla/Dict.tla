-------------------------------- MODULE Dict --------------------------------
(***************************************************************************)
(* The hash table of dict.c: an array of units, a chain of units for every *)
(* hash value and a free list, all by index, -1 ending a chain.  A         *)
(* dictionary is a record; an operation maps a dictionary to the next one  *)
(* or to what it returns.                                                  *)
(***************************************************************************)
EXTENDS Integers

CONSTANTS
    Key,    \* the strings that are entered or looked up
    Hash    \* XXH64 of each

ASSUME HashAssumption == Hash \in [Key -> Nat]

Bucket(d, k) == Hash[k] % d.size

\* A table of nSize units, all of them on the free list.
DictCreate(nSize) ==
    [size |-> nSize, n |-> 0, first_av |-> 0,
     ht   |-> [h \in 0 .. nSize - 1 |-> -1],
     next |-> [i \in 0 .. nSize - 1 |-> IF i = nSize - 1 THEN -1 ELSE i + 1],
     elt  |-> << >>]

\* Mutant: the unit is taken from the free list without its link to the chain.
DictInsertUnlinked(d, k, v) ==
    LET u == d.first_av
        h == Bucket(d, k)
    IN  [d EXCEPT !.n = @ + 1,
                  !.first_av = d.next[u],
                  !.ht[h] = u,
                  !.next[u] = -1,
                  !.elt = [i \in DOMAIN d.elt \cup {u} |->
                              IF i = u THEN [key |-> k, value |-> v]
                                       ELSE d.elt[i]]]

\* The first free unit is filled and put at the head of its chain.
DictInsert(d, k, v) ==
    LET u == d.first_av
        h == Bucket(d, k)
    IN  [d EXCEPT !.n = @ + 1,
                  !.first_av = d.next[u],
                  !.ht[h] = u,
                  !.next[u] = d.ht[h],
                  !.elt = [i \in DOMAIN d.elt \cup {u} |->
                              IF i = u THEN [key |-> k, value |-> v]
                                       ELSE d.elt[i]]]

\* The test made after an insertion, upon which the program stops.
Full(d) == 10 * d.n >= 8 * d.size

\* Mutant: the key of the first unit of the chain is not compared.
DictSearchHead(d, k) ==
    LET u == d.ht[Bucket(d, k)]
    IN  IF u = -1 THEN -1 ELSE d.elt[u].value

\* The value of the first unit of the chain that has the key, -1 if there is none.
DictSearch(d, k) ==
    LET walk[u \in -1 .. d.size - 1] ==
            IF u = -1 THEN -1
            ELSE IF d.elt[u].key = k THEN d.elt[u].value
            ELSE walk[d.next[u]]
    IN  IF d.n = 0 THEN -1 ELSE walk[d.ht[Bucket(d, k)]]

=============================================================================
