----------------------------- MODULE DataProofs -----------------------------
(***************************************************************************)
(* Facts about numbers and sums over finite sets that the proofs about     *)
(* several components rest on.  The library's induction theorems take an   *)
(* operator; what they are needed for is shown here with the least number  *)
(* of a set, often the set of the counterexamples.                         *)
(***************************************************************************)
EXTENDS Integers, FiniteSetsExt, FiniteSetTheorems, TLAPS

\* A set of natural numbers has a least member.
LEMMA LeastExists ==
    ASSUME NEW S, S \subseteq Nat, S # {}
    PROVE  \E x \in S : \A y \in S : x <= y
PROOF
<1> DEFINE R == {p \in Nat \X Nat : p[1] < p[2]}
<1>1. OpToRel(<, Nat) = R
  BY DEF OpToRel
<1>2. IsWellFoundedOn(R, Nat)
  BY <1>1, NatLessThanWellFounded
<1> HIDE DEF R
<1>3. PICK x \in S : \A y \in S : ~(<<y, x>> \in R)
  BY <1>2, WFMin
<1>4. ASSUME NEW y \in S PROVE x <= y
  <2>1. <<y, x>> \notin R
    BY <1>3
  <2>2. x \in Nat /\ y \in Nat
    OBVIOUS
  <2> QED  BY <2>1, <2>2 DEF R
<1> QED  BY <1>4


-----------------------------------------------------------------------------
(* Finite sets: among some of them there is one that has no other of them  *)
(* as a subset.                                                            *)

\* A collection of subsets of a finite set has a smallest member.
LEMMA SmallestExists ==
    ASSUME NEW S, IsFiniteSet(S), NEW C, C \subseteq SUBSET S, C # {}
    PROVE  \E T \in C : \A U \in C : U \subseteq T => U = T
PROOF
<1> DEFINE R == StrictSubsetOrdering(S)
<1>1. IsWellFoundedOn(R, SUBSET S)
  BY FS_StrictSubsetOrderingWellFounded, FS_FiniteSubsetsOfFinite
<1> HIDE DEF R
<1>2. PICK T \in C : \A U \in C : ~(<<U, T>> \in R)
  BY <1>1, WFMin
<1>3. ASSUME NEW U \in C, U \subseteq T PROVE U = T
  BY <1>2, <1>3 DEF R, StrictSubsetOrdering
<1> QED  BY <1>3

-----------------------------------------------------------------------------
(* The sum of a function over a finite set, as MapThenSumSet defines it: a *)
(* recursive function on the subsets.                                      *)

SumOver(f, S) == MapThenSumSet(LAMBDA x : f[x], S)

\* The value the recursion gives to the set s if g gives those of its subsets.
SumStep(f, g, s) ==
    IF s = {} THEN 0
    ELSE f[CHOOSE x \in s : TRUE] + g[s \ {CHOOSE x \in s : TRUE}]

\* g is the recursive function on the subsets of S.
Sums(f, S, g) == g = [s \in SUBSET S |-> SumStep(f, g, s)]

\* SumOver is the value of the function the library defines by recursion.
LEMMA SumOverDef ==
    ASSUME NEW f, NEW S
    PROVE  SumOver(f, S) = (CHOOSE g : Sums(f, S, g))[S]
PROOF
<1> QED  BY DEF SumOver, MapThenSumSet, MapThenFoldSet, Sums, SumStep

\* Two such functions agree on the sets both are defined on.
LEMMA SumsAgree ==
    ASSUME NEW f, NEW S, NEW T, IsFiniteSet(S), IsFiniteSet(T),
           NEW g, NEW h, Sums(f, S, g), Sums(f, T, h)
    PROVE  \A s \in SUBSET (S \cap T) : g[s] = h[s]
PROOF
<1> DEFINE C == {s \in SUBSET (S \cap T) : g[s] # h[s]}
<1> SUFFICES ASSUME C # {} PROVE FALSE
  OBVIOUS
<1>1. PICK s \in C : \A u \in C : u \subseteq s => u = s
  <2>1. C \subseteq SUBSET S
    OBVIOUS
  <2> HIDE DEF C
  <2> QED  BY <2>1, SmallestExists
<1>2. g[s] = SumStep(f, g, s) /\ h[s] = SumStep(f, h, s)
  <2>1. s \in SUBSET S /\ s \in SUBSET T
    OBVIOUS
  <2> QED  BY <2>1 DEF Sums
<1>3. s # {}
  BY <1>2 DEF SumStep
<1> DEFINE x == CHOOSE e \in s : TRUE
<1>4. x \in s
  BY <1>3
<1>5. g[s \ {x}] = h[s \ {x}]
  BY <1>1, <1>4
<1> QED  BY <1>2, <1>3, <1>5 DEF SumStep

\* The recursion defines a function.
LEMMA SumsExist ==
    ASSUME NEW f, NEW S, IsFiniteSet(S)
    PROVE  \E g : Sums(f, S, g)
PROOF
<1> DEFINE C == {T \in SUBSET S : ~ \E g : Sums(f, T, g)}
<1> SUFFICES ASSUME C # {} PROVE FALSE
  OBVIOUS
<1>1. PICK T \in C : \A U \in C : U \subseteq T => U = T
  <2>1. C \subseteq SUBSET S
    OBVIOUS
  <2> HIDE DEF C
  <2> QED  BY <2>1, SmallestExists
<1> DEFINE G(U) == CHOOSE g : Sums(f, U, g)
           h == [s \in SUBSET T |->
                   IF s = {} THEN 0
                   ELSE f[CHOOSE x \in s : TRUE]
                        + G(s \ {CHOOSE x \in s : TRUE})[s \ {CHOOSE x \in s : TRUE}]]
<1>2. ASSUME NEW U \in SUBSET T, U # T PROVE Sums(f, U, G(U))
  BY <1>1, <1>2
<1>3. ASSUME NEW U \in SUBSET T PROVE IsFiniteSet(U)
  BY FS_Subset
<1>4. ASSUME NEW U \in SUBSET T, U # T PROVE h[U] = G(U)[U]
  <2>1. CASE U = {}
    <3>1. Sums(f, U, G(U))
      BY <1>2, <1>4
    <3> HIDE DEF G
    <3>2. G(U)[U] = SumStep(f, G(U), U)
      BY <3>1 DEF Sums
    <3> QED  BY <2>1, <3>2 DEF SumStep
  <2>2. CASE U # {}
    <3> DEFINE x == CHOOSE e \in U : TRUE
               V == U \ {x}
    <3>1. x \in U /\ V \in SUBSET U /\ V \in SUBSET T /\ V # T
      BY <2>2
    <3>2. Sums(f, U, G(U)) /\ Sums(f, V, G(V))
      BY <1>2, <1>4, <3>1
    <3>3. IsFiniteSet(U) /\ IsFiniteSet(V)
      BY <1>3, <3>1
    <3> HIDE DEF G
    <3>4. G(U)[V] = G(V)[V]
      BY <3>1, <3>2, <3>3, SumsAgree
    <3>5. G(U)[U] = SumStep(f, G(U), U)
      BY <3>2 DEF Sums
    <3>6. G(U)[U] = f[x] + G(U)[V]
      BY <2>2, <3>5 DEF SumStep
    <3>7. h[U] = f[x] + G(V)[V]
      BY <2>2
    <3> QED  BY <3>4, <3>6, <3>7
  <2> QED  BY <2>1, <2>2
<1>5. ASSUME NEW s \in SUBSET T PROVE h[s] = SumStep(f, h, s)
  <2>1. CASE s = {}
    <3> HIDE DEF G
    <3> QED  BY <2>1 DEF SumStep
  <2>2. CASE s # {}
    <3> DEFINE x == CHOOSE e \in s : TRUE
               V == s \ {x}
    <3>1. x \in s /\ V \in SUBSET T /\ V # T
      BY <2>2
    <3>2. h[V] = G(V)[V]
      BY <1>4, <3>1
    <3> HIDE DEF G
    <3>3. h[s] = f[x] + G(V)[V]
      BY <2>2
    <3> HIDE DEF h
    <3> QED  BY <2>2, <3>2, <3>3 DEF SumStep
  <2> QED  BY <2>1, <2>2
<1>6. Sums(f, T, h)
  <2>1. h = [s \in SUBSET T |-> h[s]]
    OBVIOUS
  <2> HIDE DEF h
  <2>2. [s \in SUBSET T |-> h[s]] = [s \in SUBSET T |-> SumStep(f, h, s)]
    BY <1>5
  <2> QED  BY <2>1, <2>2 DEF Sums
<1> QED  BY <1>1, <1>6


\* The sum over a set is an element and the sum over the rest.
LEMMA SumOverRec ==
    ASSUME NEW f, NEW S, IsFiniteSet(S)
    PROVE  /\ S = {} => SumOver(f, S) = 0
           /\ S # {} => \E x \in S : SumOver(f, S) = f[x] + SumOver(f, S \ {x})
PROOF
<1> DEFINE G(T) == CHOOSE g : Sums(f, T, g)
<1>1. ASSUME NEW T \in SUBSET S PROVE Sums(f, T, G(T)) /\ SumOver(f, T) = G(T)[T]
  BY FS_Subset, SumsExist, SumOverDef
<1> HIDE DEF G
<1>2. SumOver(f, S) = SumStep(f, G(S), S)
  BY <1>1 DEF Sums
<1>3. CASE S = {}
  BY <1>2, <1>3 DEF SumStep
<1>4. CASE S # {}
  <2> DEFINE x == CHOOSE e \in S : TRUE
             V == S \ {x}
  <2>1. x \in S /\ V \in SUBSET S
    BY <1>4
  <2>2. Sums(f, S, G(S)) /\ Sums(f, V, G(V)) /\ SumOver(f, V) = G(V)[V]
    BY <1>1, <2>1
  <2>3. IsFiniteSet(V)
    BY <2>1, FS_Subset
  <2>4. G(S)[V] = G(V)[V]
    <3>1. V \in SUBSET (S \cap V)
      BY <2>1
    <3> HIDE DEF V
    <3> QED  BY <2>2, <2>3, <3>1, SumsAgree
  <2>5. SumOver(f, S) = f[x] + G(S)[V]
    BY <1>2, <1>4 DEF SumStep
  <2> QED  BY <2>1, <2>2, <2>4, <2>5
<1> QED  BY <1>3, <1>4

\* A sum of integers is an integer.
LEMMA SumOverType ==
    ASSUME NEW f, NEW S, IsFiniteSet(S), \A x \in S : f[x] \in Int
    PROVE  SumOver(f, S) \in Int
PROOF
<1> DEFINE C == {T \in SUBSET S : SumOver(f, T) \notin Int}
<1> SUFFICES ASSUME C # {} PROVE FALSE
  OBVIOUS
<1>1. PICK T \in C : \A U \in C : U \subseteq T => U = T
  <2>1. C \subseteq SUBSET S
    OBVIOUS
  <2> HIDE DEF C
  <2> QED  BY <2>1, SmallestExists
<1>2. IsFiniteSet(T) /\ T \subseteq S
  BY FS_Subset
<1>3. T # {}
  BY <1>2, SumOverRec
<1>4. PICK x \in T : SumOver(f, T) = f[x] + SumOver(f, T \ {x})
  BY <1>2, <1>3, SumOverRec
<1>5. SumOver(f, T \ {x}) \in Int
  BY <1>1, <1>2
<1> QED  BY <1>2, <1>4, <1>5

\* ... whichever element it is.
LEMMA SumOverRemove ==
    ASSUME NEW f, NEW S, IsFiniteSet(S), \A x \in S : f[x] \in Int
    PROVE  \A x \in S : SumOver(f, S) = f[x] + SumOver(f, S \ {x})
PROOF
<1> DEFINE C == {T \in SUBSET S :
                   \E x \in T : SumOver(f, T) # f[x] + SumOver(f, T \ {x})}
<1> SUFFICES ASSUME C # {} PROVE FALSE
  OBVIOUS
<1>1. PICK T \in C : \A U \in C : U \subseteq T => U = T
  <2>1. C \subseteq SUBSET S
    OBVIOUS
  <2> HIDE DEF C
  <2> QED  BY <2>1, SmallestExists
<1>2. PICK x \in T : SumOver(f, T) # f[x] + SumOver(f, T \ {x})
  OBVIOUS
<1>3. ASSUME NEW U \in SUBSET T PROVE IsFiniteSet(U) /\ SumOver(f, U) \in Int
  BY FS_Subset, SumOverType
<1>4. PICK c \in T : SumOver(f, T) = f[c] + SumOver(f, T \ {c})
  BY <1>2, <1>3, SumOverRec
<1>5. c # x
  BY <1>2, <1>4
<1>6. SumOver(f, T \ {c}) = f[x] + SumOver(f, (T \ {c}) \ {x})
  <2>1. T \ {c} \in SUBSET S /\ T \ {c} # T /\ T \ {c} \subseteq T
    OBVIOUS
  <2>2. T \ {c} \notin C
    <3> HIDE DEF C
    <3> QED  BY <1>1, <2>1
  <2>3. x \in T \ {c}
    BY <1>5
  <2> QED  BY <2>1, <2>2, <2>3
<1>7. SumOver(f, T \ {x}) = f[c] + SumOver(f, (T \ {x}) \ {c})
  <2>1. T \ {x} \in SUBSET S /\ T \ {x} # T /\ T \ {x} \subseteq T
    OBVIOUS
  <2>2. T \ {x} \notin C
    <3> HIDE DEF C
    <3> QED  BY <1>1, <2>1
  <2>3. c \in T \ {x}
    BY <1>5
  <2> QED  BY <2>1, <2>2, <2>3
<1>8. (T \ {c}) \ {x} = (T \ {x}) \ {c}
  OBVIOUS
<1> DEFINE v == SumOver(f, (T \ {x}) \ {c})
<1>9. v \in Int /\ f[x] \in Int /\ f[c] \in Int
  BY <1>3
<1> HIDE DEF v
<1>10. f[c] + (f[x] + v) = f[x] + (f[c] + v)
  BY <1>9
<1> QED  BY <1>2, <1>4, <1>6, <1>7, <1>8, <1>10 DEF v

\* The larger the terms, the larger the sum.
LEMMA SumOverMonotone ==
    ASSUME NEW f, NEW g, NEW S, IsFiniteSet(S),
           \A x \in S : f[x] \in Int /\ g[x] \in Int /\ f[x] <= g[x]
    PROVE  SumOver(f, S) <= SumOver(g, S)
PROOF
<1> DEFINE C == {T \in SUBSET S : ~(SumOver(f, T) <= SumOver(g, T))}
<1> SUFFICES ASSUME C # {} PROVE FALSE
  BY DEF C
<1>1. PICK T \in C : \A U \in C : U \subseteq T => U = T
  <2>1. C \subseteq SUBSET S
    OBVIOUS
  <2> HIDE DEF C
  <2> QED  BY <2>1, SmallestExists
<1>2. IsFiniteSet(T) /\ T \subseteq S
  BY FS_Subset
<1>3. T # {}
  BY <1>2, SumOverRec
<1>4. PICK x \in T : TRUE
  BY <1>3
<1>5. /\ SumOver(f, T) = f[x] + SumOver(f, T \ {x})
      /\ SumOver(g, T) = g[x] + SumOver(g, T \ {x})
  BY <1>2, SumOverRemove
<1>6. SumOver(f, T \ {x}) <= SumOver(g, T \ {x})
  BY <1>1, <1>2
<1>7. SumOver(f, T \ {x}) \in Int /\ SumOver(g, T \ {x}) \in Int
  <2>1. IsFiniteSet(T \ {x})
    BY <1>2, FS_RemoveElement
  <2> QED  BY <1>2, <2>1, SumOverType
<1> QED  BY <1>2, <1>5, <1>6, <1>7

\* The names of the terms do not matter: f on S and g on T have the same sum if
\* b pairs the elements of S with those of T.
LEMMA SumOverReindex ==
    ASSUME NEW f, NEW g, NEW S, NEW T, NEW b, IsFiniteSet(S), IsFiniteSet(T),
           \A x \in S : f[x] \in Int, \A y \in T : g[y] \in Int,
           \A x \in S : b[x] \in T /\ f[x] = g[b[x]],
           \A x, y \in S : b[x] = b[y] => x = y,
           \A y \in T : \E x \in S : b[x] = y
    PROVE  SumOver(f, S) = SumOver(g, T)
PROOF
<1> DEFINE Image(U) == {b[x] : x \in U}
           C == {U \in SUBSET S : SumOver(f, U) # SumOver(g, Image(U))}
<1>1. Image(S) = T
  OBVIOUS
<1> SUFFICES ASSUME C # {} PROVE FALSE
  <2> HIDE DEF Image
  <2> QED  BY <1>1 DEF C
<1>2. PICK U \in C : \A V \in C : V \subseteq U => V = U
  <2>1. C \subseteq SUBSET S
    OBVIOUS
  <2> HIDE DEF C
  <2> QED  BY <2>1, SmallestExists
<1>3. IsFiniteSet(U) /\ U \subseteq S
  BY FS_Subset
<1>4. Image(U) \subseteq T
  BY <1>3
<1>5. IsFiniteSet(Image(U))
  <2> HIDE DEF Image
  <2> QED  BY <1>4, FS_Subset
<1>6. U # {}
  <2> SUFFICES ASSUME U = {} PROVE FALSE
    OBVIOUS
  <2>1. Image({}) = {} /\ IsFiniteSet({})
    BY FS_EmptySet
  <2> HIDE DEF Image
  <2>2. SumOver(f, {}) = 0 /\ SumOver(g, {}) = 0
    BY <2>1, SumOverRec
  <2> QED  BY <2>1, <2>2
<1>7. PICK x \in U : TRUE
  BY <1>6
<1>8. Image(U) \ {b[x]} = Image(U \ {x}) /\ b[x] \in Image(U)
  BY <1>3
<1> HIDE DEF Image
<1>9. SumOver(f, U) = f[x] + SumOver(f, U \ {x})
  BY <1>3, SumOverRemove
<1>10. SumOver(g, Image(U)) = g[b[x]] + SumOver(g, Image(U) \ {b[x]})
  BY <1>4, <1>5, <1>8, SumOverRemove
<1>11. SumOver(f, U \ {x}) = SumOver(g, Image(U \ {x}))
  BY <1>2, <1>3
<1> QED  BY <1>3, <1>8, <1>9, <1>10, <1>11

\* Zero terms may be left out.
LEMMA SumOverSupport ==
    ASSUME NEW f, NEW S, NEW T, IsFiniteSet(S), T \subseteq S,
           \A x \in S : f[x] \in Int, \A x \in S \ T : f[x] = 0
    PROVE  SumOver(f, S) = SumOver(f, T)
PROOF
<1> DEFINE C == {U \in SUBSET S : T \subseteq U /\ SumOver(f, U) # SumOver(f, T)}
<1> SUFFICES ASSUME C # {} PROVE FALSE
  BY DEF C
<1>1. PICK U \in C : \A V \in C : V \subseteq U => V = U
  <2>1. C \subseteq SUBSET S
    OBVIOUS
  <2> HIDE DEF C
  <2> QED  BY <2>1, SmallestExists
<1>2. IsFiniteSet(U) /\ U \subseteq S /\ IsFiniteSet(T)
  BY FS_Subset
<1>3. PICK x \in U : x \notin T
  BY <1>2
<1>4. SumOver(f, U) = f[x] + SumOver(f, U \ {x})
  BY <1>2, SumOverRemove
<1>5. SumOver(f, U \ {x}) = SumOver(f, T)
  BY <1>1, <1>2, <1>3
<1>6. f[x] = 0
  BY <1>2, <1>3
<1>7. SumOver(f, T) \in Int
  BY <1>2, SumOverType
<1> QED  BY <1>4, <1>5, <1>6, <1>7


-----------------------------------------------------------------------------
(* A function that is defined at u by its value at next[u], where a number *)
(* decreases, exists.                                                      *)

Descends(S, Base, next, m, B) ==
    /\ B \in Nat
    /\ \A u \in S : m[u] \in 0 .. B
    /\ \A u \in S \ Base : next[u] \in S /\ m[next[u]] < m[u]

Walks(S, Base, val, next, w) ==
    w = [u \in S |-> IF u \in Base THEN val[u] ELSE w[next[u]]]

\* When each element leads to a smaller one, the walk has a value everywhere.
LEMMA WalkExists ==
    ASSUME NEW S, NEW Base, NEW val, NEW next, NEW m, NEW B,
           Descends(S, Base, next, m, B)
    PROVE  \E w : Walks(S, Base, val, next, w)
PROOF
<1> USE DEF Descends, Walks
<1> DEFINE Low(n) == {u \in S : m[u] < n}
           Walk(n, w) ==
               w = [u \in Low(n) |-> IF u \in Base THEN val[u] ELSE w[next[u]]]
           C == {n \in Nat : ~ \E w : Walk(n, w)}
<1>1. Low(B + 1) = S
  OBVIOUS
<1>2. C = {}
  <2> SUFFICES ASSUME C # {} PROVE FALSE
    OBVIOUS
  <2>1. PICK n \in C : \A k \in C : n <= k
    <3>1. C \subseteq Nat
      OBVIOUS
    <3> HIDE DEF C
    <3> QED  BY <3>1, LeastExists
  <2>2. n # 0
    <3> SUFFICES ASSUME n = 0 PROVE FALSE
      OBVIOUS
    <3>1. Low(0) = {}
      OBVIOUS
    <3> DEFINE w == [u \in {} |-> val[u]]
    <3>2. Walk(0, w)
      BY <3>1
    <3> QED  BY <3>2
  <2>3. PICK v : Walk(n - 1, v)
    <3>1. n - 1 \in Nat /\ ~(n <= n - 1)
      BY <2>2
    <3> QED  BY <2>1, <3>1
  <2> DEFINE w == [u \in Low(n) |->
                     IF u \in Base THEN val[u] ELSE v[next[u]]]
  <2>4. ASSUME NEW u \in Low(n), u \notin Base
        PROVE  next[u] \in Low(n - 1) /\ next[u] \in Low(n)
    BY <2>2, <2>4
  <2>5. ASSUME NEW u \in Low(n - 1) PROVE v[u] = w[u]
    <3>1. v[u] = IF u \in Base THEN val[u] ELSE v[next[u]]
      BY <2>3
    <3>2. u \in Low(n)
      OBVIOUS
    <3> QED  BY <3>1, <3>2
  <2>6. ASSUME NEW u \in Low(n)
        PROVE  w[u] = IF u \in Base THEN val[u] ELSE w[next[u]]
    <3>1. w[u] = IF u \in Base THEN val[u] ELSE v[next[u]]
      OBVIOUS
    <3> HIDE DEF w, Low
    <3> QED  BY <2>4, <2>5, <3>1
  <2>7. Walk(n, w)
    <3>1. w = [u \in Low(n) |-> w[u]]
      OBVIOUS
    <3> HIDE DEF w, Low
    <3>2. [u \in Low(n) |-> w[u]]
            = [u \in Low(n) |-> IF u \in Base THEN val[u] ELSE w[next[u]]]
      BY <2>6
    <3> QED  BY <3>1, <3>2
  <2> QED  BY <2>1, <2>7
<1>3. \E w : Walk(B + 1, w)
  <2>1. B + 1 \in Nat
    OBVIOUS
  <2> HIDE DEF Walk
  <2> QED  BY <1>2, <2>1
<1> HIDE DEF Low
<1> QED  BY <1>1, <1>3

=============================================================================
