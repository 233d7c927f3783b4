------------------------------ MODULE WellOrder -----------------------------
(***************************************************************************)
(* Least and greatest elements of sets of natural numbers.  The proofs     *)
(* about recursive definitions take a least counterexample where they      *)
(* would otherwise need induction; the search of RelationReach, which two  *)
(* components use, is the first of them.                                   *)
(***************************************************************************)
EXTENDS RelationReach, FiniteSetsExt, FiniteSetTheorems, TLAPS

Less == {p \in Nat \X Nat : p[1] < p[2]}

\* A set of natural numbers that has a member has a least one.
LEMMA LeastExists ==
  ASSUME NEW S \in SUBSET Nat, S # {}
  PROVE  \E x \in S : \A y \in S : x <= y
<1>1. IsWellFoundedOn(Less, Nat)
  BY NatLessThanWellFounded DEF OpToRel, Less
<1>2. PICK x \in S : \A y \in S : ~ (<<y, x>> \in Less)
  BY <1>1, WFMin
<1>3. ASSUME NEW y \in S PROVE x <= y
  <2>1. x \in Nat /\ y \in Nat
    OBVIOUS
  <2>2. ~ (y < x)
    BY <1>2, <2>1 DEF Less
  <2> QED
    BY <2>1, <2>2
<1> QED
  BY <1>3

\* Min names the least element.
LEMMA MinIsLeast ==
  ASSUME NEW S \in SUBSET Nat, S # {}
  PROVE  Min(S) \in S /\ \A y \in S : Min(S) <= y
  BY LeastExists DEF Min

\* A set of natural numbers below a bound that has a member has a greatest
\* one, and Max names it.
LEMMA MaxIsGreatest ==
  ASSUME NEW n \in Nat, NEW S \in SUBSET (0 .. n), S # {}
  PROVE  Max(S) \in S /\ \A y \in S : Max(S) >= y
<1>1. PICK D : D = {d \in 0 .. n : n - d \in S}
  OBVIOUS
<1>2. D \in SUBSET Nat /\ D # {}
  <2>1. PICK x \in S : TRUE
    OBVIOUS
  <2>2. n - x \in 0 .. n /\ n - (n - x) = x
    OBVIOUS
  <2> QED
    BY <1>1, <2>2
<1>3. PICK d \in D : \A y \in D : d <= y
  BY <1>2, LeastExists
<1>4. n - d \in S /\ d \in 0 .. n
  BY <1>1
<1>5. ASSUME NEW y \in S PROVE n - d >= y
  <2>1. y \in 0 .. n /\ n - y \in 0 .. n /\ n - (n - y) = y
    OBVIOUS
  <2>2. d <= n - y
    BY <1>1, <1>3, <2>1
  <2> QED
    BY <1>4, <2>1, <2>2
<1>6. \E x \in S : \A y \in S : x >= y
  BY <1>4, <1>5
<1> QED
  BY <1>6 DEF Max

\* The greatest element of a subset of 1 .. n, and what is left without it.
LEMMA MaxOfPrefix ==
  ASSUME NEW n \in Nat, NEW s \in SUBSET (1 .. n), s # {}
  PROVE  /\ Max(s) \in s /\ Max(s) \in 1 .. n /\ s \in SUBSET (1 .. Max(s))
         /\ s \ {Max(s)} \in SUBSET (1 .. Max(s) - 1)
         /\ n \in s => Max(s) = n
<1>1. s \in SUBSET (0 .. n)
  OBVIOUS
<1>2. Max(s) \in s /\ \A y \in s : Max(s) >= y
  BY <1>1, MaxIsGreatest
<1>3. Max(s) \in 1 .. n
  BY <1>2
<1> DEFINE m == Max(s)
<1>4. \A y \in s : y \in 1 .. n /\ m >= y
  BY <1>2
<1>5. \A y \in s : y \in 1 .. m /\ (y # m => y \in 1 .. m - 1)
  BY <1>3, <1>4
<1>6. n \in s => m = n
  BY <1>3, <1>4
<1> QED
  BY <1>2, <1>3, <1>5, <1>6

\* A set of index sets that has a member has one that is empty, or that
\* leaves the set when its greatest index is taken away: what a fold has of
\* the empty set, and hands on at every step, it has everywhere.
LEMMA LeastSubset ==
  ASSUME NEW n \in Nat, NEW B \in SUBSET SUBSET (1 .. n), B # {}
  PROVE  \E s \in B : \/ s = {}
                      \/ /\ s # {} /\ Max(s) \in 1 .. n
                         /\ s \ {Max(s)} \in (SUBSET (1 .. n)) \ B
<1> DEFINE S == {k \in Nat : \E s \in B : s \in SUBSET (1 .. k)}
<1>1. S \in SUBSET Nat /\ S # {}
  OBVIOUS
<1>2. PICK k \in S : \A j \in S : k <= j
  BY <1>1, LeastExists
<1>3. PICK s \in B : s \in SUBSET (1 .. k)
  OBVIOUS
<1>4. CASE s # {}
  <2>1. Max(s) \in 1 .. n /\ Max(s) \in 1 .. k /\ s \ {Max(s)} \in SUBSET (1 .. Max(s) - 1)
    BY <1>3, <1>4, MaxOfPrefix
  <2>2. Max(s) - 1 \in Nat /\ ~ (k <= Max(s) - 1)
    BY <2>1
  <2>3. Max(s) - 1 \notin S
    BY <1>2, <2>2
  <2>4. s \ {Max(s)} \notin B
    BY <2>1, <2>2, <2>3
  <2>5. s \ {Max(s)} \in SUBSET (1 .. n)
    OBVIOUS
  <2>6. s \ {Max(s)} \in (SUBSET (1 .. n)) \ B
    BY <2>4, <2>5
  <2> QED
    BY <1>4, <2>1, <2>6
<1> QED
  BY <1>4

\* A sequence of as many members of a finite set as it has, none of them
\* twice, meets all of them.
LEMMA InjectionOnto ==
  ASSUME NEW S, IsFiniteSet(S), NEW D, Cardinality(D) = Cardinality(S),
         NEW f \in [D -> S], \A a, b \in D : f[a] = f[b] => a = b
  PROVE  \A x \in S : \E d \in D : f[d] = x
<1>1. f \in Injection(D, S)
  BY DEF Injection, IsInjective
<1>2. f \in Surjection(D, S)
  BY <1>1, FS_Injection
<1> QED
  BY <1>2 DEF Surjection

-----------------------------------------------------------------------------
(* The worklist of would_create_cycle                                      *)

\* f is the worklist's progress over n rounds.
Rounds(edges, start, n, f) ==
  f = [i \in 0 .. n |-> IF i = 0 THEN {start} ELSE Grow(edges, f[i - 1])]

\* The rounds of the worklist are well defined.
LEMMA RoundsExist ==
  ASSUME NEW edges, NEW start, NEW n \in Nat
  PROVE  \E f : Rounds(edges, start, n, f)
<1> DEFINE S == {k \in Nat : ~ \E f : Rounds(edges, start, k, f)}
<1>1. SUFFICES ASSUME S # {} PROVE FALSE
  OBVIOUS
<1>2. PICK k \in S : \A j \in S : k <= j
  <2>1. S \in SUBSET Nat
    OBVIOUS
  <2> QED
    BY <1>1, <2>1, LeastExists
<1>3. CASE k = 0
  <2> DEFINE f == [i \in 0 .. 0 |-> {start}]
  <2>1. Rounds(edges, start, 0, f)
    BY DEF Rounds
  <2> QED
    BY <1>3, <2>1
<1>4. CASE k # 0
  <2>1. k \in Nat /\ k - 1 \in Nat /\ ~ (k <= k - 1)
    BY <1>4
  <2>2. PICK g : Rounds(edges, start, k - 1, g)
    BY <1>2, <2>1
  <2> DEFINE f == [i \in 0 .. k |->
                     IF i = 0 THEN {start} ELSE Grow(edges, g[i - 1])]
  <2>3. \A i \in 0 .. k - 1 :
          g[i] = IF i = 0 THEN {start} ELSE Grow(edges, g[i - 1])
    BY <2>2 DEF Rounds
  <2>4. \A i \in 0 .. k - 1 : f[i] = g[i]
    <3>1. \A i \in 0 .. k - 1 : i \in 0 .. k
      BY <2>1
    <3>2. \A i \in 0 .. k :
            f[i] = IF i = 0 THEN {start} ELSE Grow(edges, g[i - 1])
      OBVIOUS
    <3> HIDE DEF f
    <3> QED
      BY <2>3, <3>1, <3>2
  <2>5. \A i \in 0 .. k : i # 0 => i - 1 \in 0 .. k - 1
    BY <2>1
  <2>6. \A i \in 0 .. k : i # 0 => f[i - 1] = g[i - 1]
    BY <2>4, <2>5
  <2>7. Rounds(edges, start, k, f)
    BY <2>6 DEF Rounds
  <2> QED
    BY <2>7
<1> QED
  BY <1>3, <1>4

\* The rounds one by one.
LEMMA FirstRound ==
  ASSUME NEW edges, NEW start, NEW n \in Nat, NEW f,
         Rounds(edges, start, n, f)
  PROVE  f[0] = {start}
  BY DEF Rounds

\* Every further round grows the one before it.
LEMMA OneRound ==
  ASSUME NEW edges, NEW start, NEW n \in Nat, NEW f,
         Rounds(edges, start, n, f), NEW i \in 1 .. n
  PROVE  f[i] = Grow(edges, f[i - 1])
<1>1. \A j \in 0 .. n :
        f[j] = IF j = 0 THEN {start} ELSE Grow(edges, f[j - 1])
  BY DEF Rounds
<1>2. i \in 0 .. n /\ i # 0
  OBVIOUS
<1> QED
  BY <1>1, <1>2

\* What a round leaves: the worklist keeps what it had and gains the children,
\* all of them targets of an edge.
LEMMA RoundFacts ==
  ASSUME NEW edges, NEW start, NEW n \in Nat, NEW f,
         Rounds(edges, start, n, f), NEW i \in 1 .. n
  PROVE  /\ f[i - 1] \subseteq f[i]
         /\ \A d \in edges : d[1] \in f[i - 1] => d[2] \in f[i]
         /\ f[i] \subseteq f[i - 1] \cup {d[2] : d \in edges}
<1>1. f[i] = Grow(edges, f[i - 1])
  BY OneRound
<1>2. \A X : /\ X \subseteq Grow(edges, X)
             /\ \A d \in edges : d[1] \in X => d[2] \in Grow(edges, X)
             /\ Grow(edges, X) \subseteq X \cup {d[2] : d \in edges}
  BY DEF Grow, Children
<1> QED
  BY <1>1, <1>2

\* The worklist never holds more than the start and the targets of the edges.
LEMMA RoundsBounded ==
  ASSUME NEW edges, NEW start, NEW n \in Nat, NEW f,
         Rounds(edges, start, n, f)
  PROVE  \A i \in 0 .. n : f[i] \subseteq {start} \cup {d[2] : d \in edges}
<1> DEFINE T == {d[2] : d \in edges}
           S == {i \in 0 .. n : ~ (f[i] \subseteq {start} \cup T)}
<1>0. ASSUME NEW i \in 1 .. n PROVE f[i] \subseteq f[i - 1] \cup T
  BY RoundFacts
<1>1. SUFFICES ASSUME S # {} PROVE FALSE
  OBVIOUS
<1> HIDE DEF T
<1>2. S \in SUBSET Nat
  OBVIOUS
<1>3. PICK k \in S : \A j \in S : k <= j
  BY <1>1, <1>2, LeastExists
<1>4. k # 0
  BY FirstRound
<1>5. k \in 1 .. n /\ k - 1 \in 0 .. n /\ ~ (k <= k - 1)
  BY <1>4
<1>6. f[k - 1] \subseteq {start} \cup T
  BY <1>3, <1>5
<1>7. f[k] \subseteq f[k - 1] \cup T
  BY <1>0, <1>5
<1>8. f[k] \subseteq {start} \cup T
  BY <1>6, <1>7
<1> QED
  BY <1>8

\* There are at most as many targets as edges.
LEMMA FewTargets ==
  ASSUME NEW edges, IsFiniteSet(edges), NEW start
  PROVE  LET B == {start} \cup {d[2] : d \in edges} IN
           /\ IsFiniteSet(B) /\ Cardinality(B) \in Nat
           /\ Cardinality(edges) \in Nat
           /\ Cardinality(B) <= Cardinality(edges) + 1
<1> DEFINE T == {d[2] : d \in edges}
           h == [d \in edges |-> d[2]]
<1>1. h \in Surjection(edges, T)
  BY DEF Surjection
<1>2. IsFiniteSet(T) /\ Cardinality(T) <= Cardinality(edges)
  BY <1>1, FS_Surjection
<1>3. Cardinality(T) \in Nat /\ Cardinality(edges) \in Nat
  BY <1>2, FS_CardinalityType
<1> HIDE DEF T, h
<1>4. /\ IsFiniteSet(T \cup {start})
      /\ Cardinality(T \cup {start}) =
           IF start \in T THEN Cardinality(T) ELSE Cardinality(T) + 1
  BY <1>2, FS_AddElement
<1>5. Cardinality(T \cup {start}) <= Cardinality(edges) + 1
  BY <1>2, <1>3, <1>4
<1>6. {start} \cup T = T \cup {start}
  OBVIOUS
<1>7. Cardinality(T \cup {start}) \in Nat
  BY <1>4, FS_CardinalityType
<1> QED
  BY <1>3, <1>4, <1>5, <1>6, <1>7 DEF T

\* While every round adds something, there is one element more in each.
LEMMA RoundsGrow ==
  ASSUME NEW edges, IsFiniteSet(edges), NEW start, NEW n \in Nat, NEW f,
         Rounds(edges, start, n, f),
         \A i \in 1 .. n : f[i] # f[i - 1]
  PROVE  \A i \in 0 .. n : Cardinality(f[i]) >= i + 1
<1> DEFINE B == {start} \cup {d[2] : d \in edges}
           S == {i \in 0 .. n : ~ (Cardinality(f[i]) >= i + 1)}
<1>1. SUFFICES ASSUME S # {} PROVE FALSE
  OBVIOUS
<1>2. S \in SUBSET Nat
  OBVIOUS
<1>3. PICK k \in S : \A j \in S : k <= j
  BY <1>1, <1>2, LeastExists
<1>4. IsFiniteSet(B)
  BY FewTargets
<1>5. \A i \in 0 .. n : f[i] \in SUBSET B
  BY RoundsBounded
<1> HIDE DEF B
<1>6. \A i \in 0 .. n : IsFiniteSet(f[i]) /\ Cardinality(f[i]) \in Nat
  BY <1>4, <1>5, FS_Subset, FS_CardinalityType
<1>7. k # 0
  <2>1. f[0] = {start}
    BY FirstRound
  <2>2. Cardinality(f[0]) = 1
    BY <2>1, FS_Singleton
  <2> QED
    BY <2>2
<1>8. k \in 1 .. n /\ k \in 0 .. n /\ k - 1 \in 0 .. n /\ ~ (k <= k - 1)
      /\ k \in Nat
  BY <1>7
<1>9. Cardinality(f[k - 1]) >= (k - 1) + 1
  BY <1>3, <1>8
<1>10. f[k - 1] \in SUBSET f[k] /\ f[k] # f[k - 1]
  BY <1>8, RoundFacts
<1>11. /\ Cardinality(f[k - 1]) <= Cardinality(f[k])
       /\ Cardinality(f[k - 1]) # Cardinality(f[k])
  BY <1>6, <1>8, <1>10, FS_Subset
<1>12. Cardinality(f[k]) >= k + 1
  BY <1>6, <1>8, <1>9, <1>11
<1> QED
  BY <1>12

\* A round that adds nothing is the last that could.
LEMMA RoundsStay ==
  ASSUME NEW edges, NEW start, NEW n \in Nat, NEW f,
         Rounds(edges, start, n, f),
         NEW m \in 1 .. n, f[m] = f[m - 1]
  PROVE  f[n] = f[m - 1]
<1> DEFINE S == {i \in m .. n : f[i] # f[m - 1]}
<1>1. SUFFICES ASSUME S # {} PROVE FALSE
  OBVIOUS
<1>2. S \in SUBSET Nat
  OBVIOUS
<1>3. PICK k \in S : \A j \in S : k <= j
  BY <1>1, <1>2, LeastExists
<1>4. k # m
  OBVIOUS
<1>5. k \in 1 .. n /\ k - 1 \in m .. n /\ ~ (k <= k - 1)
  BY <1>4
<1>6. f[k - 1] = f[m - 1]
  BY <1>3, <1>5
<1>7. f[k] = Grow(edges, f[k - 1]) /\ f[m] = Grow(edges, f[m - 1])
  BY <1>5, OneRound
<1>8. f[k] = f[m]
  BY <1>6, <1>7
<1> QED
  BY <1>8

\* After as many rounds as there are edges, and one more, the worklist is
\* closed under the edges: would_create_cycle has seen all it can reach.
LEMMA SearchIsComplete ==
  ASSUME NEW edges, IsFiniteSet(edges), NEW start, NEW f,
         Rounds(edges, start, Cardinality(edges) + 1, f)
  PROVE  LET R == f[Cardinality(edges) + 1] IN
           /\ start \in R
           /\ \A d \in edges : d[1] \in R => d[2] \in R
<1> DEFINE K == Cardinality(edges) + 1
           B == {start} \cup {d[2] : d \in edges}
<1>0. /\ IsFiniteSet(B) /\ Cardinality(B) \in Nat
      /\ Cardinality(edges) \in Nat
      /\ Cardinality(B) <= Cardinality(edges) + 1
  BY FewTargets
<1> HIDE DEF B
<1>1. /\ IsFiniteSet(B) /\ Cardinality(B) \in Nat
      /\ K \in Nat /\ Cardinality(B) <= K /\ K >= 1
  BY <1>0
<1> HIDE DEF K
<1>2. f[K] \in SUBSET B /\ K \in 0 .. K
  <2>1. \A i \in 0 .. K : f[i] \subseteq B
    BY <1>1, RoundsBounded DEF K, B
  <2> QED
    BY <1>1, <2>1
<1>3. PICK m \in 1 .. K : f[m] = f[m - 1]
  <2>1. SUFFICES ASSUME \A i \in 1 .. K : f[i] # f[i - 1] PROVE FALSE
    OBVIOUS
  <2>2. Cardinality(f[K]) >= K + 1
    BY <1>1, <1>2, <2>1, RoundsGrow DEF K
  <2>3. Cardinality(f[K]) <= Cardinality(B) /\ IsFiniteSet(f[K])
    BY <1>1, <1>2, FS_Subset
  <2>4. Cardinality(f[K]) \in Nat
    BY <2>3, FS_CardinalityType
  <2> QED
    BY <1>1, <2>2, <2>3, <2>4
<1>4. f[K] = f[m - 1] /\ f[K] = f[m]
  BY <1>1, <1>3, RoundsStay DEF K
<1>5. \A d \in edges : d[1] \in f[m - 1] => d[2] \in f[m]
  BY <1>1, RoundFacts DEF K
<1>6. start \in f[K]
  <2> DEFINE S == {i \in 0 .. K : start \notin f[i]}
  <2>1. SUFFICES ASSUME S # {} PROVE FALSE
    BY <1>2
  <2>2. S \in SUBSET Nat
    BY <1>1
  <2>3. PICK k \in S : \A j \in S : k <= j
    BY <2>1, <2>2, LeastExists
  <2>4. k # 0
    BY <1>1, FirstRound DEF K
  <2>5. k \in 1 .. K /\ k - 1 \in 0 .. K /\ ~ (k <= k - 1)
    BY <1>1, <2>4
  <2>6. start \in f[k - 1]
    BY <2>3, <2>5
  <2>7. f[k - 1] \subseteq f[k]
    BY <1>1, <2>5, RoundFacts DEF K
  <2> QED
    BY <2>6, <2>7
<1> QED
  BY <1>4, <1>5, <1>6 DEF K

\* What would_create_cycle reaches has the start and everything that an edge
\* leads to from there.
LEMMA ReachedIsClosed ==
  ASSUME NEW edges, IsFiniteSet(edges), NEW start
  PROVE  /\ start \in Reached(edges, start)
         /\ \A d \in edges : d[1] \in Reached(edges, start) => d[2] \in Reached(edges, start)
<1> DEFINE K == Cardinality(edges) + 1
           F == CHOOSE f : Rounds(edges, start, K, f)
<1>1. Cardinality(edges) \in Nat /\ K \in Nat
  BY FS_CardinalityType
<1>2. Rounds(edges, start, K, F)
  BY <1>1, RoundsExist
<1>3. Reached(edges, start) = F[K]
  BY DEF Reached, Rounds
<1> HIDE DEF F
<1> QED
  BY <1>2, <1>3, SearchIsComplete

\* What the search reaches it reaches from somewhere it has reached.
LEMMA ReachedFromReached ==
  ASSUME NEW edges, IsFiniteSet(edges), NEW start, NEW x \in Reached(edges, start)
  PROVE  x = start \/ \E d \in edges : d[2] = x /\ d[1] \in Reached(edges, start)
<1> DEFINE K == Cardinality(edges) + 1
           F == CHOOSE f : Rounds(edges, start, K, f)
<1>1. Cardinality(edges) \in Nat /\ K \in Nat
  BY FS_CardinalityType
<1>2. Rounds(edges, start, K, F)
  BY <1>1, RoundsExist
<1>3. Reached(edges, start) = F[K]
  BY DEF Reached, Rounds
<1> HIDE DEF F, K
<1>4. \A i \in 0 .. K : F[i] \subseteq F[K]
  <2> DEFINE B == {j \in 0 .. K : ~ (F[K - j] \subseteq F[K])}
  <2>1. SUFFICES B = {}
    <3> SUFFICES ASSUME NEW i \in 0 .. K PROVE F[i] \subseteq F[K]
      OBVIOUS
    <3>1. K - i \in 0 .. K /\ K - (K - i) = i
      BY <1>1
    <3> QED
      BY <2>1, <3>1
  <2>2. SUFFICES ASSUME B # {} PROVE FALSE
    OBVIOUS
  <2>3. B \in SUBSET Nat
    BY <1>1
  <2>4. PICK j \in B : \A k \in B : j <= k
    BY <2>2, <2>3, LeastExists
  <2>5. j # 0
    BY <1>1, <2>4
  <2>6. j - 1 \in 0 .. K /\ ~ (j <= j - 1) /\ K - (j - 1) \in 1 .. K /\ (K - (j - 1)) - 1 = K - j
    BY <1>1, <2>4, <2>5
  <2>7. F[K - (j - 1)] \subseteq F[K]
    BY <2>4, <2>6
  <2>8. F[(K - (j - 1)) - 1] \subseteq F[K - (j - 1)]
    BY <1>1, <1>2, <2>6, RoundFacts
  <2> QED
    BY <2>4, <2>6, <2>7, <2>8
<1> DEFINE S == {i \in 0 .. K : x \in F[i]}
<1>5. S \in SUBSET Nat /\ S # {}
  BY <1>1, <1>3
<1>6. PICK i \in S : \A j \in S : i <= j
  BY <1>5, LeastExists
<1>7. CASE i = 0
  <2>1. F[0] = {start}
    BY <1>1, <1>2, FirstRound
  <2> QED
    BY <1>6, <1>7, <2>1
<1>8. CASE i # 0
  <2>1. i \in 1 .. K /\ i - 1 \in 0 .. K /\ ~ (i <= i - 1)
    BY <1>1, <1>6, <1>8
  <2>2. x \in F[i] /\ x \notin F[i - 1]
    BY <1>6, <2>1
  <2>3. F[i] = Grow(edges, F[i - 1])
    BY <1>1, <1>2, <2>1, OneRound
  <2>4. PICK t \in F[i - 1] : x \in Children(edges, t)
    BY <2>2, <2>3 DEF Grow
  <2>5. PICK d \in edges : d[1] = t /\ d[2] = x
    BY <2>4 DEF Children
  <2> QED
    BY <1>3, <1>4, <2>1, <2>4, <2>5
<1> QED
  BY <1>7, <1>8

\* The values of n indices are finitely many, n at most.
LEMMA ImageIsSmall ==
  ASSUME NEW n \in Nat, NEW h
  PROVE  LET T == {h[i] : i \in 1 .. n} IN
           IsFiniteSet(T) /\ Cardinality(T) \in Nat /\ Cardinality(T) <= n
<1> DEFINE T == {h[i] : i \in 1 .. n}
           onto == [i \in 1 .. n |-> h[i]]
<1>1. PICK m \in Int : m = n
  OBVIOUS
<1>2. IsFiniteSet(1 .. n) /\ Cardinality(1 .. n) = n
  <2>1. IsFiniteSet(1 .. m) /\ Cardinality(1 .. m) = IF 1 > m THEN 0 ELSE m - 1 + 1
    BY FS_Interval
  <2> QED
    BY <1>1, <2>1
<1>3. onto \in Surjection(1 .. n, T)
  BY DEF Surjection
<1>4. IsFiniteSet(T) /\ Cardinality(T) <= n
  BY <1>2, <1>3, FS_Surjection
<1> HIDE DEF T
<1>5. Cardinality(T) \in Nat
  BY <1>4, FS_CardinalityType
<1> QED
  BY <1>4, <1>5 DEF T

\* A finite set can be enumerated without repetition.
LEMMA EnumerationExists ==
  ASSUME NEW S, IsFiniteSet(S)
  PROVE  /\ Cardinality(S) \in Nat
         /\ \E f \in [1 .. Cardinality(S) -> S] :
              \A i, j \in 1 .. Cardinality(S) : f[i] = f[j] => i = j
<1> DEFINE n == Cardinality(S)
<1>1. n \in Nat /\ ExistsBijection(1 .. n, S)
  BY FS_CardinalityType
<1>2. PICK f : f \in Bijection(1 .. n, S)
  BY <1>1 DEF ExistsBijection
<1>3. f \in [1 .. n -> S] /\ \A i, j \in 1 .. n : f[i] = f[j] => i = j
  BY <1>2 DEF Bijection, Injection, IsInjective
<1> QED
  BY <1>1, <1>3
=============================================================================
