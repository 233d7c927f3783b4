----------------------------- MODULE RulesProofs ----------------------------
(***************************************************************************)
(* Proofs about RuleEngine, for every world, relation graph and program,   *)
(* every way to evaluate an expression, every capacity and every bound.    *)
(***************************************************************************)
EXTENDS RuleEngine, WellOrder

IsSeq(s) == \E S : s \in Seq(S)

\* A sequence may grow by any value.
LEMMA SeqAppend ==
  ASSUME NEW s, IsSeq(s), NEW x
  PROVE  /\ IsSeq(Append(s, x)) /\ Len(s) \in Nat /\ DOMAIN s = 1 .. Len(s)
         /\ Len(Append(s, x)) = Len(s) + 1
         /\ Append(s, x)[Len(s) + 1] = x
         /\ \A i \in 1 .. Len(s) : Append(s, x)[i] = s[i]
<1>1. PICK S : s \in Seq(S)
  BY DEF IsSeq
<1>2. s \in Seq(S \cup {x}) /\ x \in S \cup {x}
  BY <1>1
<1>3. Append(s, x) \in Seq(S \cup {x})
  BY <1>2
<1> QED
  BY <1>2, <1>3 DEF IsSeq

-----------------------------------------------------------------------------
(* The cache as a value: its entries es, its access counter n, the history *)
(* of its uses.                                                            *)

Entry == [tick : Nat, view : Nat, access : Nat]

\* An entry's access number is the place of its last use in the history.
LastUse(es, n, uses) ==
  \A k \in DOMAIN es :
    /\ es[k] \in Entry
    /\ es[k].access \in 1 .. n
    /\ uses[es[k].access] = k
    /\ \A i \in es[k].access + 1 .. n : uses[i] # k

\* The cache holds exactly what was used since some moment.
HoldsSince(es, n, uses, since) ==
  /\ \A k \in DOMAIN es : \E i \in since .. n : uses[i] = k
  /\ \A i \in since .. n : uses[i] \in DOMAIN es

Recency(es, n, uses) ==
  /\ IsSeq(uses) /\ n = Len(uses)
  /\ LastUse(es, n, uses)
  /\ \E since \in 1 .. n + 1 : HoldsSince(es, n, uses, since)

\* The bound of the capacity.
Bounded(es) ==
  /\ IsFiniteSet(DOMAIN es)
  /\ Cardinality(DOMAIN es) <= IF Capacity = 0 THEN 1 ELSE Capacity

\* Ticks and views are committed ones; away from tick zero, the cache's own.
Fresh(es, tick, bound) ==
  /\ \A k \in DOMAIN es : es[k].tick <= bound /\ es[k].view <= bound
  /\ tick # 0 => \A k \in DOMAIN es : es[k].view = tick /\ es[k].tick = tick

\* What is left without a key.
LEMMA WithoutIs ==
  ASSUME NEW es, NEW key
  PROVE  /\ DOMAIN Without(es, key) = DOMAIN es \ {key}
         /\ \A k \in DOMAIN es \ {key} : Without(es, key)[k] = es[k]
  BY DEF Without

\* What evict_lru takes out, if there is anything, is the entry with the least
\* access number.
LEMMA EvictsLeast ==
  ASSUME NEW es, NEW n \in Nat, NEW uses, LastUse(es, n, uses), DOMAIN es # {}
  PROVE  \E key \in DOMAIN es :
           /\ EvictLru(es) = Without(es, key)
           /\ \A j \in DOMAIN es : es[key].access <= es[j].access
<1> DEFINE A == {es[k].access : k \in DOMAIN es}
<1>1. A \in SUBSET Nat /\ A # {}
  BY DEF LastUse
<1>2. PICK a \in A : \A b \in A : a <= b
  BY <1>1, LeastExists
<1>3. \E k \in DOMAIN es : \A j \in DOMAIN es : es[k].access <= es[j].access
  BY <1>2
<1>4. es # <<>>
  OBVIOUS
<1> DEFINE least == CHOOSE k \in DOMAIN es :
                      \A j \in DOMAIN es : es[k].access <= es[j].access
<1>5. least \in DOMAIN es /\ \A j \in DOMAIN es : es[least].access <= es[j].access
  BY <1>3
<1>6. EvictLru(es) = Without(es, least)
  BY <1>4 DEF EvictLru
<1> QED
  BY <1>5, <1>6

\* An eviction keeps the cache recent: what stays was used after what goes.
LEMMA EvictKeepsRecency ==
  ASSUME NEW es, NEW n, NEW uses, Recency(es, n, uses), DOMAIN es # {}
  PROVE  /\ Recency(EvictLru(es), n, uses)
         /\ \E key \in DOMAIN es : EvictLru(es) = Without(es, key)
<1>1. n \in Nat
  BY SeqAppend DEF Recency
<1>2. PICK key \in DOMAIN es :
        /\ EvictLru(es) = Without(es, key)
        /\ \A j \in DOMAIN es : es[key].access <= es[j].access
  BY <1>1, EvictsLeast DEF Recency
<1> DEFINE rest == Without(es, key)
           a == es[key].access
<1>3. DOMAIN rest = DOMAIN es \ {key} /\ \A k \in DOMAIN rest : rest[k] = es[k]
  BY WithoutIs
<1>4. a \in 1 .. n /\ uses[a] = key /\ \A i \in a + 1 .. n : uses[i] # key
  BY DEF Recency, LastUse
<1>5. PICK since \in 1 .. n + 1 : HoldsSince(es, n, uses, since)
  BY DEF Recency
<1>6. LastUse(rest, n, uses)
  BY <1>3 DEF Recency, LastUse
<1>7. since <= a
  <2>1. PICK i \in since .. n : uses[i] = key
    BY <1>5 DEF HoldsSince
  <2>2. ~ (i \in a + 1 .. n)
    BY <1>4, <2>1
  <2> QED
    BY <1>1, <1>4, <2>1, <2>2
<1>8. HoldsSince(rest, n, uses, a + 1)
  <2>1. ASSUME NEW k \in DOMAIN rest PROVE \E i \in a + 1 .. n : uses[i] = k
    <3>1. k \in DOMAIN es /\ k # key
      BY <1>3
    <3>2. es[k].access \in 1 .. n /\ uses[es[k].access] = k /\ a <= es[k].access
      BY <1>2, <3>1 DEF Recency, LastUse
    <3>3. es[k].access # a
      BY <1>4, <3>1, <3>2
    <3>4. es[k].access \in a + 1 .. n
      BY <1>1, <1>4, <3>2, <3>3
    <3> QED
      BY <3>2, <3>4
  <2>2. ASSUME NEW i \in a + 1 .. n PROVE uses[i] \in DOMAIN rest
    <3>1. i \in since .. n
      BY <1>1, <1>4, <1>5, <1>7
    <3> QED
      BY <1>3, <1>4, <1>5, <3>1 DEF HoldsSince
  <2> QED
    BY <2>1, <2>2 DEF HoldsSince
<1>9. a + 1 \in 1 .. n + 1
  BY <1>1, <1>4
<1>10. Recency(rest, n, uses)
  BY <1>6, <1>8, <1>9 DEF Recency
<1> QED
  BY <1>2, <1>10

\* A pinned row is the newest use, whether it was there or not.
LEMMA PinKeepsRecency ==
  ASSUME NEW es, NEW n, NEW uses, Recency(es, n, uses), NEW key,
         NEW entry \in Entry, entry.access = n + 1
  PROVE  Recency(With(es, key, entry), n + 1, Append(uses, key))
<1> DEFINE more == With(es, key, entry)
           log == Append(uses, key)
<1>1. /\ IsSeq(uses) /\ n = Len(uses) /\ n \in Nat
      /\ IsSeq(log) /\ Len(log) = n + 1 /\ log[n + 1] = key
      /\ \A i \in 1 .. n : log[i] = uses[i]
  BY SeqAppend DEF Recency
<1>2. /\ DOMAIN more = DOMAIN es \cup {key} /\ more[key] = entry
      /\ \A k \in DOMAIN es : k # key => more[k] = es[k]
  BY DEF With
<1> HIDE DEF more, log
<1>3. LastUse(more, n + 1, log)
  <2> SUFFICES ASSUME NEW k \in DOMAIN more
               PROVE  /\ more[k] \in Entry /\ more[k].access \in 1 .. n + 1
                      /\ log[more[k].access] = k
                      /\ \A i \in more[k].access + 1 .. n + 1 : log[i] # k
    BY DEF LastUse
  <2>1. CASE k = key
    <3>1. \A i \in n + 2 .. n + 1 : FALSE
      BY <1>1
    <3> QED
      BY <1>1, <1>2, <2>1, <3>1
  <2>2. CASE k # key
    <3>1. /\ k \in DOMAIN es /\ more[k] = es[k] /\ es[k] \in Entry
          /\ es[k].access \in 1 .. n /\ uses[es[k].access] = k
          /\ \A i \in es[k].access + 1 .. n : uses[i] # k
      BY <1>2, <2>2 DEF Recency, LastUse
    <3>2. ASSUME NEW i \in es[k].access + 1 .. n + 1 PROVE log[i] # k
      <4>1. CASE i = n + 1
        BY <1>1, <2>2, <4>1
      <4>2. CASE i # n + 1
        <5>1. i \in es[k].access + 1 .. n /\ i \in 1 .. n
          BY <1>1, <3>1, <4>2
        <5> QED
          BY <1>1, <3>1, <5>1
      <4> QED
        BY <4>1, <4>2
    <3>3. es[k].access \in 1 .. n + 1 /\ log[es[k].access] = k
      BY <1>1, <3>1
    <3> QED
      BY <3>1, <3>2, <3>3
  <2> QED
    BY <2>1, <2>2
<1>4. PICK since \in 1 .. n + 1 : HoldsSince(es, n, uses, since)
  BY DEF Recency
<1>5. HoldsSince(more, n + 1, log, since)
  <2>1. ASSUME NEW k \in DOMAIN more PROVE \E i \in since .. n + 1 : log[i] = k
    <3>1. CASE k = key
      <4>1. n + 1 \in since .. n + 1
        BY <1>1, <1>4
      <4> QED
        BY <1>1, <3>1, <4>1
    <3>2. CASE k # key
      <4>1. PICK i \in since .. n : uses[i] = k
        BY <1>2, <1>4, <3>2 DEF HoldsSince
      <4>2. i \in since .. n + 1 /\ i \in 1 .. n
        BY <1>1, <1>4, <4>1
      <4> QED
        BY <1>1, <4>1, <4>2
    <3> QED
      BY <3>1, <3>2
  <2>2. ASSUME NEW i \in since .. n + 1 PROVE log[i] \in DOMAIN more
    <3>1. CASE i = n + 1
      BY <1>1, <1>2, <3>1
    <3>2. CASE i # n + 1
      <4>1. i \in since .. n /\ i \in 1 .. n
        BY <1>1, <1>4, <3>2
      <4> QED
        BY <1>1, <1>2, <1>4, <4>1 DEF HoldsSince
    <3> QED
      BY <3>1, <3>2
  <2> QED
    BY <2>1, <2>2 DEF HoldsSince
<1>6. since \in 1 .. (n + 1) + 1
  BY <1>1, <1>4
<1> QED
  BY <1>1, <1>3, <1>5, <1>6 DEF Recency, more, log

CacheInv(es, n, uses, tick, bound) ==
  Recency(es, n, uses) /\ Bounded(es) /\ Fresh(es, tick, bound)

\* What an eviction leaves is a cache with room, even when the capacity is
\* zero and the cache is empty.
LEMMA EvictKeeps ==
  ASSUME NEW es, NEW n, NEW uses, NEW tick, NEW bound,
         CacheInv(es, n, uses, tick, bound)
  PROVE  LET room == IF Cardinality(DOMAIN es) >= Capacity THEN EvictLru(es) ELSE es
         IN  /\ CacheInv(room, n, uses, tick, bound)
             /\ \/ Cardinality(DOMAIN room) < Capacity
                \/ Capacity = 0 /\ Cardinality(DOMAIN room) = 0
<1>1. IsFiniteSet(DOMAIN es) /\ Capacity \in Nat /\ Cardinality(DOMAIN es) \in Nat
  BY RulesAssumption, FS_CardinalityType DEF CacheInv, Bounded
<1>2. CASE Cardinality(DOMAIN es) < Capacity
  BY <1>1, <1>2
<1>3. CASE Cardinality(DOMAIN es) >= Capacity /\ DOMAIN es # {}
  <2>1. PICK key \in DOMAIN es : EvictLru(es) = Without(es, key)
    BY <1>3, EvictKeepsRecency DEF CacheInv
  <2>2. Recency(EvictLru(es), n, uses)
    BY <1>3, EvictKeepsRecency DEF CacheInv
  <2> DEFINE room == Without(es, key)
  <2>3. DOMAIN room = DOMAIN es \ {key} /\ \A k \in DOMAIN room : room[k] = es[k]
    BY WithoutIs
  <2>4. IsFiniteSet(DOMAIN room) /\ Cardinality(DOMAIN room) = Cardinality(DOMAIN es) - 1
    BY <1>1, <2>3, FS_RemoveElement
  <2>5. Cardinality(DOMAIN room) \in Nat
    BY <2>4, FS_CardinalityType
  <2>6. \/ Cardinality(DOMAIN room) < Capacity
        \/ Capacity = 0 /\ Cardinality(DOMAIN room) = 0
    BY <1>1, <1>3, <2>4, <2>5 DEF CacheInv, Bounded
  <2>7. Bounded(room)
    BY <1>1, <2>4, <2>6 DEF Bounded
  <2>8. Fresh(room, tick, bound)
    BY <2>3 DEF CacheInv, Fresh
  <2> QED
    BY <1>3, <2>1, <2>2, <2>6, <2>7, <2>8 DEF CacheInv
<1>4. CASE Cardinality(DOMAIN es) >= Capacity /\ DOMAIN es = {}
  <2>1. Cardinality({}) = 0
    BY FS_EmptySet
  <2>2. Capacity = 0
    BY <1>1, <1>4, <2>1
  <2>3. DOMAIN EvictLru(es) = {}
    BY <1>4 DEF EvictLru, Without
  <2>4. Recency(EvictLru(es), n, uses)
    BY <1>4, <2>3 DEF CacheInv, Recency, LastUse, HoldsSince
  <2>5. Bounded(EvictLru(es)) /\ Fresh(EvictLru(es), tick, bound)
    BY <1>4, <2>3 DEF CacheInv, Bounded, Fresh
  <2> QED
    BY <1>4, <2>1, <2>2, <2>3, <2>4, <2>5 DEF CacheInv
<1>5. Cardinality(DOMAIN es) < Capacity \/ Cardinality(DOMAIN es) >= Capacity
  BY <1>1
<1> QED
  BY <1>2, <1>3, <1>4, <1>5

\* What insert leaves is a cache again, when the view it pins is a committed
\* one, and the one of the cache's own tick away from tick zero.
LEMMA InsertKeeps ==
  ASSUME NEW c, NEW key, NEW tick \in Nat, NEW view \in Nat, NEW bound,
         CacheInv(c.entries, c.counter, c.used, tick, bound),
         tick <= bound, view <= bound, tick # 0 => view = tick
  PROVE  LET d == Inserted(c, key, tick, view)
         IN  CacheInv(d.entries, d.counter, d.used, tick, bound)
<1> DEFINE room == IF Cardinality(DOMAIN c.entries) >= Capacity
                     THEN EvictLru(c.entries) ELSE c.entries
           entry == [tick |-> tick, view |-> view, access |-> c.counter + 1]
           d == Inserted(c, key, tick, view)
<1>1. /\ d.entries = With(room, key, entry) /\ d.counter = c.counter + 1
      /\ d.used = Append(c.used, key)
  BY DEF Inserted
<1>2. /\ CacheInv(room, c.counter, c.used, tick, bound)
      /\ Cardinality(DOMAIN room) < Capacity \/ (Capacity = 0 /\ Cardinality(DOMAIN room) = 0)
  BY EvictKeeps
<1>3. c.counter \in Nat
  BY SeqAppend DEF CacheInv, Recency
<1>4. entry \in Entry /\ entry.access = c.counter + 1
  BY <1>3 DEF Entry
<1> HIDE DEF room, entry, d
<1>5. Recency(d.entries, d.counter, d.used)
  BY <1>1, <1>2, <1>4, PinKeepsRecency DEF CacheInv
<1>6. /\ DOMAIN d.entries = DOMAIN room \cup {key} /\ d.entries[key] = entry
      /\ \A k \in DOMAIN room : k # key => d.entries[k] = room[k]
  BY <1>1 DEF With
<1>7. Bounded(d.entries)
  <2>1. IsFiniteSet(DOMAIN room) /\ Cardinality(DOMAIN room) \in Nat /\ Capacity \in Nat
    BY <1>2, RulesAssumption, FS_CardinalityType DEF CacheInv, Bounded
  <2>2. /\ IsFiniteSet(DOMAIN d.entries)
        /\ \/ Cardinality(DOMAIN d.entries) = Cardinality(DOMAIN room)
           \/ Cardinality(DOMAIN d.entries) = Cardinality(DOMAIN room) + 1
    <3>1. /\ IsFiniteSet(DOMAIN room \cup {key})
          /\ Cardinality(DOMAIN room \cup {key}) =
               IF key \in DOMAIN room THEN Cardinality(DOMAIN room)
               ELSE Cardinality(DOMAIN room) + 1
      BY <2>1, FS_AddElement
    <3> QED
      BY <1>6, <3>1
  <2> QED
    BY <1>2, <2>1, <2>2 DEF Bounded
<1>8. Fresh(d.entries, tick, bound)
  <2>1. entry.tick = tick /\ entry.view = view
    BY DEF entry
  <2> QED
    BY <1>2, <1>6, <2>1 DEF CacheInv, Fresh
<1> QED
  BY <1>5, <1>7, <1>8 DEF CacheInv, d

-----------------------------------------------------------------------------
(* prefetch: the fold over the rows of a request                           *)

RowStep(c, table, tick, view, row) ==
  IF <<table, row>> \in DOMAIN c.entries THEN c
  ELSE Inserted(c, <<table, row>>, tick, view)

\* f is the fold over the rows whose index is in a subset of 1 .. n.
RowFold(f, table, tick, view, rows, base, n) ==
  f = [s \in SUBSET (1 .. n) |->
         IF s = {} THEN base
         ELSE RowStep(f[s \ {Max(s)}], table, tick, view, rows[Max(s)])]

\* The fold is well defined.
LEMMA RowFoldExists ==
  ASSUME NEW table, NEW tick, NEW view, NEW rows, NEW base, NEW n \in Nat
  PROVE  \E f : RowFold(f, table, tick, view, rows, base, n)
<1> DEFINE S == {k \in Nat : ~ \E f : RowFold(f, table, tick, view, rows, base, k)}
<1>1. SUFFICES ASSUME S # {} PROVE FALSE
  OBVIOUS
<1>2. S \in SUBSET Nat
  OBVIOUS
<1>3. PICK k \in S : \A j \in S : k <= j
  BY <1>1, <1>2, LeastExists
<1>4. CASE k = 0
  <2> DEFINE f == [s \in SUBSET (1 .. 0) |-> base]
  <2>1. \A s \in SUBSET (1 .. 0) : s = {}
    OBVIOUS
  <2>2. RowFold(f, table, tick, view, rows, base, 0)
    BY <2>1 DEF RowFold
  <2> QED
    BY <1>4, <2>2
<1>5. CASE k # 0
  <2>1. k \in Nat /\ k - 1 \in Nat /\ ~ (k <= k - 1) /\ k \in 1 .. k
    BY <1>5
  <2>2. PICK g : RowFold(g, table, tick, view, rows, base, k - 1)
    BY <1>3, <2>1
  <2> DEFINE f == [s \in SUBSET (1 .. k) |->
                     IF k \in s THEN RowStep(g[s \ {k}], table, tick, view, rows[k])
                     ELSE g[s]]
  <2>3. \A s \in SUBSET (1 .. k - 1) :
          g[s] = IF s = {} THEN base
                 ELSE RowStep(g[s \ {Max(s)}], table, tick, view, rows[Max(s)])
    BY <2>2 DEF RowFold
  <2>4. \A s \in SUBSET (1 .. k) :
          /\ s \ {k} \in SUBSET (1 .. k - 1)
          /\ k \notin s => s \in SUBSET (1 .. k - 1)
    BY <2>1
  <2>5. \A s \in SUBSET (1 .. k) :
          f[s] = IF k \in s THEN RowStep(g[s \ {k}], table, tick, view, rows[k])
                 ELSE g[s]
    OBVIOUS
  <2> HIDE DEF f
  <2>6. ASSUME NEW s \in SUBSET (1 .. k)
        PROVE  f[s] = IF s = {} THEN base
                      ELSE RowStep(f[s \ {Max(s)}], table, tick, view, rows[Max(s)])
    <3>1. CASE s = {}
      <4>1. {} \in SUBSET (1 .. k - 1)
        OBVIOUS
      <4>2. f[s] = g[{}]
        BY <2>5, <3>1
      <4>3. g[{}] = base
        BY <2>3, <4>1
      <4> QED
        BY <3>1, <4>2, <4>3
    <3>2. CASE s # {} /\ k \in s
      <4>1. Max(s) = k
        BY <2>1, <3>2, MaxOfPrefix
      <4>2. s \ {k} \in SUBSET (1 .. k) /\ k \notin s \ {k}
        OBVIOUS
      <4>3. f[s \ {k}] = g[s \ {k}]
        BY <2>5, <4>2
      <4>4. f[s] = RowStep(g[s \ {k}], table, tick, view, rows[k])
        BY <2>5, <3>2
      <4> QED
        BY <3>2, <4>1, <4>3, <4>4
    <3>3. CASE s # {} /\ k \notin s
      <4> DEFINE r == s \ {Max(s)}
      <4>1. r \in SUBSET (1 .. k) /\ k \notin r
        BY <3>3
      <4>2. f[r] = g[r] /\ f[s] = g[s]
        BY <2>5, <3>3, <4>1
      <4>3. s \in SUBSET (1 .. k - 1)
        BY <2>4, <3>3
      <4>4. g[s] = RowStep(g[r], table, tick, view, rows[Max(s)])
        BY <2>3, <3>3, <4>3
      <4> QED
        BY <3>3, <4>2, <4>4
    <3> QED
      BY <3>1, <3>2, <3>3
  <2>7. f = [s \in SUBSET (1 .. k) |-> f[s]]
    BY DEF f
  <2>8. RowFold(f, table, tick, view, rows, base, k)
    BY <2>6, <2>7 DEF RowFold
  <2> QED
    BY <2>8
<1> QED
  BY <1>4, <1>5

\* PrefetchRows is that fold over all the rows.
LEMMA PrefetchIsFold ==
  ASSUME NEW request, request.rows \in Seq(Nat)
  PROVE  \E f : /\ RowFold(f, request.table, cacheTick, latest, request.rows, Cache,
                           Len(request.rows))
                /\ PrefetchRows(request) = f[1 .. Len(request.rows)]
<1> DEFINE rows == request.rows
           F == CHOOSE f : RowFold(f, request.table, cacheTick, latest, rows, Cache, Len(rows))
<1>1. Len(rows) \in Nat /\ DOMAIN rows = 1 .. Len(rows)
  OBVIOUS
<1>2. RowFold(F, request.table, cacheTick, latest, rows, Cache, Len(rows))
  BY <1>1, RowFoldExists
<1>3. PrefetchRows(request) = F[1 .. Len(rows)]
  BY <1>1 DEF PrefetchRows, FoldLeft, MapThenFoldSet, RowFold, RowStep
<1> QED
  BY <1>2, <1>3

\* What prefetch leaves is a cache again: every row of the request is inserted
\* with the one view that was read for all of them.
LEMMA PrefetchKeeps ==
  ASSUME NEW request \in Requests, NEW bound,
         CacheInv(entries, counter, used, cacheTick, bound),
         cacheTick \in Nat, latest \in Nat, cacheTick <= bound, latest <= bound,
         cacheTick # 0 => latest = cacheTick
  PROVE  LET d == PrefetchRows(request)
         IN  CacheInv(d.entries, d.counter, d.used, cacheTick, bound)
<1> DEFINE rows == request.rows
           n == Len(rows)
           Good(c) == CacheInv(c.entries, c.counter, c.used, cacheTick, bound)
<1>1. rows \in Seq(Nat) /\ n \in Nat
  BY RulesAssumption
<1>2. PICK f : /\ RowFold(f, request.table, cacheTick, latest, rows, Cache, n)
               /\ PrefetchRows(request) = f[1 .. n]
  BY <1>1, PrefetchIsFold
<1> DEFINE B == {s \in SUBSET (1 .. n) : ~ Good(f[s])}
<1>3. Good(Cache)
  BY DEF Cache
<1>4. ASSUME B # {} PROVE FALSE
  <2>1. B \in SUBSET SUBSET (1 .. n) /\ B # {}
    BY <1>4
  <2> HIDE DEF B
  <2>2. PICK s \in B : \/ s = {}
                       \/ /\ s # {} /\ Max(s) \in 1 .. n
                          /\ s \ {Max(s)} \in (SUBSET (1 .. n)) \ B
    BY <1>1, <2>1, LeastSubset
  <2>3. s \in SUBSET (1 .. n) /\ ~ Good(f[s])
    BY DEF B
  <2>4. f[s] = IF s = {} THEN Cache
               ELSE RowStep(f[s \ {Max(s)}], request.table, cacheTick, latest, rows[Max(s)])
    BY <1>2, <2>3 DEF RowFold
  <2>5. CASE s = {}
    BY <1>3, <2>3, <2>4, <2>5
  <2>6. CASE s # {}
    <3> DEFINE c == f[s \ {Max(s)}]
    <3>1. Good(c)
      BY <2>2, <2>6 DEF B
    <3>2. f[s] = RowStep(c, request.table, cacheTick, latest, rows[Max(s)])
      BY <2>4, <2>6
    <3> HIDE DEF c
    <3> DEFINE key == <<request.table, rows[Max(s)]>>
               d == Inserted(c, key, cacheTick, latest)
    <3>3. Good(d)
      BY <3>1, InsertKeeps
    <3>4. f[s] = c \/ f[s] = d
      BY <3>2 DEF RowStep
    <3> QED
      BY <2>3, <3>1, <3>3, <3>4
  <2> QED
    BY <2>5, <2>6
<1>5. (1 .. n) \in SUBSET (1 .. n)
  OBVIOUS
<1> QED
  BY <1>2, <1>4, <1>5

-----------------------------------------------------------------------------
(* The inductive invariant                                                 *)

ScopeInv ==
  /\ here.table \in DOMAIN PrimaryKey
  /\ IsSeq(stack) /\ Len(stack) <= MaxDepth
  /\ \A i \in 1 .. Len(stack) : stack[i].table \in DOMAIN PrimaryKey

\* Before the first commit there is no view to read.
TickInv ==
  /\ latest \in NoTick .. MaxTick /\ cacheTick \in 0 .. MaxTick
  /\ latest = NoTick => DOMAIN views = {}

\* A jump between its two locks has room for its frame and, until the next
\* commit, can read the table of its target again.
JumpInv ==
  \A j \in jump :
    /\ j.table \in DOMAIN PrimaryKey /\ Len(stack) < MaxDepth
    /\ j.at \in NoTick .. latest
    /\ j.at = latest => CanRead(cacheTick, j.table)

RuleInv ==
  /\ TickInv /\ ScopeInv /\ JumpInv
  /\ CacheInv(entries, counter, used, cacheTick, MaxTick)
  /\ result \in {"Ok", "Err"}

\* The cache of a new evaluator, and of one that was cleared.
LEMMA ClearedCache ==
  ASSUME NEW tick, NEW bound
  PROVE  CacheInv(<<>>, 0, <<>>, tick, bound)
<1>1. IsSeq(<<>>) /\ Len(<<>>) = 0
  <2>1. <<>> \in Seq({})
    OBVIOUS
  <2> QED
    BY <2>1 DEF IsSeq
<1>2. DOMAIN <<>> = {}
  OBVIOUS
<1>3. IsFiniteSet({}) /\ Cardinality({}) = 0
  BY FS_EmptySet
<1>4. HoldsSince(<<>>, 0, <<>>, 1) /\ 1 \in 1 .. 0 + 1
  BY <1>2 DEF HoldsSince
<1>5. LastUse(<<>>, 0, <<>>) /\ Fresh(<<>>, tick, bound)
  BY <1>2 DEF LastUse, Fresh
<1>6. Bounded(<<>>)
  BY <1>2, <1>3, RulesAssumption DEF Bounded
<1> QED
  BY <1>1, <1>4, <1>5, <1>6 DEF CacheInv, Recency

\* The initial states satisfy it.
LEMMA RuleInitInv == RuleInit => RuleInv
<1> SUFFICES ASSUME RuleInit PROVE RuleInv
  OBVIOUS
<1>1. TickInv
  BY RulesAssumption DEF RuleInit, TickInv, NoTick
<1>2. ScopeInv
  <2>1. IsSeq(<<>>)
    <3>1. <<>> \in Seq({})
      OBVIOUS
    <3> QED
      BY <3>1 DEF IsSeq
  <2> QED
    BY <2>1, RulesAssumption DEF RuleInit, ScopeInv
<1> QED
  BY <1>1, <1>2, ClearedCache DEF RuleInit, RuleInv, JumpInv

\* A read that succeeds returns a view of the cache's tick, or of a committed
\* one while the cache is still at tick zero.
LEMMA ReadIsFresh ==
  ASSUME TickInv, NEW table, CanRead(cacheTick, table)
  PROVE  /\ cacheTick \in Nat /\ latest \in Nat
         /\ cacheTick <= MaxTick /\ latest <= MaxTick
         /\ cacheTick # 0 => latest = cacheTick
<1>1. MaxTick \in Nat
  BY RulesAssumption
<1>2. latest # NoTick
  BY DEF TickInv, CanRead
<1> QED
  BY <1>1, <1>2 DEF TickInv, CanRead, NoTick

\* A jump that finds a target has read the target's table.
LEMMA TargetWasRead ==
  ASSUME NEW edge, NEW direction, NEW row \in Targets(edge, direction)
  PROVE  CanRead(cacheTick, Ends(edge, direction).target)
<1>1. row \in DOMAIN Scanned(edge, direction)
  BY DEF Targets
<1>2. DOMAIN <<>> = {}
  OBVIOUS
<1>3. Scanned(edge, direction) # <<>>
  BY <1>1, <1>2
<1> QED
  BY <1>3 DEF Scanned

\* Pinning the target of a jump, with the view that the cache has for the
\* table or with a new one.
LEMMA PinKeeps ==
  ASSUME RuleInv, NEW table, NEW row, PinInCache(table, row)
  PROVE  /\ CacheInv(entries', counter', used', cacheTick, MaxTick)
         /\ result' \in {"Ok", "Err"}
         /\ result' = "Err" => PinViews(table) = {}
<1>0. CASE PinViews(table) = {}
  BY <1>0 DEF PinInCache, RuleInv
<1> SUFFICES ASSUME PinViews(table) # {}
             PROVE  /\ CacheInv(entries', counter', used', cacheTick, MaxTick)
                    /\ result' = "Ok"
  BY <1>0
<1>1. PICK view \in PinViews(table) :
        SetCache(Inserted(Cache, <<table, row>>, cacheTick, view))
  BY DEF PinInCache
<1>2. cacheTick \in Nat /\ cacheTick <= MaxTick
  BY RulesAssumption DEF RuleInv, TickInv
<1>3. view \in Nat /\ view <= MaxTick /\ (cacheTick # 0 => view = cacheTick)
  <2>1. CASE FindView(table, cacheTick) = {}
    <3>1. CanRead(cacheTick, table) /\ view = latest
      BY <1>1, <2>1 DEF PinViews
    <3> QED
      BY <3>1, ReadIsFresh DEF RuleInv
  <2>2. CASE FindView(table, cacheTick) # {}
    <3>1. PICK k \in DOMAIN entries : view = entries[k].view
      BY <1>1, <2>2 DEF FindView, PinViews
    <3>2. entries[k] \in Entry
      BY DEF RuleInv, CacheInv, Recency, LastUse
    <3>3. /\ entries[k].view <= MaxTick
          /\ cacheTick # 0 => entries[k].view = cacheTick
      BY DEF RuleInv, CacheInv, Fresh
    <3> QED
      BY <3>1, <3>2, <3>3 DEF Entry
  <2> QED
    BY <2>1, <2>2
<1>4. CacheInv(Cache.entries, Cache.counter, Cache.used, cacheTick, MaxTick)
  BY DEF RuleInv, Cache
<1> DEFINE d == Inserted(Cache, <<table, row>>, cacheTick, view)
<1>5. CacheInv(d.entries, d.counter, d.used, cacheTick, MaxTick)
  BY <1>2, <1>3, <1>4, InsertKeeps
<1>6. result' = "Ok"
  BY DEF PinInCache
<1> QED
  BY <1>1, <1>5, <1>6 DEF SetCache

\* A hit of get moves the entry to the end of the history.
LEMMA GetKeeps ==
  ASSUME RuleInv, NEW key, Get(key)
  PROVE  CacheInv(entries', counter', used', cacheTick, MaxTick)
<1> DEFINE entry == [entries[key] EXCEPT !.access = counter + 1]
<1>1. /\ key \in DOMAIN entries /\ counter' = counter + 1
      /\ entries' = [entries EXCEPT ![key] = entry] /\ used' = Append(used, key)
  BY DEF Get
<1>2. counter \in Nat
  BY SeqAppend DEF RuleInv, CacheInv, Recency
<1>3. entries[key] \in Entry
  BY <1>1 DEF RuleInv, CacheInv, Recency, LastUse
<1>4. /\ entry \in Entry /\ entry.access = counter + 1
      /\ entry.tick = entries[key].tick /\ entry.view = entries[key].view
  BY <1>2, <1>3 DEF Entry
<1> HIDE DEF entry
<1>5. entries' = With(entries, key, entry)
  <2>1. DOMAIN entries \cup {key} = DOMAIN entries
    BY <1>1
  <2> QED
    BY <1>1, <2>1 DEF With
<1>6. /\ DOMAIN entries' = DOMAIN entries /\ entries'[key] = entry
      /\ \A k \in DOMAIN entries : k # key => entries'[k] = entries[k]
  BY <1>1
<1>7. Recency(entries', counter', used')
  <2>1. Recency(With(entries, key, entry), counter + 1, Append(used, key))
    BY <1>4, PinKeepsRecency DEF RuleInv, CacheInv
  <2> QED
    BY <1>1, <1>5, <2>1
<1>8. Bounded(entries')
  BY <1>6 DEF RuleInv, CacheInv, Bounded
<1>9. Fresh(entries', cacheTick, MaxTick)
  BY <1>1, <1>4, <1>6 DEF RuleInv, CacheInv, Fresh
<1> QED
  BY <1>7, <1>8, <1>9 DEF CacheInv

-----------------------------------------------------------------------------
(* Every step keeps the invariant                                          *)

\* A step that leaves the cache alone keeps its invariant.
LEMMA CacheUnchanged ==
  ASSUME RuleInv, UNCHANGED <<entries, counter, used, cacheTick>>
  PROVE  CacheInv(entries', counter', used', cacheTick', MaxTick)
  BY DEF RuleInv

\* So does one that leaves the scope alone,
LEMMA ScopeUnchanged ==
  ASSUME ScopeInv, UNCHANGED scopeVars
  PROVE  ScopeInv'
  BY DEF ScopeInv, scopeVars

\* and one that leaves the ticks alone.
LEMMA TickUnchanged ==
  ASSUME TickInv, UNCHANGED <<latest, views, cacheTick>>
  PROVE  TickInv'
  BY DEF TickInv

\* A call that needs the evaluator free finds no jump in progress.
LEMMA FreeCall ==
  ASSUME Free, UNCHANGED jump
  PROVE  JumpInv'
  BY DEF Free, JumpInv

\* Prefetch, get, mark_dirty, set_tick and the rebuild.
LEMMA CacheCallsKeepInv ==
  ASSUME RuleInv,
         \/ AdvanceTick \/ Rebuild \/ MarkDirty
         \/ \E q \in Requests : Prefetch(q)
         \/ \E k \in DOMAIN entries : Get(k)
  PROVE  RuleInv'
<1> USE DEF RuleInv
<1>0. JumpInv'
  <2>1. Free /\ UNCHANGED jump
    BY DEF AdvanceTick, Rebuild, MarkDirty, Prefetch, Get
  <2> QED
    BY <2>1, FreeCall
<1>1. CASE AdvanceTick
  <2>1. latest # NoTick /\ SetTick(latest) /\ result' = "Ok"
        /\ UNCHANGED <<latest, views, scopeVars>>
    BY <1>1 DEF AdvanceTick
  <2>2. CASE cacheTick = latest
    <3>1. UNCHANGED <<entries, counter, used, cacheTick>>
      BY <2>1, <2>2 DEF SetTick, cacheVars
    <3> QED
      BY <1>0, <2>1, <3>1, CacheUnchanged, ScopeUnchanged, TickUnchanged
  <2>3. CASE cacheTick # latest
    <3>1. entries' = <<>> /\ counter' = 0 /\ used' = <<>> /\ cacheTick' = latest
      BY <2>1, <2>3 DEF SetTick, Cleared, SetCache
    <3>2. TickInv'
      BY <2>1, <3>1, RulesAssumption DEF TickInv, NoTick
    <3> QED
      BY <1>0, <2>1, <3>1, <3>2, ClearedCache, ScopeUnchanged
  <2> QED
    BY <2>2, <2>3
<1>2. CASE Rebuild
  <2>1. latest # NoTick /\ result' = "Ok" /\ UNCHANGED <<latest, views, scopeVars>>
        /\ entries' = <<>> /\ counter' = 0 /\ used' = <<>> /\ cacheTick' = latest
    BY <1>2 DEF Rebuild, Cleared, SetCache
  <2>2. TickInv'
    BY <2>1, RulesAssumption DEF TickInv, NoTick
  <2> QED
    BY <1>0, <2>1, <2>2, ClearedCache, ScopeUnchanged
<1>3. CASE MarkDirty
  BY <1>0, <1>3, CacheUnchanged, ScopeUnchanged, TickUnchanged DEF MarkDirty
<1>4. ASSUME NEW q \in Requests, Prefetch(q) PROVE RuleInv'
  <2>1. /\ UNCHANGED <<latest, views, cacheTick, scopeVars>>
        /\ result' \in {"Ok", "Err"}
    BY <1>4 DEF Prefetch
  <2>2. CASE CanRead(cacheTick, q.table)
    <3>1. SetCache(PrefetchRows(q))
      BY <1>4, <2>2 DEF Prefetch
    <3>2. /\ cacheTick \in Nat /\ latest \in Nat
          /\ cacheTick <= MaxTick /\ latest <= MaxTick
          /\ cacheTick # 0 => latest = cacheTick
      BY <2>2, ReadIsFresh
    <3> DEFINE d == PrefetchRows(q)
    <3>3. CacheInv(d.entries, d.counter, d.used, cacheTick, MaxTick)
      BY <3>2, PrefetchKeeps
    <3>4. CacheInv(entries', counter', used', cacheTick', MaxTick)
      BY <2>1, <3>1, <3>3 DEF SetCache
    <3> QED
      BY <1>0, <2>1, <3>4, ScopeUnchanged, TickUnchanged
  <2>3. CASE ~ CanRead(cacheTick, q.table)
    <3>1. UNCHANGED <<entries, counter, used>>
      BY <1>4, <2>3 DEF Prefetch
    <3> QED
      BY <1>0, <2>1, <3>1, CacheUnchanged, ScopeUnchanged, TickUnchanged
  <2> QED
    BY <2>2, <2>3
<1>5. ASSUME NEW k \in DOMAIN entries, Get(k) PROVE RuleInv'
  <2>1. UNCHANGED <<latest, views, cacheTick, scopeVars>> /\ result' = "Ok"
    BY <1>5 DEF Get
  <2>2. CacheInv(entries', counter', used', cacheTick', MaxTick)
    BY <1>5, <2>1, GetKeeps
  <2> QED
    BY <1>0, <2>1, <2>2, ScopeUnchanged, TickUnchanged
<1> QED
  BY <1>1, <1>2, <1>3, <1>4, <1>5

\* Jumps, pop and reset.
LEMMA ScopeCallsKeepInv ==
  ASSUME RuleInv,
         \/ \E e \in Edges, d \in {"Forward", "Reverse"} :
              JumpResolves(e, d) \/ JumpFails(e, d)
         \/ JumpTo
         \/ ScopePop
         \/ \E r \in Root : ScopeReset(r)
  PROVE  RuleInv'
<1> USE DEF RuleInv
<1>1. ASSUME NEW e \in Edges, NEW d \in {"Forward", "Reverse"}, JumpResolves(e, d)
      PROVE  RuleInv'
  <2>1. PICK row \in Targets(e, d) :
          jump' = {[table |-> Ends(e, d).target, row |-> row, at |-> latest]}
    BY <1>1 DEF JumpResolves
  <2>2. /\ UNCHANGED <<latest, views, cacheVars, scopeVars, result>>
        /\ Len(stack) < MaxDepth
    BY <1>1 DEF JumpResolves
  <2>3. CanRead(cacheTick, Ends(e, d).target)
    BY <2>1, TargetWasRead
  <2>4. Ends(e, d).target \in DOMAIN PrimaryKey
    BY RulesAssumption DEF Ends
  <2>5. CanRead(cacheTick, Ends(e, d).target)'
    BY <2>2, <2>3 DEF CanRead, cacheVars, Ends, KeyOf
  <2>6. latest \in NoTick .. latest
    BY RulesAssumption DEF TickInv, NoTick
  <2>7. JumpInv'
    BY <2>1, <2>2, <2>4, <2>5, <2>6 DEF JumpInv, scopeVars, NoTick
  <2> QED
    BY <2>2, <2>7, CacheUnchanged, ScopeUnchanged, TickUnchanged DEF cacheVars
<1>5. CASE JumpTo
  <2>1. PICK j \in jump :
          /\ stack' = Append(stack, here)
          /\ here' = [table |-> j.table, row |-> j.row]
          /\ PinInCache(j.table, j.row)
    BY <1>5 DEF JumpTo
  <2>2. UNCHANGED <<latest, views, cacheTick>> /\ jump' = {}
    BY <1>5 DEF JumpTo
  <2>3. /\ CacheInv(entries', counter', used', cacheTick', MaxTick)
        /\ result' \in {"Ok", "Err"}
    BY <2>1, <2>2, PinKeeps
  <2>4. j.table \in DOMAIN PrimaryKey /\ Len(stack) < MaxDepth
    BY <2>1 DEF JumpInv
  <2>5. ScopeInv'
    <3>1. /\ IsSeq(stack') /\ Len(stack) \in Nat /\ Len(stack') = Len(stack) + 1
          /\ stack'[Len(stack) + 1] = here
          /\ \A i \in 1 .. Len(stack) : stack'[i] = stack[i]
      BY <2>1, SeqAppend DEF ScopeInv
    <3>2. ASSUME NEW i \in 1 .. Len(stack') PROVE stack'[i].table \in DOMAIN PrimaryKey
      <4>1. i \in 1 .. Len(stack) \/ i = Len(stack) + 1
        BY <3>1
      <4> QED
        BY <3>1, <4>1 DEF ScopeInv
    <3>3. Len(stack') <= MaxDepth
      BY <2>4, <3>1, RulesAssumption
    <3>4. here'.table \in DOMAIN PrimaryKey
      BY <2>1, <2>4
    <3> QED
      BY <3>1, <3>2, <3>3, <3>4 DEF ScopeInv
  <2>6. JumpInv'
    BY <2>2 DEF JumpInv
  <2> QED
    BY <2>2, <2>3, <2>5, <2>6, TickUnchanged
<1>2. ASSUME NEW e \in Edges, NEW d \in {"Forward", "Reverse"}, JumpFails(e, d) PROVE RuleInv'
  <2>1. /\ UNCHANGED <<latest, views, cacheVars, scopeVars>> /\ result' = "Err"
        /\ Free /\ UNCHANGED jump
    BY <1>2 DEF JumpFails
  <2> QED
    BY <2>1, CacheUnchanged, ScopeUnchanged, TickUnchanged, FreeCall DEF cacheVars
<1>3. CASE ScopePop
  <2>1. UNCHANGED <<latest, views, cacheVars>> /\ Free /\ UNCHANGED jump
    BY <1>3 DEF ScopePop
  <2>2. ScopeInv' /\ result' \in {"Ok", "Err"}
    <3>1. CASE stack = <<>>
      BY <1>3, <3>1, ScopeUnchanged DEF ScopePop
    <3>2. CASE stack # <<>>
      <4>1. here' = Last(stack) /\ stack' = Front(stack) /\ result' = "Ok"
        BY <1>3, <3>2 DEF ScopePop
      <4>2. PICK S : stack \in Seq(S)
        BY DEF ScopeInv, IsSeq
      <4>3. Len(stack) \in Nat /\ Len(stack) # 0
        BY <3>2, <4>2
      <4>4. /\ stack' \in Seq(S) /\ Len(stack') = Len(stack) - 1
            /\ \A i \in 1 .. Len(stack) - 1 : stack'[i] = stack[i]
        <5>1. stack' = SubSeq(stack, 1, Len(stack) - 1)
          BY <4>1 DEF Front
        <5>2. \A i \in 1 .. Len(stack) - 1 : i \in 1 .. Len(stack)
          BY <4>3
        <5>3. SubSeq(stack, 1, Len(stack) - 1) = [i \in 1 .. Len(stack) - 1 |-> stack[i]]
          BY <4>2, <4>3
        <5>4. \A i \in 1 .. Len(stack) : stack[i] \in S
          BY <4>2
        <5>5. PICK m \in Nat : m = Len(stack) - 1
          BY <4>3
        <5>6. stack' = [i \in 1 .. m |-> stack[i]] /\ \A i \in 1 .. m : stack[i] \in S
          BY <5>1, <5>2, <5>3, <5>4, <5>5
        <5>7. stack' \in Seq(S) /\ Len(stack') = m
          BY <5>6
        <5> QED
          BY <5>5, <5>6, <5>7
      <4>5. here' = stack[Len(stack)] /\ Len(stack) \in 1 .. Len(stack)
        BY <4>1, <4>3 DEF Last
      <4>6. IsSeq(stack')
        BY <4>4 DEF IsSeq
      <4>7. Len(stack') <= MaxDepth
        BY <4>3, <4>4, RulesAssumption DEF ScopeInv
      <4>8. \A i \in 1 .. Len(stack') : stack'[i].table \in DOMAIN PrimaryKey
        BY <4>3, <4>4 DEF ScopeInv
      <4>9. here'.table \in DOMAIN PrimaryKey
        BY <4>5 DEF ScopeInv
      <4> QED
        BY <4>1, <4>6, <4>7, <4>8, <4>9 DEF ScopeInv
    <3> QED
      BY <3>1, <3>2
  <2> QED
    BY <2>1, <2>2, CacheUnchanged, TickUnchanged, FreeCall DEF cacheVars
<1>4. ASSUME NEW r \in Root, ScopeReset(r) PROVE RuleInv'
  <2>1. /\ UNCHANGED <<latest, views, cacheVars>> /\ result' = "Ok"
        /\ here' = r /\ stack' = <<>> /\ Free /\ UNCHANGED jump
    BY <1>4 DEF ScopeReset
  <2>2. IsSeq(<<>>) /\ Len(<<>>) = 0
    <3>1. <<>> \in Seq({})
      OBVIOUS
    <3> QED
      BY <3>1 DEF IsSeq
  <2>3. ScopeInv'
    BY <2>1, <2>2, RulesAssumption DEF ScopeInv
  <2> QED
    BY <2>1, <2>3, CacheUnchanged, TickUnchanged, FreeCall DEF cacheVars
<1> QED
  BY <1>1, <1>2, <1>3, <1>4, <1>5

\* Effects, modifiers and commits leave cache and scope alone.
LEMMA OtherCallsKeepInv ==
  ASSUME RuleInv,
         \/ \E w \in World : Commit(w)
         \/ \E p \in Programs : EvaluateEffect(p)
         \/ \E m \in Bonus : RegisterModifier(m)
         \/ \E f \in Fields : ClearField(f)
  PROVE  RuleInv'
<1> USE DEF RuleInv
<1>1. ASSUME NEW w \in World, Commit(w) PROVE RuleInv'
  <2>1. /\ latest < MaxTick /\ latest' = latest + 1 /\ result' = "Ok"
        /\ UNCHANGED <<cacheVars, scopeVars, jump>>
    BY <1>1 DEF Commit
  <2>2. TickInv'
    BY <2>1, RulesAssumption DEF TickInv, NoTick, cacheVars
  <2>3. \A j \in jump : j.at \in NoTick .. latest + 1 /\ j.at # latest + 1
    BY RulesAssumption DEF JumpInv, TickInv, NoTick
  <2>4. JumpInv'
    BY <2>1, <2>3 DEF JumpInv, scopeVars, NoTick
  <2> QED
    BY <2>1, <2>2, <2>4, CacheUnchanged, ScopeUnchanged DEF cacheVars
<1>2. ASSUME NEW p \in Programs, EvaluateEffect(p) PROVE RuleInv'
  <2>1. /\ UNCHANGED <<latest, views, cacheVars, scopeVars>>
        /\ result' \in {"Ok", "Err"} /\ Free /\ UNCHANGED jump
    BY <1>2 DEF EvaluateEffect
  <2> QED
    BY <2>1, CacheUnchanged, ScopeUnchanged, TickUnchanged, FreeCall DEF cacheVars
<1>3. ASSUME NEW m \in Bonus, RegisterModifier(m) PROVE RuleInv'
  BY <1>3, CacheUnchanged, ScopeUnchanged, TickUnchanged, FreeCall
     DEF RegisterModifier, cacheVars
<1>4. ASSUME NEW f \in Fields, ClearField(f) PROVE RuleInv'
  BY <1>4, CacheUnchanged, ScopeUnchanged, TickUnchanged, FreeCall
     DEF ClearField, cacheVars
<1> QED
  BY <1>1, <1>2, <1>3, <1>4

\* Every call of the evaluator, and every commit beside it, keeps it.
LEMMA RuleNextInv == RuleInv /\ [RuleNext]_ruleVars => RuleInv'
<1> SUFFICES ASSUME RuleInv, [RuleNext]_ruleVars PROVE RuleInv'
  OBVIOUS
<1>1. CASE UNCHANGED ruleVars
  <2>1. UNCHANGED <<latest, views, cacheVars, scopeVars, jump, result>>
    BY <1>1 DEF ruleVars
  <2>2. JumpInv'
    BY <2>1 DEF RuleInv, JumpInv, CanRead, cacheVars, scopeVars
  <2> QED
    BY <2>1, <2>2, CacheUnchanged, ScopeUnchanged, TickUnchanged DEF RuleInv, cacheVars
<1>2. CASE RuleNext
  BY <1>2, CacheCallsKeepInv, ScopeCallsKeepInv, OtherCallsKeepInv DEF RuleNext
<1> QED
  BY <1>1, <1>2

-----------------------------------------------------------------------------
(* What the rule engine promises                                           *)

\* The inductive invariant: an access number is the place of a key's last use,
\* the cache holds what was used since some moment, its size is bounded, and
\* away from tick zero all of it is of the cache's own tick.
THEOREM RuleInvariant == RuleSpec => []RuleInv
  BY RuleInitInv, RuleNextInv, PTL DEF RuleSpec

\* Every reachable state is well typed, for every world, graph and program.
THEOREM RuleTypeCorrect == RuleSpec => []RuleTypeOK
<1>1. RuleInv => RuleTypeOK
  <2> SUFFICES ASSUME RuleInv PROVE RuleTypeOK
    OBVIOUS
  <2>1. IsSeq(stack) /\ IsSeq(used) /\ counter = Len(used)
    BY DEF RuleInv, ScopeInv, CacheInv, Recency
  <2>2. DOMAIN stack = 1 .. Len(stack) /\ counter \in Nat
    BY <2>1, SeqAppend
  <2>3. ASSUME NEW k \in DOMAIN entries
        PROVE  /\ entries[k].tick \in 0 .. MaxTick /\ entries[k].view \in 0 .. MaxTick
               /\ entries[k].access \in 1 .. counter
    <3>1. entries[k] \in Entry /\ entries[k].access \in 1 .. counter
      BY DEF RuleInv, CacheInv, Recency, LastUse
    <3>2. entries[k].tick <= MaxTick /\ entries[k].view <= MaxTick
      BY DEF RuleInv, CacheInv, Fresh
    <3> QED
      BY <3>1, <3>2, RulesAssumption DEF Entry
  <2> QED
    BY <2>2, <2>3 DEF RuleInv, TickInv, ScopeInv, JumpInv, CacheInv, Bounded, RuleTypeOK
<1> QED
  BY <1>1, RuleInvariant, PTL

\* Whatever jumps, prefetches, commits and missed refreshes came before, once
\* the evaluator has left tick zero every row of the prefetch cache comes from
\* the world committed at the cache's own tick.
THEOREM CacheIsOfOneTick == RuleSpec => []CacheOfOneTick
<1>1. RuleInv => CacheOfOneTick
  BY DEF RuleInv, CacheInv, Fresh, CacheOfOneTick
<1> QED
  BY <1>1, RuleInvariant, PTL

\* Eviction is least recently used, for every capacity: the cache holds exactly
\* the rows used since some moment, and no more than fit.
THEOREM EvictionIsLru == RuleSpec => []KeepsMostRecent
<1>1. RuleInv => KeepsMostRecent
  <2> SUFFICES ASSUME RuleInv PROVE KeepsMostRecent
    OBVIOUS
  <2>1. Max({1, Capacity}) = IF Capacity = 0 THEN 1 ELSE Capacity
    <3> DEFINE m == IF Capacity = 0 THEN 1 ELSE Capacity
    <3>1. Capacity \in Nat
      BY RulesAssumption
    <3>2. /\ m \in {1, Capacity} /\ \A y \in {1, Capacity} : m >= y
          /\ \A x \in {1, Capacity} : (\A y \in {1, Capacity} : x >= y) => x = m
      BY <3>1
    <3> QED
      BY <3>2 DEF Max
  <2>2. Cardinality(DOMAIN entries) <= Max({1, Capacity})
    BY <2>1 DEF RuleInv, CacheInv, Bounded
  <2>3. PICK since \in 1 .. counter + 1 : HoldsSince(entries, counter, used, since)
    BY DEF RuleInv, CacheInv, Recency
  <2>4. DOMAIN entries = {used[i] : i \in since .. counter}
    BY <2>3 DEF HoldsSince
  <2>5. counter = Len(used)
    BY DEF RuleInv, CacheInv, Recency
  <2> QED
    BY <2>2, <2>4, <2>5 DEF KeepsMostRecent
<1> QED
  BY <1>1, RuleInvariant, PTL

\* A call of the evaluator that returns an error has not touched the scope,
\* unless it is a jump_to with a commit between its two reads; that one has
\* pushed the frame of the scope it was called in, and no other.
THEOREM FailedCallIsUndoable == RuleSpec => ErrorScopeUndoable
<1>1. RuleInv /\ [RuleNext]_ruleVars =>
        [result' = "Err" /\ scopeVars' # scopeVars =>
           (\E j \in jump : j.at < latest) /\ stack' = Append(stack, here)]_ruleVars
  <2> SUFFICES ASSUME RuleInv, RuleNext, result' = "Err", scopeVars' # scopeVars
               PROVE  (\E j \in jump : j.at < latest) /\ stack' = Append(stack, here)
    OBVIOUS
  <2> USE DEF RuleNext
  <2>1. CASE AdvanceTick \/ Rebuild \/ MarkDirty
    BY <2>1 DEF AdvanceTick, Rebuild, MarkDirty
  <2>2. CASE \/ \E q \in Requests : Prefetch(q)
             \/ \E k \in DOMAIN entries : Get(k)
    BY <2>2 DEF Prefetch, Get
  <2>3. CASE \E e \in Edges, d \in {"Forward", "Reverse"} :
               JumpResolves(e, d) \/ JumpFails(e, d)
    BY <2>3 DEF JumpResolves, JumpFails
  <2>4. CASE ScopePop \/ \E r \in Root : ScopeReset(r)
    BY <2>4 DEF ScopePop, ScopeReset
  <2>5. CASE \/ \E w \in World : Commit(w)
             \/ \E p \in Programs : EvaluateEffect(p)
             \/ \E m \in Bonus : RegisterModifier(m)
             \/ \E f \in Fields : ClearField(f)
    BY <2>5 DEF Commit, EvaluateEffect, RegisterModifier, ClearField
  <2>6. CASE JumpTo
    <3>1. PICK j \in jump :
            stack' = Append(stack, here) /\ PinInCache(j.table, j.row)
      BY <2>6 DEF JumpTo
    <3>2. PinViews(j.table) = {}
      BY <3>1, PinKeeps
    <3>3. ~ CanRead(cacheTick, j.table)
      BY <3>2 DEF PinViews
    <3>4. j.at \in NoTick .. latest /\ j.at # latest
      BY <3>1, <3>3 DEF RuleInv, JumpInv
    <3>5. j.at < latest
      BY <3>4, RulesAssumption DEF RuleInv, TickInv, NoTick
    <3> QED
      BY <3>1, <3>5
  <2> QED
    BY <2>1, <2>2, <2>3, <2>4, <2>5, <2>6
<1> QED
  BY <1>1, RuleInvariant, PTL DEF RuleSpec, ErrorScopeUndoable

-----------------------------------------------------------------------------
(* The arithmetic behind the rules, for numbers of every width             *)

\* What the division of the code is made of: the division of the magnitudes,
\* with the sign of the two together.
LEMMA QuotientParts ==
  ASSUME NEW a \in Int, NEW b \in Int, b # 0
  PROVE  \E q \in Nat, p \in Nat :
           /\ p = Magnitude(b) * q /\ p <= Magnitude(a) /\ Magnitude(a) < p + Magnitude(b)
           /\ Quotient(a, b) = IF (a < 0) = (b < 0) THEN q ELSE -q
           /\ Quotient(a, b) * b = IF a < 0 THEN -p ELSE p
<1> DEFINE m == Magnitude(a)
           k == Magnitude(b)
           q == m \div k
<1>1. m \in Nat /\ k \in Nat \ {0}
  BY DEF Magnitude
<1>2. q \in Nat /\ k * q \in Nat /\ k * q <= m /\ m < k * q + k
  BY <1>1
<1>3. (b > 0 => k = b) /\ (b < 0 => k = -b)
  BY DEF Magnitude
<1>4. Quotient(a, b) = IF (a < 0) = (b < 0) THEN q ELSE -q
  BY DEF Quotient, Magnitude
<1> HIDE DEF m, k, q
<1>5. /\ b > 0 => q * b = k * q /\ (-q) * b = -(k * q)
      /\ b < 0 => q * b = -(k * q) /\ (-q) * b = k * q
  BY <1>1, <1>2, <1>3
<1>6. Quotient(a, b) * b = IF a < 0 THEN -(k * q) ELSE k * q
  BY <1>1, <1>2, <1>4, <1>5
<1> QED
  BY <1>2, <1>4, <1>6 DEF m, k

\* The integer division of the code truncates towards zero: it errs by less
\* than the divisor, and never past the dividend.
LEMMA QuotientTruncates ==
  ASSUME NEW a \in Int, NEW b \in Int, b # 0
  PROVE  /\ Quotient(a, b) \in Int
         /\ Magnitude(Quotient(a, b) * b - a) < Magnitude(b)
         /\ a >= 0 => 0 <= Quotient(a, b) * b /\ Quotient(a, b) * b <= a
         /\ a < 0 => a <= Quotient(a, b) * b /\ Quotient(a, b) * b <= 0
<1>1. PICK q \in Nat, p \in Nat :
        /\ p = Magnitude(b) * q /\ p <= Magnitude(a) /\ Magnitude(a) < p + Magnitude(b)
        /\ Quotient(a, b) = IF (a < 0) = (b < 0) THEN q ELSE -q
        /\ Quotient(a, b) * b = IF a < 0 THEN -p ELSE p
  BY QuotientParts
<1>2. Quotient(a, b) \in Int
  BY <1>1
<1> DEFINE t == Quotient(a, b) * b
<1>3. t = IF a < 0 THEN -p ELSE p
  BY <1>1
<1>4. p <= Magnitude(a) /\ Magnitude(a) < p + Magnitude(b)
  BY <1>1
<1> HIDE DEF t
<1>5. /\ Magnitude(t - a) < Magnitude(b)
      /\ a >= 0 => 0 <= t /\ t <= a
      /\ a < 0 => a <= t /\ t <= 0
  BY <1>3, <1>4 DEF Magnitude
<1> QED
  BY <1>2, <1>5 DEF t

\* The remainder by two tells an even number from an odd one.
LEMMA Parity ==
  ASSUME NEW n \in Int
  PROVE  /\ Remainder(n, 2) = 0 => n % 2 = 0
         /\ Remainder(n, 2) # 0 => (n + 1) % 2 = 0 /\ (n - 1) % 2 = 0
<1>1. /\ Quotient(n, 2) \in Int /\ Magnitude(Quotient(n, 2) * 2 - n) < Magnitude(2)
  BY QuotientTruncates
<1> DEFINE h == Quotient(n, 2)
           r == Remainder(n, 2)
<1>2. h \in Int /\ r = n - 2 * h /\ r \in {-1, 0, 1}
  BY <1>1 DEF Remainder, Magnitude
<1> HIDE DEF h, r
<1> QED
  BY <1>2 DEF r

\* rescale to fewer decimals, for every raw and every power of ten (indeed for
\* every factor): the result is the nearest number, and the even one of two
\* that are equally near.
THEOREM RescaleRoundsHalfEven ==
  ASSUME NEW raw \in Int, NEW factor \in Nat \ {0}
  PROVE  /\ 2 * Magnitude(Round(raw, factor) * factor - raw) <= factor
         /\ 2 * Magnitude(Round(raw, factor) * factor - raw) = factor
              => Round(raw, factor) % 2 = 0
<1> DEFINE q == Quotient(raw, factor)
           p == q * factor
           rest == 2 * Magnitude(Remainder(raw, factor))
           R == Round(raw, factor)
<1>1. factor \in Int /\ factor > 0 /\ Magnitude(factor) = factor
  BY DEF Magnitude
<1>2. /\ q \in Int /\ p \in Int /\ Magnitude(p - raw) < factor
      /\ raw >= 0 => 0 <= p /\ p <= raw
      /\ raw < 0 => raw <= p /\ p <= 0
  BY <1>1, QuotientTruncates
<1>3. factor * q = p
  BY <1>1, <1>2
<1>4. rest = 2 * Magnitude(p - raw) /\ rest \in Nat
  BY <1>2, <1>3 DEF Remainder, Magnitude
<1>5. (q + 1) * factor = p + factor /\ (q - 1) * factor = p - factor
  BY <1>1, <1>2
<1>6. R = IF rest > factor \/ (rest = factor /\ Remainder(q, 2) # 0)
            THEN IF raw >= 0 THEN q + 1 ELSE q - 1
            ELSE q
  BY DEF Round
<1>7. /\ Remainder(q, 2) = 0 => q % 2 = 0
      /\ Remainder(q, 2) # 0 => (q + 1) % 2 = 0 /\ (q - 1) % 2 = 0
  BY <1>2, Parity
<1> HIDE DEF q, p, rest, R
<1>8. CASE rest > factor \/ (rest = factor /\ Remainder(q, 2) # 0)
  <2>1. CASE raw >= 0
    <3>1. R = q + 1 /\ R * factor = p + factor
      BY <1>5, <1>6, <1>8, <2>1
    <3>2. Magnitude(p - raw) = raw - p /\ Magnitude(R * factor - raw) = p + factor - raw
      BY <1>1, <1>2, <2>1, <3>1 DEF Magnitude
    <3>3. 2 * Magnitude(R * factor - raw) = 2 * factor - rest
      BY <1>1, <1>2, <1>4, <3>2
    <3> QED
      BY <1>1, <1>4, <1>7, <1>8, <3>1, <3>3 DEF R
  <2>2. CASE raw < 0
    <3>1. R = q - 1 /\ R * factor = p - factor
      BY <1>5, <1>6, <1>8, <2>2
    <3>2. Magnitude(p - raw) = p - raw /\ Magnitude(R * factor - raw) = raw - p + factor
      BY <1>1, <1>2, <2>2, <3>1 DEF Magnitude
    <3>3. 2 * Magnitude(R * factor - raw) = 2 * factor - rest
      BY <1>1, <1>2, <1>4, <3>2
    <3> QED
      BY <1>1, <1>4, <1>7, <1>8, <3>1, <3>3 DEF R
  <2> QED
    BY <2>1, <2>2
<1>9. CASE ~ (rest > factor \/ (rest = factor /\ Remainder(q, 2) # 0))
  <2>1. R = q /\ R * factor = p
    BY <1>6, <1>9 DEF p
  <2>2. rest <= factor /\ (rest = factor => R % 2 = 0)
    BY <1>1, <1>4, <1>7, <1>9, <2>1
  <2> QED
    BY <1>4, <2>1, <2>2 DEF R
<1> QED
  BY <1>8, <1>9

\* Division, for every width and scale: a quotient that is not an error is less
\* than one unit of its last decimal away from the exact one.
THEOREM DivisionErrsByLessThanAUnit ==
  ASSUME NEW x \in [raw : Int, scale : Nat], NEW y \in [raw : Int, scale : Nat],
         IsOk(Div(x, y))
  PROVE  Magnitude(Div(x, y).raw * y.raw - x.raw * 10^x.scale) < Magnitude(y.raw)
<1>1. "error" \notin DOMAIN Div(x, y)
  BY DEF IsOk
<1>2. \A kind : "error" \in DOMAIN Error(kind)
  BY DEF Error
<1>3. /\ x.scale = y.scale /\ y.raw # 0
      /\ HasPower(x.scale) /\ x.raw * 10^x.scale \in Narrow
      /\ Quotient(x.raw * 10^x.scale, y.raw) \in Narrow
      /\ Div(x, y) = Number(Quotient(x.raw * 10^x.scale, y.raw), x.scale)
  BY <1>1, <1>2 DEF Div, SameScale, Checked, Overflow
<1>4. 10^x.scale \in Int
  OBVIOUS
<1>5. PICK w \in Int : w = x.raw * 10^x.scale
  BY <1>4
<1>6. Div(x, y).raw = Quotient(w, y.raw)
  BY <1>3, <1>5 DEF Number
<1>7. Magnitude(Quotient(w, y.raw) * y.raw - w) < Magnitude(y.raw)
  BY <1>3, QuotientTruncates
<1> QED
  BY <1>5, <1>6, <1>7
=============================================================================
