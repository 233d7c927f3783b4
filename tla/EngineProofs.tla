---------------------------- MODULE EngineProofs ----------------------------
(***************************************************************************)
(* Proofs about what the engine keeps between commits. ArrowStore: the     *)
(* catalogue stays consistent, the two layers of every index agree, and a  *)
(* complete checkpoint is restored. EngineServices: names are stable, the  *)
(* debug trails keep the newest entries, the relation graph stays sound    *)
(* and free of cycles, and an exported manifest loads again.               *)
(***************************************************************************)
EXTENDS ArrowStore, EngineServices, ArrowTableProofs, WellOrder

-----------------------------------------------------------------------------
(* The folds: apply_diffs over its diffs, an index over its entries        *)

\* One step of either fold.
FoldStep(kind, done, tick, item) ==
  IF kind = "diffs" THEN ApplyNext(done, tick, item)
  ELSE Indexed(done, item.key, item.entry)

\* f is the fold over the items whose index is in a subset of 1 .. n.
StepFold(f, kind, tick, items, base, n) ==
  f = [s \in SUBSET (1 .. n) |->
         IF s = {} THEN base
         ELSE FoldStep(kind, f[s \ {Max(s)}], tick, items[Max(s)])]

\* The fold is well defined.
LEMMA StepFoldExists ==
  ASSUME NEW kind, NEW tick, NEW items, NEW base, NEW n \in Nat
  PROVE  \E f : StepFold(f, kind, tick, items, base, n)
<1> DEFINE S == {k \in Nat : ~ \E f : StepFold(f, kind, tick, items, base, k)}
<1>1. SUFFICES ASSUME S # {} PROVE FALSE
  OBVIOUS
<1>2. S \in SUBSET Nat
  OBVIOUS
<1>3. PICK k \in S : \A j \in S : k <= j
  BY <1>1, <1>2, LeastExists
<1>4. CASE k = 0
  <2> DEFINE f == [s \in SUBSET (1 .. 0) |-> base]
  <2>1. \A s \in SUBSET (1 .. 0) : s = {}
    OBVIOUS
  <2>2. StepFold(f, kind, tick, items, base, 0)
    BY <2>1 DEF StepFold
  <2> QED
    BY <1>4, <2>2
<1>5. CASE k # 0
  <2>1. k \in Nat /\ k - 1 \in Nat /\ ~ (k <= k - 1) /\ k \in 1 .. k
    BY <1>5
  <2>2. PICK g : StepFold(g, kind, tick, items, base, k - 1)
    BY <1>3, <2>1
  <2> DEFINE f == [s \in SUBSET (1 .. k) |->
                     IF k \in s THEN FoldStep(kind, g[s \ {k}], tick, items[k])
                     ELSE g[s]]
  <2>3. \A s \in SUBSET (1 .. k - 1) :
          g[s] = IF s = {} THEN base
                 ELSE FoldStep(kind, g[s \ {Max(s)}], tick, items[Max(s)])
    BY <2>2 DEF StepFold
  <2>4. \A s \in SUBSET (1 .. k) :
          /\ s \ {k} \in SUBSET (1 .. k - 1)
          /\ k \notin s => s \in SUBSET (1 .. k - 1)
    BY <2>1
  <2>5. \A s \in SUBSET (1 .. k) :
          f[s] = IF k \in s THEN FoldStep(kind, g[s \ {k}], tick, items[k])
                 ELSE g[s]
    OBVIOUS
  <2> HIDE DEF f
  <2>6. ASSUME NEW s \in SUBSET (1 .. k)
        PROVE  f[s] = IF s = {} THEN base
                      ELSE FoldStep(kind, f[s \ {Max(s)}], tick, items[Max(s)])
    <3>1. CASE s = {}
      <4>1. {} \in SUBSET (1 .. k - 1)
        OBVIOUS
      <4>2. f[s] = g[{}]
        BY <2>5, <3>1
      <4>3. g[{}] = base
        BY <2>3, <4>1
      <4> QED
        BY <3>1, <4>2, <4>3
    <3>2. CASE s # {} /\ k \in s
      <4>1. Max(s) = k
        BY <2>1, <3>2, MaxOfPrefix
      <4>2. s \ {k} \in SUBSET (1 .. k) /\ k \notin s \ {k}
        OBVIOUS
      <4>3. f[s \ {k}] = g[s \ {k}]
        BY <2>5, <4>2
      <4>4. f[s] = FoldStep(kind, g[s \ {k}], tick, items[k])
        BY <2>5, <3>2
      <4> QED
        BY <3>2, <4>1, <4>3, <4>4
    <3>3. CASE s # {} /\ k \notin s
      <4> DEFINE r == s \ {Max(s)}
      <4>1. r \in SUBSET (1 .. k) /\ k \notin r
        BY <3>3
      <4>2. f[r] = g[r] /\ f[s] = g[s]
        BY <2>5, <3>3, <4>1
      <4>3. s \in SUBSET (1 .. k - 1)
        BY <2>4, <3>3
      <4>4. g[s] = FoldStep(kind, g[r], tick, items[Max(s)])
        BY <2>3, <3>3, <4>3
      <4> QED
        BY <3>3, <4>2, <4>4
    <3> QED
      BY <3>1, <3>2, <3>3
  <2>7. f = [s \in SUBSET (1 .. k) |-> f[s]]
    BY DEF f
  <2>8. StepFold(f, kind, tick, items, base, k)
    BY <2>6, <2>7 DEF StepFold
  <2> QED
    BY <2>8
<1> QED
  BY <1>4, <1>5

\* Applied is that fold over all the diffs.
LEMMA AppliedIsFold ==
  ASSUME NEW tick, NEW X, NEW diffs \in Seq(X)
  PROVE  \E f : /\ StepFold(f, "diffs", tick, diffs, [ok |-> TRUE, tables |-> tables],
                            Len(diffs))
                /\ Applied(tick, diffs) = f[1 .. Len(diffs)]
<1> DEFINE base == [ok |-> TRUE, tables |-> tables]
           F == CHOOSE f : StepFold(f, "diffs", tick, diffs, base, Len(diffs))
<1>1. Len(diffs) \in Nat /\ DOMAIN diffs = 1 .. Len(diffs)
  OBVIOUS
<1>2. StepFold(F, "diffs", tick, diffs, base, Len(diffs))
  BY <1>1, StepFoldExists
<1>3. Applied(tick, diffs) = F[1 .. Len(diffs)]
  BY <1>1 DEF Applied, FoldLeft, MapThenFoldSet, StepFold, FoldStep
<1> QED
  BY <1>2, <1>3

\* The entries an index is built from, in the order of the ticks.
EntriesIn(versions, order, column) ==
  FlattenSeq([i \in DOMAIN order |-> EntriesOf(versions, order[i], column)])

\* BuiltIndex is the fold over those entries.
LEMMA BuiltIsFold ==
  ASSUME NEW versions, NEW order, NEW column, NEW X,
         EntriesIn(versions, order, column) \in Seq(X)
  PROVE  LET items == EntriesIn(versions, order, column)
         IN  \E f : /\ StepFold(f, "index", 0, items, EmptyIndex, Len(items))
                    /\ BuiltIndex(versions, order, column) = f[1 .. Len(items)]
<1> DEFINE items == EntriesIn(versions, order, column)
           F == CHOOSE f : StepFold(f, "index", 0, items, EmptyIndex, Len(items))
<1>1. Len(items) \in Nat /\ DOMAIN items = 1 .. Len(items)
  OBVIOUS
<1>2. StepFold(F, "index", 0, items, EmptyIndex, Len(items))
  BY <1>1, StepFoldExists
<1>3. BuiltIndex(versions, order, column) = F[1 .. Len(items)]
  BY <1>1 DEF BuiltIndex, EntriesIn, FoldLeft, MapThenFoldSet, StepFold, FoldStep
<1> QED
  BY <1>2, <1>3

-----------------------------------------------------------------------------
(* FlattenSeq                                                              *)

Flatten(f, seqs, n) ==
  f = [i \in 1 .. n |-> IF i = 1 THEN seqs[i] ELSE f[i - 1] \o seqs[i]]

\* The sequences up to the n-th can be joined.
LEMMA FlattenExists ==
  ASSUME NEW seqs, NEW n \in Nat
  PROVE  \E f : Flatten(f, seqs, n)
<1> DEFINE S == {k \in Nat : ~ \E f : Flatten(f, seqs, k)}
<1>1. SUFFICES ASSUME S # {} PROVE FALSE
  OBVIOUS
<1>2. S \in SUBSET Nat
  OBVIOUS
<1>3. PICK k \in S : \A j \in S : k <= j
  BY <1>1, <1>2, LeastExists
<1>4. CASE k = 0
  <2> DEFINE f == [i \in 1 .. 0 |-> seqs]
  <2>1. \A i \in 1 .. 0 : FALSE
    OBVIOUS
  <2>2. Flatten(f, seqs, 0)
    BY <2>1 DEF Flatten
  <2> QED
    BY <1>4, <2>2
<1>5. CASE k # 0
  <2>1. k \in Nat /\ k - 1 \in Nat /\ ~ (k <= k - 1)
    BY <1>5
  <2>2. PICK g : Flatten(g, seqs, k - 1)
    BY <1>3, <2>1
  <2> DEFINE f == [i \in 1 .. k |-> IF i = 1 THEN seqs[i] ELSE g[i - 1] \o seqs[i]]
  <2>3. \A i \in 1 .. k - 1 : g[i] = IF i = 1 THEN seqs[i] ELSE g[i - 1] \o seqs[i]
    BY <2>2 DEF Flatten
  <2>4. \A i \in 1 .. k - 1 : i \in 1 .. k /\ f[i] = g[i]
    BY <2>1, <2>3
  <2>5. \A i \in 1 .. k : i # 1 => i - 1 \in 1 .. k - 1
    BY <2>1
  <2>6. \A i \in 1 .. k : i # 1 => f[i - 1] = g[i - 1]
    BY <2>4, <2>5
  <2>7. Flatten(f, seqs, k)
    BY <2>6 DEF Flatten
  <2> QED
    BY <2>7
<1> QED
  BY <1>4, <1>5

\* Joining sequences over a set gives a sequence over it.
LEMMA FlattenType ==
  ASSUME NEW S, NEW seqs \in Seq(Seq(S))
  PROVE  FlattenSeq(seqs) \in Seq(S)
<1> DEFINE n == Len(seqs)
           F == CHOOSE f : Flatten(f, seqs, n)
           B == {i \in 1 .. n : F[i] \notin Seq(S)}
<1>1. n \in Nat /\ \A i \in 1 .. n : seqs[i] \in Seq(S)
  OBVIOUS
<1>2. Flatten(F, seqs, n)
  BY <1>1, FlattenExists
<1>3. FlattenSeq(seqs) = IF n = 0 THEN seqs ELSE F[n]
  BY DEF FlattenSeq, Flatten
<1> HIDE DEF F
<1>4. \A i \in 1 .. n : F[i] = IF i = 1 THEN seqs[i] ELSE F[i - 1] \o seqs[i]
  BY <1>2 DEF Flatten
<1> HIDE DEF n
<1>5. B = {}
  <2>1. SUFFICES ASSUME B # {} PROVE FALSE
    OBVIOUS
  <2>2. PICK i \in B : \A j \in B : i <= j
    <3>1. B \in SUBSET Nat
      BY <1>1
    <3> QED
      BY <2>1, <3>1, LeastExists
  <2>3. i # 1
    BY <1>1, <1>4
  <2>4. i - 1 \in 1 .. n /\ ~ (i <= i - 1)
    BY <1>1, <2>3
  <2>5. F[i - 1] \in Seq(S)
    BY <2>2, <2>4
  <2>6. F[i - 1] \o seqs[i] \in Seq(S)
    BY <1>1, <2>5
  <2> QED
    BY <1>4, <2>3, <2>6
<1>6. CASE n = 0
  <2>1. seqs = <<>>
    BY <1>6 DEF n
  <2> QED
    BY <1>3, <1>6, <2>1
<1>7. CASE n # 0
  BY <1>1, <1>3, <1>5, <1>7
<1> QED
  BY <1>6, <1>7

-----------------------------------------------------------------------------
(* The inductive invariant                                                 *)

\* The layers of an index over a set of keys.
Layers(keys, latest, history) ==
  /\ latest \in [keys -> IndexEntry] /\ history \in [keys -> SUBSET IndexEntry]
  /\ LayersAgree(latest, history)

Index == [latest : [Keys -> IndexEntry], history : [Keys -> SUBSET IndexEntry]]

\* A table the store can hold.
Good(table) ==
  /\ DOMAIN table = {"rows", "mode", "spec", "pkHistory", "fks", "parts"}
  /\ table.rows \in TableState
  /\ Layers(RowId, table.rows.pkLatest, table.pkHistory)
  /\ table.fks \in Seq(Index)
  /\ \A i \in DOMAIN table.fks : LayersAgree(table.fks[i].latest, table.fks[i].history)

TablesInv == \A n \in DOMAIN tables : Good(tables[n])

\* The ids that were given are below the next one, name tables that exist,
\* and name every table once.
CatalogInv ==
  /\ nextId \in Nat
  /\ \A i \in DOMAIN ids : i \in Nat /\ i < nextId /\ ids[i] \in DOMAIN tables
  /\ \A n \in DOMAIN tables : \E i \in DOMAIN ids : ids[i] = n
  /\ \A i, j \in DOMAIN ids : ids[i] = ids[j] => i = j

\* A snapshot has the versions of the tables at its tick.
SnapshotsInv ==
  /\ snapshots = [t \in DOMAIN snapshots |-> snapshots[t]]
  /\ DOMAIN snapshots \subseteq Ticks
  /\ \A t \in DOMAIN snapshots : \A n \in DOMAIN snapshots[t].tables :
       snapshots[t].tables[n] \in [Ticks -> Batches]

\* The files of a checkpoint hold batches, and are finitely many.
FilesInv ==
  \A t \in DOMAIN disk :
    /\ IsFiniteSet(DOMAIN disk[t])
    /\ \A n \in DOMAIN disk[t] : disk[t][n] \in [whole : BOOLEAN, batches : Batches]

\* The one write under way has files on disk for what it has no longer to do.
WritingInv ==
  /\ \A w, x \in writing : w = x
  /\ \A w \in writing :
       /\ DOMAIN w = {"tick", "todo", "view"} /\ w.tick \in DOMAIN disk
       /\ \A n \in DOMAIN w.view : w.view[n] \in Batches
       /\ w.todo \subseteq NonEmpty(w.view)
       /\ \A n \in NonEmpty(w.view) \ w.todo :
            n \in DOMAIN disk[w.tick] /\ disk[w.tick][n] = Whole(w.view[n])

\* A complete checkpoint is not being written, and is on disk.
CompleteInv ==
  \A t \in DOMAIN complete :
    /\ t \in DOMAIN disk /\ \A w \in writing : w.tick # t
    /\ \A n \in DOMAIN complete[t] :
         n \in DOMAIN disk[t] /\ disk[t][n] = Whole(complete[t][n])

StoreInv ==
  /\ TablesInv /\ CatalogInv /\ SnapshotsInv /\ FilesInv /\ WritingInv
  /\ CompleteInv /\ CheckpointRestores

-----------------------------------------------------------------------------
(* Tables and indices                                                      *)

\* A table made by create_table or load_checkpoint is good.
LEMMA NewIsGood ==
  ASSUME NEW mode, NEW spec
  PROVE  Good(NewTable(mode, spec))
<1>1. MaxTick \in Nat /\ 0 \in Ticks
  BY ArrowTableAssumption DEF Ticks
<1>2. EmptyTable \in TableState
  BY <1>1 DEF EmptyTable, TableState, Batches, Position, NoPosition, IndexEntry, NoEntry
<1>3. Layers(RowId, [r \in RowId |-> NoEntry], [r \in RowId |-> {}])
  BY <1>1 DEF Layers, LayersAgree, IndexEntry, NoEntry
<1> DEFINE tb == NewTable(mode, spec)
<1>4. /\ DOMAIN tb = {"rows", "mode", "spec", "pkHistory", "fks", "parts"}
      /\ tb.rows = EmptyTable /\ tb.pkHistory = [r \in RowId |-> {}] /\ tb.fks = <<>>
  BY DEF NewTable
<1>5. tb.rows.pkLatest = [r \in RowId |-> NoEntry]
  BY <1>4 DEF EmptyTable
<1>6. tb.fks \in Seq(Index) /\ DOMAIN tb.fks = {}
  BY <1>4
<1> HIDE DEF tb
<1> QED
  BY <1>2, <1>3, <1>4, <1>5, <1>6 DEF Good, tb

\* A write to the rows that leaves the primary-key index alone.
LEMMA RowsGood ==
  ASSUME NEW tb, Good(tb), NEW rows \in TableState, rows.pkLatest = tb.rows.pkLatest
  PROVE  Good([tb EXCEPT !.rows = rows])
  BY DEF Good

\* So does a write to the versions only.
LEMMA VersionsGood ==
  ASSUME NEW tb, Good(tb), NEW versions \in [Ticks -> Batches]
  PROVE  Good([tb EXCEPT !.rows.versions = versions])
<1>1. tb.rows \in TableState
  BY DEF Good
<1>2. /\ [tb.rows EXCEPT !.versions = versions] \in TableState
      /\ [tb.rows EXCEPT !.versions = versions].pkLatest = tb.rows.pkLatest
  BY <1>1 DEF TableState
<1> QED
  BY <1>2, RowsGood

\* An entry goes into both layers of an index.
LEMMA InsertAgrees ==
  ASSUME NEW keys, NEW latest, NEW history, Layers(keys, latest, history),
         NEW key \in keys, NEW entry \in IndexEntry, entry # NoEntry
  PROVE  Layers(keys, IndexInsert(latest, key, entry),
                [history EXCEPT ![key] = @ \cup {entry}])
<1> DEFINE l == IndexInsert(latest, key, entry)
           h == [history EXCEPT ![key] = @ \cup {entry}]
<1>1. l \in [keys -> IndexEntry] /\ h \in [keys -> SUBSET IndexEntry]
  BY DEF Layers, IndexInsert
<1>2. ASSUME NEW k \in keys
      PROVE  /\ (l[k] = NoEntry) <=> (h[k] = {})
             /\ l[k] # NoEntry => /\ l[k] \in h[k]
                                  /\ \A e \in h[k] : e.tick <= l[k].tick
  <2>1. /\ (latest[k] = NoEntry) <=> (history[k] = {})
        /\ latest[k] # NoEntry => /\ latest[k] \in history[k]
                                  /\ \A e \in history[k] : e.tick <= latest[k].tick
    BY DEF Layers, LayersAgree
  <2>2. CASE k # key
    BY <2>1, <2>2 DEF Layers, IndexInsert
  <2>3. CASE k = key
    <3>1. h[k] = history[k] \cup {entry}
      BY <2>3 DEF Layers
    <3>2. l[k] = IF latest[k] = NoEntry \/ entry.tick >= latest[k].tick THEN entry ELSE latest[k]
      BY <2>3 DEF Layers, IndexInsert
    <3>3. /\ entry.tick \in Nat /\ latest[k].tick \in Nat
          /\ \A e \in history[k] : e.tick \in Nat
      BY DEF Layers, IndexEntry, Ticks
    <3> HIDE DEF l, h
    <3>4. CASE latest[k] = NoEntry
      BY <2>1, <3>1, <3>2, <3>3, <3>4
    <3>5. CASE latest[k] # NoEntry /\ entry.tick >= latest[k].tick
      BY <2>1, <3>1, <3>2, <3>3, <3>5
    <3>6. CASE latest[k] # NoEntry /\ ~ (entry.tick >= latest[k].tick)
      BY <2>1, <3>1, <3>2, <3>3, <3>6
    <3> QED
      BY <3>4, <3>5, <3>6
  <2> QED
    BY <2>2, <2>3
<1>3. DOMAIN l = keys
  BY <1>1
<1> HIDE DEF l, h
<1> QED
  BY <1>1, <1>2, <1>3 DEF Layers, LayersAgree, l, h

\* What an index is built from: keys with entries.
Item == {e \in [key : Keys, entry : IndexEntry] : e.entry # NoEntry}

\* The entries of one tick.
LEMMA EntriesType ==
  ASSUME NEW versions \in [Ticks -> Batches], NEW tick \in Ticks, NEW column \in {"id", "val"}
  PROVE  EntriesOf(versions, tick, column) \in Seq(Item)
<1> DEFINE batches == versions[tick]
           of(b) == [o \in DOMAIN batches[b] |->
                       [key |-> batches[b][o][column],
                        entry |-> [tick |-> tick, batch |-> b, offset |-> o]]]
           all == [b \in DOMAIN batches |-> of(b)]
<1>1. batches \in Seq(Seq(Row))
  BY DEF Batches
<1>2. ASSUME NEW b \in 1 .. Len(batches) PROVE of(b) \in Seq(Item)
  <2>1. batches[b] \in Seq(Row) /\ b \in Nat /\ b # 0
    BY <1>1
  <2>2. DOMAIN batches[b] = 1 .. Len(batches[b]) /\ Len(batches[b]) \in Nat
    BY <2>1
  <2>3. ASSUME NEW o \in 1 .. Len(batches[b])
        PROVE  [key |-> batches[b][o][column],
                entry |-> [tick |-> tick, batch |-> b, offset |-> o]] \in Item
    <3>1. batches[b][o] \in Row
      BY <2>1, <2>3
    <3>2. batches[b][o][column] \in Keys
      BY <3>1 DEF Row, Keys
    <3>3. [tick |-> tick, batch |-> b, offset |-> o] \in IndexEntry
      BY <2>1 DEF IndexEntry
    <3>4. [tick |-> tick, batch |-> b, offset |-> o] # NoEntry
      BY <2>1 DEF NoEntry
    <3> QED
      BY <3>2, <3>3, <3>4 DEF Item
  <2>4. of(b) \in [1 .. Len(batches[b]) -> Item]
    BY <2>2, <2>3
  <2> QED
    BY <2>2, <2>4
<1>3. DOMAIN batches = 1 .. Len(batches) /\ Len(batches) \in Nat
  BY <1>1
<1>4. all \in [1 .. Len(batches) -> Seq(Item)]
  BY <1>2, <1>3
<1>5. all \in Seq(Seq(Item))
  BY <1>3, <1>4
<1>6. FlattenSeq(all) \in Seq(Item)
  BY <1>5, FlattenType
<1> QED
  BY <1>6 DEF EntriesOf

\* The entries of all ticks, whatever their order.
LEMMA AllEntriesType ==
  ASSUME NEW versions \in [Ticks -> Batches], NEW order \in Seq(Ticks),
         NEW column \in {"id", "val"}
  PROVE  EntriesIn(versions, order, column) \in Seq(Item)
<1> DEFINE all == [i \in DOMAIN order |-> EntriesOf(versions, order[i], column)]
<1>1. DOMAIN order = 1 .. Len(order) /\ Len(order) \in Nat
  OBVIOUS
<1>2. all \in [1 .. Len(order) -> Seq(Item)]
  BY <1>1, EntriesType
<1>3. all \in Seq(Seq(Item))
  BY <1>1, <1>2
<1>4. FlattenSeq(all) \in Seq(Item)
  BY <1>3, FlattenType
<1> QED
  BY <1>4 DEF EntriesIn

\* The layers of a built index agree, whatever the order of the ticks.
LEMMA BuiltAgrees ==
  ASSUME NEW versions \in [Ticks -> Batches], NEW order \in Seq(Ticks),
         NEW column \in {"id", "val"}
  PROVE  LET index == BuiltIndex(versions, order, column)
         IN  index \in Index /\ Layers(Keys, index.latest, index.history)
<1> DEFINE items == EntriesIn(versions, order, column)
           n == Len(items)
           OK(index) == index \in Index /\ Layers(Keys, index.latest, index.history)
<1>1. items \in Seq(Item)
  BY AllEntriesType
<1>2. n \in Nat /\ \A i \in 1 .. n : items[i] \in Item
  BY <1>1
<1>3. PICK f : /\ StepFold(f, "index", 0, items, EmptyIndex, n)
               /\ BuiltIndex(versions, order, column) = f[1 .. n]
  BY <1>1, BuiltIsFold
<1> HIDE DEF items, n
<1>4. \A s \in SUBSET (1 .. n) :
        f[s] = IF s = {} THEN EmptyIndex
               ELSE Indexed(f[s \ {Max(s)}], items[Max(s)].key, items[Max(s)].entry)
  BY <1>3 DEF StepFold, FoldStep
<1>5. OK(EmptyIndex)
  <2>1. MaxTick \in Nat /\ 0 \in Ticks
    BY ArrowTableAssumption DEF Ticks
  <2>2. NoEntry \in IndexEntry
    BY <2>1 DEF IndexEntry, NoEntry
  <2> QED
    BY <2>2 DEF EmptyIndex, Index, Layers, LayersAgree
<1>6. ASSUME NEW index, OK(index), NEW e \in Item
      PROVE  OK(Indexed(index, e.key, e.entry))
  <2>1. e.key \in Keys /\ e.entry \in IndexEntry /\ e.entry # NoEntry
    BY DEF Item
  <2> DEFINE l == IndexInsert(index.latest, e.key, e.entry)
             h == [index.history EXCEPT ![e.key] = @ \cup {e.entry}]
  <2>2. Layers(Keys, l, h)
    BY <1>6, <2>1, InsertAgrees
  <2>3. Indexed(index, e.key, e.entry) = [latest |-> l, history |-> h]
    BY DEF Indexed
  <2>4. [latest |-> l, history |-> h] \in Index
    BY <2>2 DEF Layers, Index
  <2> HIDE DEF l, h
  <2> QED
    BY <2>2, <2>3, <2>4
<1> HIDE DEF OK
<1> DEFINE B == {s \in SUBSET (1 .. n) : ~ OK(f[s])}
<1>7. B = {}
  <2>1. SUFFICES ASSUME B # {} PROVE FALSE
    OBVIOUS
  <2>2. PICK s \in B : \/ s = {}
                       \/ /\ s # {} /\ Max(s) \in 1 .. n
                          /\ s \ {Max(s)} \in (SUBSET (1 .. n)) \ B
    <3>1. B \in SUBSET SUBSET (1 .. n)
      OBVIOUS
    <3> HIDE DEF B
    <3> QED
      BY <1>2, <2>1, <3>1, LeastSubset
  <2>3. CASE s = {}
    BY <1>4, <1>5, <2>3
  <2>4. CASE s # {}
    <3>1. OK(f[s \ {Max(s)}])
      BY <2>2, <2>4
    <3>2. items[Max(s)] \in Item
      BY <1>2, <2>2, <2>4
    <3>3. f[s] = Indexed(f[s \ {Max(s)}], items[Max(s)].key, items[Max(s)].entry)
      BY <1>4, <2>4
    <3>4. OK(Indexed(f[s \ {Max(s)}], items[Max(s)].key, items[Max(s)].entry))
      BY <1>6, <3>1, <3>2
    <3> QED
      BY <3>3, <3>4
  <2> QED
    BY <2>3, <2>4
<1>8. OK(f[1 .. n])
  BY <1>7
<1> QED
  BY <1>3, <1>8 DEF OK

-----------------------------------------------------------------------------
(* Applying diffs                                                          *)

\* A diff on a table without a primary-key column leaves a table, and its
\* index as it was.
LEMMA KeylessOutcome ==
  ASSUME NEW rows \in TableState, NEW tick \in Ticks, NEW d \in DiffsOn(Name)
  PROVE  /\ ApplyKeyless(rows, tick, d) \in Outcome
         /\ ApplyKeyless(rows, tick, d).table.pkLatest = rows.pkLatest
<1>1. CASE d.kind # "ReplaceTable"
  <2>1. ApplyDiff(rows, tick, d) \in Outcome
    BY ApplyDiffOutcome
  <2>2. rows.pkLatest \in [RowId -> IndexEntry]
    BY DEF TableState
  <2>3. ApplyKeyless(rows, tick, d)
          = [ApplyDiff(rows, tick, d) EXCEPT !.table.pkLatest = rows.pkLatest]
    BY <1>1 DEF ApplyKeyless
  <2> HIDE DEF ApplyDiff
  <2> QED
    BY <2>1, <2>2, <2>3 DEF Outcome, TableState
<1>2. CASE d.kind = "ReplaceTable"
  <2> DEFINE new == d.rows
             fault == {i \in DOMAIN new : Bad \in {new[i].id, new[i].val}}
             positions == [r \in RowId |->
                             IF r + 1 \in DOMAIN new /\ \A i \in fault : r + 1 <= i
                               THEN [batch |-> r + 1, offset |-> 1] ELSE NoPosition]
             filled == [rows EXCEPT !.positions = positions]
             batches == [i \in DOMAIN new |-> <<new[i]>>]
             full == [filled EXCEPT !.versions[tick] = batches]
  <2>1. new \in Seq(JsonRow)
    BY <1>2 DEF DiffsOn
  <2>2. positions \in [RowId -> Position]
    BY StoreAssumption DEF Position, NoPosition
  <2>3. filled \in TableState /\ filled.pkLatest = rows.pkLatest
    BY <2>2 DEF TableState
  <2>4. CASE new = <<>>
    BY <1>2, <2>4 DEF ApplyKeyless, Failed, Outcome
  <2>5. CASE new # <<>> /\ fault # {}
    <3>1. ApplyKeyless(rows, tick, d) = Failed(filled)
      BY <1>2, <2>5 DEF ApplyKeyless
    <3> HIDE DEF filled
    <3> QED
      BY <2>3, <3>1 DEF Failed, Outcome
  <2>6. CASE new # <<>> /\ fault = {}
    <3>1. ApplyKeyless(rows, tick, d) = Done(full)
      BY <1>2, <2>6 DEF ApplyKeyless
    <3>2. DOMAIN new = 1 .. Len(new) /\ Len(new) \in Nat
      BY <2>1
    <3>3. ASSUME NEW i \in 1 .. Len(new) PROVE <<new[i]>> \in Seq(Row)
      <4>1. new[i] \in JsonRow
        BY <2>1
      <4>2. new[i].id # Bad /\ new[i].val # Bad
        BY <2>6, <3>2
      <4>3. new[i] \in Row
        BY <4>1, <4>2 DEF JsonRow, Row
      <4> QED
        BY <4>3
    <3>4. batches \in [1 .. Len(new) -> Seq(Row)]
      BY <3>2, <3>3
    <3>5. batches \in Batches
      BY <3>2, <3>4 DEF Batches
    <3> HIDE DEF filled, batches
    <3>6. full \in TableState /\ full.pkLatest = rows.pkLatest
      BY <2>3, <3>5 DEF TableState
    <3> HIDE DEF full
    <3> QED
      BY <3>1, <3>6 DEF Done, Outcome
  <2> QED
    BY <2>4, <2>5, <2>6
<1> QED
  BY <1>1, <1>2

\* A diff that does not insert leaves the primary-key index alone.
LEMMA OnlyInsertsIndex ==
  ASSUME NEW rows \in TableState, NEW tick \in Ticks, NEW d \in DiffsOn(Name),
         d.kind # "Insert" \/ ~ ApplyDiff(rows, tick, d).ok
  PROVE  ApplyDiff(rows, tick, d).table.pkLatest = rows.pkLatest
<1>1. d.kind \in {"Update", "Insert", "Delete", "ReplaceTable"}
  BY DEF DiffsOn
<1>2. CASE d.kind = "Update"
  BY <1>2 DEF ApplyDiff, ApplyUpdate, Done, Failed, TableState
<1>3. CASE d.kind = "Insert"
  BY <1>3 DEF ApplyDiff, ApplyInsert, Done, Failed, TableState
<1>4. CASE d.kind = "Delete"
  BY <1>4 DEF ApplyDiff, ApplyDelete, Done, Failed, TableState
<1>5. CASE d.kind = "ReplaceTable"
  BY <1>5 DEF ApplyDiff, ApplyReplace, Done, Failed, TableState
<1> QED
  BY <1>1, <1>2, <1>3, <1>4, <1>5

\* An insert that is accepted puts the entry of the batch it adds into the
\* hot layer, unless that has a newer one.
LEMMA InsertIndexes ==
  ASSUME NEW rows \in TableState, NEW tick \in Ticks, NEW d \in DiffsOn(Name),
         d.kind = "Insert", ApplyDiff(rows, tick, d).ok
  PROVE  LET table == ApplyDiff(rows, tick, d).table
             entry == [tick |-> tick, batch |-> Len(table.versions[tick]), offset |-> 1]
         IN  /\ d.row \in RowId /\ entry \in IndexEntry /\ entry # NoEntry
             /\ table.pkLatest = IndexInsert(rows.pkLatest, d.row, entry)
<1> DEFINE new == <<[id |-> d.row, val |-> d.val]>>
           n == Len(rows.versions[tick]) + 1
           table == ApplyDiff(rows, tick, d).table
<1>1. d.row \in RowId /\ d.val \in Cell \cup {Bad}
  BY DEF DiffsOn
<1>2. ~(rows.positions[d.row] # NoPosition \/ d.val = Bad)
  BY DEF ApplyDiff, ApplyInsert, Failed
<1>3. table = [versions  |-> [rows.versions EXCEPT ![tick] = Append(@, new)],
               positions |-> [rows.positions EXCEPT ![d.row] = [batch |-> n, offset |-> 1]],
               pkLatest  |-> IndexInsert(rows.pkLatest, d.row,
                               [tick |-> tick, batch |-> n, offset |-> 1])]
  BY <1>2 DEF ApplyDiff, ApplyInsert, Done
<1>4. rows.versions \in [Ticks -> Batches] /\ rows.versions[tick] \in Seq(Seq(Row))
  BY DEF TableState, Batches
<1>5. [id |-> d.row, val |-> d.val] \in Row
  BY <1>1, <1>2 DEF Row
<1>6. new \in Seq(Row)
  BY <1>5
<1> HIDE DEF new
<1>7. table.versions[tick] = Append(rows.versions[tick], new)
  BY <1>3, <1>4
<1>8. Len(table.versions[tick]) = n /\ n \in Nat /\ n # 0
  BY <1>4, <1>6, <1>7
<1>9. [tick |-> tick, batch |-> n, offset |-> 1] \in IndexEntry
  BY <1>8 DEF IndexEntry
<1>10. [tick |-> tick, batch |-> n, offset |-> 1] # NoEntry
  BY <1>8 DEF NoEntry
<1>11. table.pkLatest = IndexInsert(rows.pkLatest, d.row,
                          [tick |-> tick, batch |-> n, offset |-> 1])
  BY <1>3
<1> HIDE DEF n, table
<1> QED
  BY <1>1, <1>8, <1>9, <1>10, <1>11 DEF table

\* One diff on a good table leaves a good table.
LEMMA OutcomeGood ==
  ASSUME NEW tb, Good(tb), NEW tick \in Ticks, NEW d \in DiffsOn(Name)
  PROVE  Good(WithOutcome(tb, tick, d, ApplyTo(tb, tick, d)))
<1> DEFINE outcome == ApplyTo(tb, tick, d)
           next == WithOutcome(tb, tick, d, outcome)
<1>1. tb.rows \in TableState
  BY DEF Good
<1>2. CASE outcome \in Outcome /\ outcome.table.pkLatest = tb.rows.pkLatest
           /\ Logged(tb, tick, d, outcome) = tb.pkHistory
  <2> HIDE DEF outcome
  <2>1. outcome.table \in TableState
    BY <1>2 DEF Outcome
  <2> QED
    BY <1>2, <2>1 DEF WithOutcome, Good, outcome
<1>3. CASE d.kind \in {"Insert", "ReplaceTable"} /\ ~SchemaResolves(tb.spec)
  <2>1. outcome = Failed(tb.rows)
    BY <1>3 DEF ApplyTo
  <2>2. outcome \in Outcome /\ outcome.table = tb.rows /\ ~outcome.ok
    BY <1>1, <2>1 DEF Failed, Outcome
  <2> HIDE DEF outcome
  <2>3. Logged(tb, tick, d, outcome) = tb.pkHistory
    BY <2>2 DEF Logged
  <2> QED
    BY <1>2, <2>2, <2>3
<1>4. CASE ~(d.kind \in {"Insert", "ReplaceTable"} /\ ~SchemaResolves(tb.spec))
           /\ tb.spec # "declared"
  <2>1. outcome = ApplyKeyless(tb.rows, tick, d)
    BY <1>4 DEF ApplyTo
  <2>2. outcome \in Outcome /\ outcome.table.pkLatest = tb.rows.pkLatest
    BY <1>1, <2>1, KeylessOutcome
  <2> HIDE DEF outcome
  <2>3. Logged(tb, tick, d, outcome) = tb.pkHistory
    BY <1>4 DEF Logged
  <2> QED
    BY <1>2, <2>2, <2>3
<1>5. CASE ~(d.kind \in {"Insert", "ReplaceTable"} /\ ~SchemaResolves(tb.spec))
           /\ tb.spec = "declared"
  <2>1. outcome = ApplyDiff(tb.rows, tick, d)
    BY <1>5 DEF ApplyTo
  <2>2. outcome \in Outcome
    BY <1>1, <2>1, ApplyDiffOutcome
  <2>3. CASE d.kind # "Insert" \/ ~outcome.ok
    <3>1. outcome.table.pkLatest = tb.rows.pkLatest
      BY <1>1, <2>1, <2>3, OnlyInsertsIndex
    <3> HIDE DEF outcome
    <3>2. Logged(tb, tick, d, outcome) = tb.pkHistory
      BY <2>3 DEF Logged
    <3> QED
      BY <1>2, <2>2, <3>1, <3>2
  <2>4. CASE d.kind = "Insert" /\ outcome.ok
    <3> DEFINE entry == [tick |-> tick, batch |-> Len(outcome.table.versions[tick]),
                         offset |-> 1]
    <3>1. /\ d.row \in RowId /\ entry \in IndexEntry /\ entry # NoEntry
          /\ outcome.table.pkLatest = IndexInsert(tb.rows.pkLatest, d.row, entry)
      BY <1>1, <2>1, <2>4, InsertIndexes
    <3>2. Logged(tb, tick, d, outcome) = [tb.pkHistory EXCEPT ![d.row] = @ \cup {entry}]
      BY <1>5, <2>4 DEF Logged
    <3> HIDE DEF outcome, entry
    <3>3. Layers(RowId, outcome.table.pkLatest, Logged(tb, tick, d, outcome))
      BY <3>1, <3>2, InsertAgrees DEF Good
    <3>4. outcome.table \in TableState
      BY <2>2 DEF Outcome
    <3> HIDE DEF Logged
    <3> QED
      BY <3>3, <3>4 DEF WithOutcome, Good, outcome
  <2> QED
    BY <2>3, <2>4
<1> QED
  BY <1>3, <1>4, <1>5

\* Diffs, accepted or not, leave good tables, and the same ones.
LEMMA AppliedGood ==
  ASSUME TablesInv, NEW tick \in Ticks, NEW diffs \in DiffLists
  PROVE  LET done == Applied(tick, diffs)
         IN  /\ DOMAIN done.tables = DOMAIN tables
             /\ \A n \in DOMAIN tables : Good(done.tables[n])
<1> DEFINE base == [ok |-> TRUE, tables |-> tables]
           n == Len(diffs)
           OK(done) == /\ DOMAIN done = {"ok", "tables"}
                       /\ DOMAIN done.tables = DOMAIN tables
                       /\ \A name \in DOMAIN tables : Good(done.tables[name])
<1>1. diffs \in Seq(DiffsOn(Name))
  BY StoreAssumption
<1>2. n \in Nat /\ \A i \in 1 .. n : diffs[i] \in DiffsOn(Name)
  BY <1>1
<1>3. PICK f : /\ StepFold(f, "diffs", tick, diffs, base, n)
               /\ Applied(tick, diffs) = f[1 .. n]
  BY <1>1, AppliedIsFold
<1> HIDE DEF n
<1>4. \A s \in SUBSET (1 .. n) :
        f[s] = IF s = {} THEN base ELSE ApplyNext(f[s \ {Max(s)}], tick, diffs[Max(s)])
  BY <1>3 DEF StepFold, FoldStep
<1>5. OK(base)
  BY DEF TablesInv
<1>6. ASSUME NEW done, OK(done), NEW d \in DiffsOn(Name)
      PROVE  OK(ApplyNext(done, tick, d))
  <2>1. CASE ~done.ok
    BY <1>6, <2>1 DEF ApplyNext
  <2>2. CASE done.ok /\ d.table \notin DOMAIN done.tables
    <3>1. ApplyNext(done, tick, d) = [done EXCEPT !.ok = FALSE]
      BY <2>2 DEF ApplyNext
    <3> QED
      BY <1>6, <3>1
  <2>3. CASE done.ok /\ d.table \in DOMAIN done.tables
    <3> DEFINE tb == done.tables[d.table]
               outcome == ApplyTo(tb, tick, d)
               new == WithOutcome(tb, tick, d, outcome)
    <3>1. ApplyNext(done, tick, d)
            = [ok |-> outcome.ok, tables |-> [done.tables EXCEPT ![d.table] = new]]
      BY <2>3 DEF ApplyNext
    <3>2. Good(tb)
      BY <1>6, <2>3
    <3>3. Good(new)
      BY <3>2, OutcomeGood
    <3> HIDE DEF new, outcome
    <3> QED
      BY <1>6, <3>1, <3>3
  <2> QED
    BY <2>1, <2>2, <2>3
<1> HIDE DEF OK, base
<1> DEFINE B == {s \in SUBSET (1 .. n) : ~ OK(f[s])}
<1>7. B = {}
  <2>1. SUFFICES ASSUME B # {} PROVE FALSE
    OBVIOUS
  <2>2. PICK s \in B : \/ s = {}
                       \/ /\ s # {} /\ Max(s) \in 1 .. n
                          /\ s \ {Max(s)} \in (SUBSET (1 .. n)) \ B
    <3>1. B \in SUBSET SUBSET (1 .. n)
      OBVIOUS
    <3> HIDE DEF B
    <3> QED
      BY <1>2, <2>1, <3>1, LeastSubset
  <2>3. CASE s = {}
    BY <1>4, <1>5, <2>3
  <2>4. CASE s # {}
    <3>1. OK(f[s \ {Max(s)}])
      BY <2>2, <2>4
    <3>2. diffs[Max(s)] \in DiffsOn(Name)
      BY <1>2, <2>2, <2>4
    <3>3. f[s] = ApplyNext(f[s \ {Max(s)}], tick, diffs[Max(s)])
      BY <1>4, <2>4
    <3>4. OK(ApplyNext(f[s \ {Max(s)}], tick, diffs[Max(s)]))
      BY <1>6, <3>1, <3>2
    <3> QED
      BY <3>3, <3>4
  <2> QED
    BY <2>3, <2>4
<1>8. OK(f[1 .. n])
  BY <1>7
<1> QED
  BY <1>3, <1>8 DEF OK

-----------------------------------------------------------------------------
(* The steps keep the invariant                                            *)

\* What is said of the files only.
DiskInv == FilesInv /\ WritingInv /\ CompleteInv /\ CheckpointRestores

\* A step that touches no file keeps it.
LEMMA DiskKept ==
  ASSUME DiskInv, UNCHANGED files
  PROVE  DiskInv'
  BY DEF DiskInv, FilesInv, WritingInv, CompleteInv, CheckpointRestores, files

\* A method that writes to one table.
LEMMA OnTableKeeps ==
  ASSUME StoreInv, NEW n \in DOMAIN tables, NEW tb, Good(tb), OnTable(n, tb)
  PROVE  StoreInv'
<1>1. DiskInv'
  BY DiskKept DEF StoreInv, DiskInv, OnTable
<1>2. DOMAIN tables' = DOMAIN tables
  BY DEF OnTable
<1>3. TablesInv'
  BY DEF StoreInv, TablesInv, OnTable
<1>4. CatalogInv'
  BY <1>2 DEF StoreInv, CatalogInv, OnTable
<1>5. SnapshotsInv'
  BY DEF StoreInv, SnapshotsInv, OnTable
<1> QED
  BY <1>1, <1>3, <1>4, <1>5 DEF StoreInv, DiskInv

\* create_table.
LEMMA CreateKeeps ==
  ASSUME StoreInv, NEW n, NEW mode, CreateTable(n, mode)
  PROVE  StoreInv'
<1>1. DiskInv'
  BY DiskKept DEF StoreInv, DiskInv, CreateTable
<1>2. tables' = Extend(tables, n, NewTable(mode, "declared"))
  BY DEF CreateTable
<1>3. TablesInv'
  BY <1>2, NewIsGood DEF StoreInv, TablesInv, Extend
<1>4. DOMAIN tables' = DOMAIN tables \cup {n} /\ n \notin DOMAIN tables
  BY DEF CreateTable, Extend
<1>5. /\ DOMAIN ids' = DOMAIN ids \cup {nextId} /\ nextId' = nextId + 1
      /\ \A i \in DOMAIN ids' : ids'[i] = IF i = nextId THEN n ELSE ids[i]
  BY DEF CreateTable, Extend
<1>6. nextId \in Nat /\ nextId \notin DOMAIN ids
  BY DEF StoreInv, CatalogInv
<1>7. CatalogInv'
  BY <1>4, <1>5, <1>6 DEF StoreInv, CatalogInv
<1>8. SnapshotsInv'
  BY DEF StoreInv, SnapshotsInv, CreateTable
<1> QED
  BY <1>1, <1>3, <1>7, <1>8 DEF StoreInv, DiskInv

\* drop_table.
LEMMA DropKeeps ==
  ASSUME StoreInv, NEW n, DropTable(n)
  PROVE  StoreInv'
<1>1. DiskInv'
  BY DiskKept DEF StoreInv, DiskInv, DropTable
<1>2. /\ DOMAIN tables' = DOMAIN tables \ {n}
      /\ \A m \in DOMAIN tables' : tables'[m] = tables[m]
  BY DEF DropTable, Omit
<1>3. /\ DOMAIN ids' = {i \in DOMAIN ids : ids[i] # n} /\ nextId' = nextId
      /\ \A i \in DOMAIN ids' : ids'[i] = ids[i]
  BY DEF DropTable, Omit
<1>4. TablesInv'
  BY <1>2 DEF StoreInv, TablesInv
<1>5. CatalogInv'
  BY <1>2, <1>3 DEF StoreInv, CatalogInv
<1>6. SnapshotsInv'
  BY DEF StoreInv, SnapshotsInv, DropTable
<1> QED
  BY <1>1, <1>4, <1>5, <1>6 DEF StoreInv, DiskInv

\* Batches appended, and a table rebuilt.
LEMMA BatchesKeep ==
  ASSUME StoreInv, NEW n, NEW tick \in Ticks, NEW batches \in BatchInput,
         AppendBatches(n, tick, batches) \/ RebuildTable(n, tick, batches)
  PROVE  StoreInv'
<1> DEFINE tb == tables[n]
<1>1. n \in DOMAIN tables /\ batches \in Batches
  BY StoreAssumption DEF AppendBatches, RebuildTable
<1>2. Good(tb) /\ tb.rows \in TableState /\ tb.rows.versions \in [Ticks -> Batches]
  BY <1>1 DEF StoreInv, TablesInv, Good, TableState
<1>3. CASE AppendBatches(n, tick, batches)
  <2> DEFINE versions == [tb.rows.versions EXCEPT ![tick] = @ \o batches]
  <2>1. tb.rows.versions[tick] \o batches \in Batches
    BY <1>1, <1>2 DEF Batches
  <2>2. versions \in [Ticks -> Batches]
    BY <1>2, <2>1
  <2>3. Good([tb EXCEPT !.rows.versions = versions])
    BY <1>2, <2>2, VersionsGood
  <2>4. OnTable(n, [tb EXCEPT !.rows.versions = versions])
    BY <1>3 DEF AppendBatches
  <2> QED
    BY <1>1, <2>3, <2>4, OnTableKeeps
<1>4. CASE RebuildTable(n, tick, batches)
  <2> DEFINE rows == [tb.rows EXCEPT !.versions[tick] = batches,
                                     !.positions = RebuiltPositions(batches)]
  <2>1. ASSUME NEW b \in DOMAIN batches
        PROVE  RowsBefore(batches, b) \in Nat
    <3>1. b \in 1 .. Len(batches) /\ batches \in Seq(Seq(Row)) /\ Len(batches) \in Nat
      BY <1>1 DEF Batches
    <3>2. SubSeq(batches, 1, b - 1) \in Seq(Seq(Row))
      BY <3>1, SubSeqProperties
    <3>3. FlattenSeq(SubSeq(batches, 1, b - 1)) \in Seq(Row)
      BY <3>2, FlattenType
    <3> QED
      BY <3>3 DEF RowsBefore
  <2>2. RebuiltPositions(batches) \in [RowId -> Position]
    <3>1. ASSUME NEW r \in RowId PROVE RebuiltPositions(batches)[r] \in Position
      <4> DEFINE here == {b \in DOMAIN batches : /\ RowsBefore(batches, b) <= r
                                                 /\ r < RowsBefore(batches, b) + Len(batches[b])}
                 b == CHOOSE b \in here : TRUE
      <4>1. CASE here = {}
        BY <4>1 DEF RebuiltPositions, Position, NoPosition
      <4>2. CASE here # {}
        <5>1. b \in here
          BY <4>2
        <5>2. b \in DOMAIN batches /\ RowsBefore(batches, b) <= r
          BY <5>1
        <5>3. b \in Nat /\ r \in Nat /\ RowsBefore(batches, b) \in Nat
          BY <1>1, <2>1, <5>2, StoreAssumption DEF Batches
        <5>4. RebuiltPositions(batches)[r]
                = [batch |-> b, offset |-> r - RowsBefore(batches, b) + 1]
          BY <4>2 DEF RebuiltPositions
        <5> HIDE DEF b
        <5> QED
          BY <5>2, <5>3, <5>4 DEF Position
      <4> QED
        BY <4>1, <4>2
    <3>2. RebuiltPositions(batches) = [r \in RowId |-> RebuiltPositions(batches)[r]]
      BY DEF RebuiltPositions
    <3> QED
      BY <3>1, <3>2
  <2>3. rows \in TableState /\ rows.pkLatest = tb.rows.pkLatest
    BY <1>1, <1>2, <2>2 DEF TableState
  <2>4. Good([tb EXCEPT !.rows = rows])
    BY <1>2, <2>3, RowsGood
  <2>5. OnTable(n, [tb EXCEPT !.rows = rows])
    <3>1. OnTable(n, [tb EXCEPT !.rows.versions[tick] = batches,
                                !.rows.positions = RebuiltPositions(batches)])
      BY <1>4 DEF RebuildTable
    <3>2. [tb EXCEPT !.rows.versions[tick] = batches,
                     !.rows.positions = RebuiltPositions(batches)]
            = [tb EXCEPT !.rows = rows]
      BY <1>2 DEF Good
    <3> QED
      BY <3>1, <3>2
  <2> QED
    BY <1>1, <2>4, <2>5, OnTableKeeps
<1> QED
  BY <1>3, <1>4

\* The orders in which the ticks can be visited are sequences of ticks.
LEMMA OrdersType ==
  ASSUME NEW order \in SetToSeqs(Ticks)
  PROVE  order \in Seq(Ticks)
<1>1. IsFiniteSet(Ticks)
  BY ArrowTableAssumption, FS_Interval DEF Ticks
<1>2. Cardinality(Ticks) \in Nat
  BY <1>1, FS_CardinalityType
<1>3. order \in [1 .. Cardinality(Ticks) -> Ticks]
  BY DEF SetToSeqs
<1> QED
  BY <1>2, <1>3

\* build_primary_key_index.
LEMMA BuildPrimaryKeeps ==
  ASSUME StoreInv, NEW n, BuildPrimaryKeyIndex(n)
  PROVE  StoreInv'
<1> DEFINE tb == tables[n]
<1>1. n \in DOMAIN tables
  BY DEF BuildPrimaryKeyIndex
<1>2. Good(tb) /\ tb.rows \in TableState /\ tb.rows.versions \in [Ticks -> Batches]
  BY <1>1 DEF StoreInv, TablesInv, Good, TableState
<1>3. PICK order \in SetToSeqs(Ticks) :
        OnTable(n, [tb EXCEPT
          !.rows.pkLatest = [r \in RowId |->
                               BuiltIndex(tb.rows.versions, order, "id").latest[r]],
          !.pkHistory = [r \in RowId |->
                           BuiltIndex(tb.rows.versions, order, "id").history[r]]])
  BY DEF BuildPrimaryKeyIndex
<1> DEFINE index == BuiltIndex(tb.rows.versions, order, "id")
           latest == [r \in RowId |-> index.latest[r]]
           history == [r \in RowId |-> index.history[r]]
           next == [tb EXCEPT !.rows.pkLatest = latest, !.pkHistory = history]
<1>4. index \in Index /\ Layers(Keys, index.latest, index.history)
  BY <1>2, OrdersType, BuiltAgrees
<1> HIDE DEF index
<1>5. RowId \subseteq Keys
  BY DEF Keys
<1>6. Layers(RowId, latest, history)
  BY <1>4, <1>5 DEF Layers, LayersAgree
<1>7. latest \in [RowId -> IndexEntry]
  BY <1>6 DEF Layers
<1> HIDE DEF latest, history
<1>8. Good(next)
  BY <1>2, <1>6, <1>7 DEF Good, TableState
<1>9. OnTable(n, next)
  BY <1>3 DEF index, latest, history
<1> HIDE DEF next
<1> QED
  BY <1>1, <1>8, <1>9, OnTableKeeps

\* build_foreign_key_index.
LEMMA BuildForeignKeeps ==
  ASSUME StoreInv, NEW n, BuildForeignKeyIndex(n)
  PROVE  StoreInv'
<1> DEFINE tb == tables[n]
<1>1. n \in DOMAIN tables
  BY DEF BuildForeignKeyIndex
<1>2. Good(tb) /\ tb.rows.versions \in [Ticks -> Batches] /\ tb.fks \in Seq(Index)
  BY <1>1 DEF StoreInv, TablesInv, Good, TableState
<1>3. PICK order \in SetToSeqs(Ticks) :
        OnTable(n, [tb EXCEPT !.fks =
          Append(tb.fks, BuiltIndex(tb.rows.versions, order, "val"))])
  BY <1>2 DEF BuildForeignKeyIndex, Good
<1> DEFINE index == BuiltIndex(tb.rows.versions, order, "val")
           fks == Append(tb.fks, index)
           next == [tb EXCEPT !.fks = fks]
<1>4. index \in Index /\ Layers(Keys, index.latest, index.history)
  BY <1>2, OrdersType, BuiltAgrees
<1> HIDE DEF index
<1>5. fks \in Seq(Index)
  BY <1>2, <1>4
<1>6. ASSUME NEW i \in DOMAIN fks
      PROVE  LayersAgree(fks[i].latest, fks[i].history)
  <2>1. Len(fks) = Len(tb.fks) + 1 /\ Len(tb.fks) \in Nat /\ DOMAIN fks = 1 .. Len(fks)
    BY <1>2, <1>4, <1>5
  <2>2. CASE i = Len(tb.fks) + 1
    BY <1>2, <1>4, <2>2 DEF Layers
  <2>3. CASE i # Len(tb.fks) + 1
    <3>1. i \in DOMAIN tb.fks /\ fks[i] = tb.fks[i]
      BY <1>2, <1>4, <2>1, <2>3
    <3> QED
      BY <1>2, <3>1 DEF Good
  <2> QED
    BY <2>2, <2>3
<1> HIDE DEF fks
<1>7. Good(next)
  BY <1>2, <1>5, <1>6 DEF Good
<1>8. OnTable(n, next)
  BY <1>3 DEF index, fks
<1> HIDE DEF next
<1> QED
  BY <1>1, <1>7, <1>8, OnTableKeeps

\* The mode and the partitions of a table.
LEMMA SettingsKeep ==
  ASSUME StoreInv, NEW n, NEW mode, NEW region, NEW batch,
         \/ SetMutationMode(n, mode) \/ AddToPartition(n, region, batch)
         \/ RemovePartition(n, region)
  PROVE  StoreInv'
<1> DEFINE tb == tables[n]
<1>1. n \in DOMAIN tables
  BY DEF SetMutationMode, AddToPartition, RemovePartition
<1>2. Good(tb)
  BY <1>1 DEF StoreInv, TablesInv
<1>3. ASSUME NEW x PROVE Good([tb EXCEPT !.mode = x]) /\ Good([tb EXCEPT !.parts = x])
  BY <1>2 DEF Good
<1>4. \/ \E x : OnTable(n, [tb EXCEPT !.mode = x])
      \/ \E x : OnTable(n, [tb EXCEPT !.parts = x])
  BY DEF SetMutationMode, AddToPartition, RemovePartition
<1> HIDE DEF tb
<1> QED
  BY <1>1, <1>3, <1>4, OnTableKeeps

\* apply_diffs, accepted or rolled back.
LEMMA ApplyDiffsKeeps ==
  ASSUME StoreInv, NEW tick \in Ticks, NEW diffs \in DiffLists, ApplyDiffs(tick, diffs)
  PROVE  StoreInv'
<1> DEFINE done == Applied(tick, diffs)
           touched == {diffs[i].table : i \in DOMAIN diffs}
<1>1. /\ DOMAIN done.tables = DOMAIN tables
      /\ \A n \in DOMAIN tables : Good(done.tables[n])
  BY AppliedGood DEF StoreInv
<1>2. tables' = IF done.ok THEN done.tables
                ELSE [n \in DOMAIN tables |->
                        IF n \in touched
                          THEN [done.tables[n] EXCEPT !.rows.versions = tables[n].rows.versions]
                          ELSE done.tables[n]]
  BY DEF ApplyDiffs
<1> HIDE DEF done, touched
<1>3. \A n \in DOMAIN tables :
        Good([done.tables[n] EXCEPT !.rows.versions = tables[n].rows.versions])
  <2>1. \A n \in DOMAIN tables : tables[n].rows.versions \in [Ticks -> Batches]
    BY DEF StoreInv, TablesInv, Good, TableState
  <2> QED
    BY <1>1, <2>1, VersionsGood
<1>4. DOMAIN tables' = DOMAIN tables
  BY <1>1, <1>2
<1>5. TablesInv'
  BY <1>1, <1>2, <1>3 DEF TablesInv
<1>6. CatalogInv'
  BY <1>4 DEF StoreInv, CatalogInv, ApplyDiffs
<1>7. SnapshotsInv'
  BY DEF StoreInv, SnapshotsInv, ApplyDiffs
<1>8. DiskInv'
  BY DiskKept DEF StoreInv, DiskInv, ApplyDiffs
<1> QED
  BY <1>5, <1>6, <1>7, <1>8 DEF StoreInv, DiskInv

\* patch_rows.
LEMMA PatchKeeps ==
  ASSUME StoreInv, NEW n, NEW tick \in Ticks, NEW location, NEW cell \in Cell,
         PatchRows(n, tick, location, cell)
  PROVE  StoreInv'
<1> DEFINE tb == tables[n]
           batches == tb.rows.versions[tick]
           b == location.batch
           o == location.offset
           row == [batches[b][o] EXCEPT !.val = cell]
           versions == [tb.rows.versions EXCEPT ![tick] = [batches EXCEPT ![b] =
                          [batches[b] EXCEPT ![o] = row]]]
<1>1. n \in DOMAIN tables /\ b \in DOMAIN batches /\ o \in DOMAIN batches[b]
  BY DEF PatchRows
<1>2. Good(tb) /\ tb.rows.versions \in [Ticks -> Batches] /\ batches \in Seq(Seq(Row))
  BY <1>1 DEF StoreInv, TablesInv, Good, TableState, Batches
<1>3. batches[b] \in Seq(Row)
  BY <1>1, <1>2
<1>4. row \in Row
  <2>1. batches[b][o] \in Row
    BY <1>1, <1>3
  <2> QED
    BY <2>1 DEF Row
<1>5. OnTable(n, [tb EXCEPT !.rows.versions = versions])
  BY <1>1 DEF PatchRows
<1> HIDE DEF row
<1>6. [batches[b] EXCEPT ![o] = row] \in Seq(Row)
  BY <1>3, <1>4, SeqOverwrite
<1>7. [batches EXCEPT ![b] = [batches[b] EXCEPT ![o] = row]] \in Seq(Seq(Row))
  BY <1>2, <1>6, SeqOverwrite
<1>8. versions \in [Ticks -> Batches]
  BY <1>2, <1>7 DEF Batches
<1> HIDE DEF versions
<1>9. Good([tb EXCEPT !.rows.versions = versions])
  BY <1>2, <1>8, VersionsGood
<1> QED
  BY <1>1, <1>5, <1>9, OnTableKeeps

\* A snapshot of good tables is typed.
LEMMA SnapshotType ==
  ASSUME NEW tbls, \A n \in DOMAIN tbls : Good(tbls[n])
  PROVE  /\ DOMAIN Snapshot(tbls).tables = DOMAIN tbls
         /\ \A n \in DOMAIN tbls : /\ Snapshot(tbls).tables[n] = tbls[n].rows.versions
                                   /\ tbls[n].rows.versions \in [Ticks -> Batches]
  BY DEF Snapshot, Good, TableState

\* A snapshot is added.
LEMMA SnapshotAdded ==
  ASSUME SnapshotsInv, NEW tick \in Ticks, NEW tbls, \A n \in DOMAIN tbls : Good(tbls[n]),
         snapshots' = Extend(snapshots, tick, Snapshot(tbls))
  PROVE  SnapshotsInv'
<1> DEFINE snap == Snapshot(tbls)
<1>1. \A n \in DOMAIN snap.tables : snap.tables[n] \in [Ticks -> Batches]
  BY SnapshotType
<1> HIDE DEF snap
<1>2. /\ DOMAIN snapshots' = DOMAIN snapshots \cup {tick}
      /\ \A t \in DOMAIN snapshots' : snapshots'[t] = IF t = tick THEN snap ELSE snapshots[t]
      /\ snapshots' = [t \in DOMAIN snapshots' |-> snapshots'[t]]
  BY DEF Extend, snap
<1> QED
  BY <1>1, <1>2 DEF SnapshotsInv

\* generate_snapshot, and truncate_before.
LEMMA SnapshotsKeep ==
  ASSUME StoreInv, NEW tick \in Ticks, GenerateSnapshot(tick) \/ TruncateBefore(tick)
  PROVE  StoreInv'
<1>1. DiskInv'
  BY DiskKept DEF StoreInv, DiskInv, GenerateSnapshot, TruncateBefore
<1>2. CASE GenerateSnapshot(tick)
  <2>1. SnapshotsInv'
    BY <1>2, SnapshotAdded DEF StoreInv, TablesInv, GenerateSnapshot
  <2>2. TablesInv' /\ CatalogInv'
    BY <1>2 DEF StoreInv, TablesInv, CatalogInv, GenerateSnapshot
  <2> QED
    BY <1>1, <2>1, <2>2 DEF StoreInv, DiskInv
<1>3. CASE TruncateBefore(tick)
  <2> DEFINE cut(n) == [t \in Ticks |-> IF t < tick THEN <<>> ELSE tables[n].rows.versions[t]]
  <2>1. ASSUME NEW n \in DOMAIN tables
        PROVE  Good([tables[n] EXCEPT !.rows.versions = cut(n)])
    <3>1. Good(tables[n]) /\ tables[n].rows.versions \in [Ticks -> Batches]
      BY DEF StoreInv, TablesInv, Good, TableState
    <3>2. cut(n) \in [Ticks -> Batches]
      BY <3>1 DEF Batches
    <3> QED
      BY <3>1, <3>2, VersionsGood
  <2>2. tables' = [n \in DOMAIN tables |-> [tables[n] EXCEPT !.rows.versions = cut(n)]]
    BY <1>3 DEF TruncateBefore
  <2>3. TablesInv'
    BY <2>1, <2>2 DEF TablesInv
  <2>4. CatalogInv'
    BY <1>3, <2>2 DEF StoreInv, CatalogInv, TruncateBefore
  <2>5. SnapshotsInv'
    BY <1>3 DEF StoreInv, SnapshotsInv, TruncateBefore, Omit
  <2> QED
    BY <1>1, <2>3, <2>4, <2>5 DEF StoreInv, DiskInv
<1> QED
  BY <1>2, <1>3

\* What is said of memory only.
MemoryInv == TablesInv /\ CatalogInv /\ SnapshotsInv

\* A step that only touches files keeps it.
LEMMA MemoryKept ==
  ASSUME MemoryInv, UNCHANGED memory
  PROVE  MemoryInv'
  BY DEF MemoryInv, TablesInv, CatalogInv, SnapshotsInv, memory

\* A write finds a snapshot when there is one.
LEMMA SnapshotFound ==
  ASSUME SnapshotsInv, NEW tick, snapshots # <<>>
  PROVE  SnapshotFor(tick) \in DOMAIN snapshots
<1>1. DOMAIN snapshots # {}
  <2>1. SUFFICES ASSUME DOMAIN snapshots = {} PROVE FALSE
    OBVIOUS
  <2>2. snapshots = [t \in {} |-> snapshots[t]]
    BY <2>1 DEF SnapshotsInv
  <2> QED
    BY <2>2
<1>2. DOMAIN snapshots \in SUBSET (0 .. MaxTick) /\ MaxTick \in Nat
  BY ArrowTableAssumption DEF SnapshotsInv, Ticks
<1>3. \E t \in DOMAIN snapshots : \A u \in DOMAIN snapshots : t >= u
  BY <1>1, <1>2, MaxIsGreatest
<1>4. \E t \in DOMAIN snapshots : \A u \in DOMAIN snapshots : u <= t
  BY <1>2, <1>3
<1> QED
  BY <1>4 DEF SnapshotFor

\* write_checkpoint begins.
LEMMA BeginWriteKeeps ==
  ASSUME StoreInv, NEW tick \in Ticks, BeginWrite(tick)
  PROVE  StoreInv'
<1>1. MemoryInv'
  BY MemoryKept DEF StoreInv, MemoryInv, BeginWrite
<1> DEFINE at == SnapshotFor(tick)
           view == View(snapshots[at], at)
           new == [tick |-> tick, todo |-> NonEmpty(view), view |-> view]
<1>2. at \in DOMAIN snapshots /\ at \in Ticks
  BY SnapshotFound DEF StoreInv, SnapshotsInv, BeginWrite
<1>3. \A n \in DOMAIN view : view[n] \in Batches
  <2>1. \A n \in DOMAIN snapshots[at].tables : snapshots[at].tables[n] \in [Ticks -> Batches]
    BY <1>2 DEF StoreInv, SnapshotsInv
  <2> QED
    BY <1>2, <2>1 DEF View
<1>4. writing' = {new}
  BY DEF BeginWrite
<1> HIDE DEF view
<1>5. /\ DOMAIN new = {"tick", "todo", "view"}
      /\ new.tick = tick /\ new.todo = NonEmpty(view) /\ new.view = view
  OBVIOUS
<1> HIDE DEF new
<1>6. /\ DOMAIN disk' = DOMAIN disk \cup {tick}
      /\ \A t \in DOMAIN disk : disk'[t] = disk[t]
      /\ tick \notin DOMAIN disk => disk'[tick] = <<>>
  BY DEF BeginWrite, Extend
<1>7. FilesInv'
  <2>1. ASSUME NEW t \in DOMAIN disk'
        PROVE  /\ IsFiniteSet(DOMAIN disk'[t])
               /\ \A n \in DOMAIN disk'[t] : disk'[t][n] \in [whole : BOOLEAN, batches : Batches]
    <3>1. CASE t \in DOMAIN disk
      BY <1>6, <3>1 DEF StoreInv, FilesInv
    <3>2. CASE t \notin DOMAIN disk
      <4>1. DOMAIN disk'[t] = {}
        BY <1>6, <3>2
      <4> QED
        BY <4>1, FS_EmptySet
    <3> QED
      BY <3>1, <3>2
  <2> QED
    BY <2>1 DEF FilesInv
<1>8. WritingInv'
  BY <1>3, <1>4, <1>5, <1>6 DEF WritingInv
<1>9. /\ DOMAIN complete' = DOMAIN complete \ {tick}
      /\ \A t \in DOMAIN complete' : complete'[t] = complete[t]
  BY DEF BeginWrite, Omit
<1>10. CompleteInv'
  BY <1>4, <1>5, <1>6, <1>9 DEF StoreInv, CompleteInv
<1>11. CheckpointRestores'
  BY DEF BeginWrite, CheckpointRestores
<1> QED
  BY <1>1, <1>7, <1>8, <1>10, <1>11 DEF StoreInv, MemoryInv

\* A file is created, torn.
LEMMA CreateFileKeeps ==
  ASSUME StoreInv, NEW n, CreateFile(n)
  PROVE  StoreInv'
<1>1. MemoryInv'
  BY MemoryKept DEF StoreInv, MemoryInv, CreateFile
<1>2. PICK w \in writing : n \in w.todo /\ disk' = [disk EXCEPT ![w.tick] = Extend(@, n, Torn)]
  BY DEF CreateFile
<1>3. /\ w.tick \in DOMAIN disk /\ \A x \in writing : x = w
      /\ writing' = writing /\ complete' = complete /\ lastLoad' = lastLoad
  BY DEF StoreInv, WritingInv, CreateFile
<1> DEFINE dir == Extend(disk[w.tick], n, Torn)
<1>4. /\ DOMAIN disk' = DOMAIN disk /\ disk'[w.tick] = dir
      /\ \A t \in DOMAIN disk : t # w.tick => disk'[t] = disk[t]
  BY <1>2, <1>3
<1>5. /\ DOMAIN dir = DOMAIN disk[w.tick] \cup {n}
      /\ \A m \in DOMAIN dir : dir[m] = IF m = n THEN Torn ELSE disk[w.tick][m]
  BY DEF Extend
<1> HIDE DEF dir
<1>6. FilesInv'
  <2>1. Torn \in [whole : BOOLEAN, batches : Batches]
    BY DEF Torn, Batches
  <2>2. IsFiniteSet(DOMAIN dir)
    BY <1>3, <1>5, FS_AddElement DEF StoreInv, FilesInv
  <2>3. \A m \in DOMAIN dir : dir[m] \in [whole : BOOLEAN, batches : Batches]
    BY <1>3, <1>5, <2>1 DEF StoreInv, FilesInv
  <2> QED
    BY <1>4, <2>2, <2>3 DEF StoreInv, FilesInv
<1>7. WritingInv'
  <2>1. n \notin NonEmpty(w.view) \ w.todo
    BY <1>2
  <2>2. \A m \in NonEmpty(w.view) \ w.todo :
          m \in DOMAIN disk'[w.tick] /\ disk'[w.tick][m] = Whole(w.view[m])
    BY <1>4, <1>5, <2>1 DEF StoreInv, WritingInv
  <2> QED
    BY <1>3, <1>4, <2>2 DEF StoreInv, WritingInv
<1>8. CompleteInv'
  BY <1>3, <1>4 DEF StoreInv, CompleteInv
<1>9. CheckpointRestores'
  BY <1>3 DEF StoreInv, CheckpointRestores
<1> QED
  BY <1>1, <1>6, <1>7, <1>8, <1>9 DEF StoreInv, MemoryInv

\* A file is finished.
LEMMA FinishFileKeeps ==
  ASSUME StoreInv, NEW n, FinishFile(n)
  PROVE  StoreInv'
<1>1. MemoryInv'
  BY MemoryKept DEF StoreInv, MemoryInv, FinishFile
<1>2. PICK w \in writing : /\ n \in w.todo /\ n \in DOMAIN disk[w.tick]
                           /\ disk' = [disk EXCEPT ![w.tick][n] = Whole(w.view[n])]
                           /\ writing' = {[w EXCEPT !.todo = @ \ {n}]}
  BY DEF FinishFile
<1>3. /\ w.tick \in DOMAIN disk /\ n \in NonEmpty(w.view)
      /\ complete' = complete /\ lastLoad' = lastLoad
  BY <1>2 DEF StoreInv, WritingInv, FinishFile
<1> DEFINE x == [w EXCEPT !.todo = @ \ {n}]
<1>4. /\ DOMAIN x = {"tick", "todo", "view"} /\ writing' = {x}
      /\ x.tick = w.tick /\ x.view = w.view /\ x.todo = w.todo \ {n}
  BY <1>2 DEF StoreInv, WritingInv
<1> HIDE DEF x
<1>5. /\ DOMAIN disk' = DOMAIN disk /\ DOMAIN disk'[w.tick] = DOMAIN disk[w.tick]
      /\ \A t \in DOMAIN disk : t # w.tick => disk'[t] = disk[t]
      /\ \A m \in DOMAIN disk[w.tick] :
           disk'[w.tick][m] = IF m = n THEN Whole(w.view[n]) ELSE disk[w.tick][m]
  BY <1>2, <1>3
<1>6. FilesInv'
  <2>1. w.view[n] \in Batches
    BY <1>3 DEF StoreInv, WritingInv, NonEmpty
  <2>2. Whole(w.view[n]) \in [whole : BOOLEAN, batches : Batches]
    BY <2>1 DEF Whole
  <2>3. /\ IsFiniteSet(DOMAIN disk'[w.tick])
        /\ \A m \in DOMAIN disk[w.tick] :
             disk'[w.tick][m] \in [whole : BOOLEAN, batches : Batches]
    BY <1>3, <1>5, <2>2 DEF StoreInv, FilesInv
  <2> QED
    BY <1>5, <2>3 DEF StoreInv, FilesInv
<1>7. WritingInv'
  <2>1. \A m \in NonEmpty(w.view) \ x.todo :
          m \in DOMAIN disk'[w.tick] /\ disk'[w.tick][m] = Whole(w.view[m])
    BY <1>2, <1>4, <1>5 DEF StoreInv, WritingInv
  <2>2. /\ \A m \in DOMAIN w.view : w.view[m] \in Batches
        /\ x.todo \subseteq NonEmpty(w.view)
    BY <1>4 DEF StoreInv, WritingInv
  <2> QED
    BY <1>3, <1>4, <1>5, <2>1, <2>2 DEF WritingInv
<1>8. CompleteInv'
  BY <1>3, <1>4, <1>5 DEF StoreInv, CompleteInv
<1>9. CheckpointRestores'
  BY <1>3 DEF StoreInv, CheckpointRestores
<1> QED
  BY <1>1, <1>6, <1>7, <1>8, <1>9 DEF StoreInv, MemoryInv

\* The write ends: what it wrote is the complete checkpoint.
LEMMA EndWriteKeeps ==
  ASSUME StoreInv, EndWrite
  PROVE  StoreInv'
<1>1. MemoryInv'
  BY MemoryKept DEF StoreInv, MemoryInv, EndWrite
<1>2. PICK w \in writing :
        /\ w.todo = {}
        /\ complete' = Extend(complete, w.tick, [n \in NonEmpty(w.view) |-> w.view[n]])
  BY DEF EndWrite
<1>3. writing' = {} /\ lastLoad' = {} /\ disk' = disk
  BY DEF EndWrite
<1>4. FilesInv' /\ WritingInv' /\ CheckpointRestores'
  BY <1>3 DEF StoreInv, FilesInv, WritingInv, CheckpointRestores
<1>5. /\ w.tick \in DOMAIN disk
      /\ \A n \in NonEmpty(w.view) :
           n \in DOMAIN disk[w.tick] /\ disk[w.tick][n] = Whole(w.view[n])
  BY <1>2 DEF StoreInv, WritingInv
<1> DEFINE new == [n \in NonEmpty(w.view) |-> w.view[n]]
<1>6. /\ DOMAIN complete' = DOMAIN complete \cup {w.tick}
      /\ \A t \in DOMAIN complete' : complete'[t] = IF t = w.tick THEN new ELSE complete[t]
  BY <1>2 DEF Extend
<1>7. DOMAIN new = NonEmpty(w.view) /\ \A n \in DOMAIN new : new[n] = w.view[n]
  OBVIOUS
<1> HIDE DEF new
<1>8. CompleteInv'
  BY <1>3, <1>5, <1>6, <1>7 DEF StoreInv, CompleteInv
<1> QED
  BY <1>1, <1>4, <1>8 DEF StoreInv, MemoryInv

\* A restart leaves the disk.
LEMMA RestartKeeps ==
  ASSUME StoreInv, Restart
  PROVE  StoreInv'
<1>1. /\ tables' = <<>> /\ ids' = <<>> /\ nextId' = 0 /\ snapshots' = <<>>
      /\ writing' = {} /\ lastLoad' = {} /\ disk' = disk /\ complete' = complete
  BY DEF Restart
<1>2. DOMAIN tables' = {} /\ DOMAIN ids' = {} /\ DOMAIN snapshots' = {}
  BY <1>1
<1>3. TablesInv' /\ CatalogInv'
  BY <1>1, <1>2 DEF TablesInv, CatalogInv
<1>4. snapshots' = [t \in DOMAIN snapshots' |-> snapshots'[t]]
  BY <1>1
<1>5. SnapshotsInv'
  BY <1>2, <1>4 DEF SnapshotsInv
<1>6. FilesInv' /\ WritingInv' /\ CompleteInv' /\ CheckpointRestores'
  BY <1>1 DEF StoreInv, FilesInv, WritingInv, CompleteInv, CheckpointRestores
<1> QED
  BY <1>3, <1>5, <1>6 DEF StoreInv

\* An enumeration of a finite set meets every element once.
LEMMA OrderOnto ==
  ASSUME NEW S, IsFiniteSet(S), NEW order \in SetToSeqs(S)
  PROVE  /\ Cardinality(S) \in Nat /\ order \in [1 .. Cardinality(S) -> S]
         /\ Len(order) = Cardinality(S)
         /\ \A i, j \in 1 .. Cardinality(S) : order[i] = order[j] => i = j
         /\ \A x \in S : \E i \in 1 .. Cardinality(S) : order[i] = x
<1> DEFINE c == Cardinality(S)
<1>1. c \in Nat
  BY FS_CardinalityType
<1>2. order \in [1 .. c -> S] /\ \A i, j \in 1 .. c : order[i] = order[j] => i = j
  BY DEF SetToSeqs
<1>3. Cardinality(1 .. c) = c
  <2>1. c \in Int /\ 1 \in Int /\ (1 > c => c = 0) /\ (~(1 > c) => c - 1 + 1 = c)
    BY <1>1
  <2> QED
    BY <2>1, FS_Interval
<1>4. \A x \in S : \E i \in 1 .. c : order[i] = x
  <2> DEFINE D == 1 .. c
  <2>1. /\ Cardinality(D) = Cardinality(S) /\ order \in [D -> S]
        /\ \A i, j \in D : order[i] = order[j] => i = j
    BY <1>2, <1>3
  <2> HIDE DEF D
  <2>2. \A x \in S : \E i \in D : order[i] = x
    BY <2>1, InjectionOnto
  <2> QED
    BY <2>2 DEF D
<1> HIDE DEF c
<1>5. Len(order) = c
  BY <1>1, <1>2
<1> QED
  BY <1>1, <1>2, <1>4, <1>5 DEF c

\* The ids that load_checkpoint gives to the tables it creates.
LEMMA LoadKeepsCatalog ==
  ASSUME CatalogInv, NEW new, IsFiniteSet(new), new \cap DOMAIN tables = {},
         NEW order \in SetToSeqs(new),
         ids' = [i \in DOMAIN ids \cup (nextId .. nextId + Len(order) - 1) |->
                   IF i < nextId THEN ids[i] ELSE order[i - nextId + 1]],
         nextId' = nextId + Cardinality(new),
         DOMAIN tables' = DOMAIN tables \cup new
  PROVE  CatalogInv'
<1> DEFINE c == Cardinality(new)
<1>1. /\ c \in Nat /\ order \in [1 .. c -> new] /\ Len(order) = c
      /\ \A i, j \in 1 .. c : order[i] = order[j] => i = j
      /\ \A x \in new : \E i \in 1 .. c : order[i] = x
  BY OrderOnto
<1> HIDE DEF c
<1>2. nextId \in Nat /\ \A i \in DOMAIN ids : i \in Nat /\ i < nextId
  BY DEF CatalogInv
<1>3. DOMAIN ids' = DOMAIN ids \cup (nextId .. nextId + c - 1)
  BY <1>1
<1>4. \A i \in DOMAIN ids : ids'[i] = ids[i]
  BY <1>2, <1>3
<1>5. \A i \in nextId .. nextId + c - 1 :
        /\ i \in Nat /\ ~(i < nextId) /\ i - nextId + 1 \in 1 .. c
        /\ i < nextId + c /\ ids'[i] = order[i - nextId + 1]
  BY <1>1, <1>2, <1>3
<1>6. \A k \in 1 .. c : /\ k - 1 + nextId \in nextId .. nextId + c - 1
                        /\ ids'[k - 1 + nextId] = order[k]
  <2>1. ASSUME NEW k \in 1 .. c
        PROVE  /\ k - 1 + nextId \in nextId .. nextId + c - 1
               /\ (k - 1 + nextId) - nextId + 1 = k
    BY <1>1, <1>2
  <2> QED
    BY <1>5, <2>1
<1>7. nextId' \in Nat /\ nextId' = nextId + c
  BY <1>1, <1>2 DEF c
<1>8. \A i \in DOMAIN ids' : i \in Nat /\ i < nextId' /\ ids'[i] \in DOMAIN tables'
  <2>1. ASSUME NEW i \in DOMAIN ids
        PROVE  i \in Nat /\ i < nextId' /\ ids'[i] \in DOMAIN tables'
    BY <1>1, <1>2, <1>4, <1>7 DEF CatalogInv
  <2>2. ASSUME NEW i \in nextId .. nextId + c - 1
        PROVE  i \in Nat /\ i < nextId' /\ ids'[i] \in DOMAIN tables'
    <3> DEFINE k == i - nextId + 1
    <3>1. i \in Nat /\ i < nextId' /\ k \in 1 .. c /\ ids'[i] = order[k]
      BY <1>5, <1>7
    <3> HIDE DEF k
    <3>2. ids'[i] \in DOMAIN tables'
      BY <1>1, <3>1
    <3> QED
      BY <3>1, <3>2
  <2> QED
    BY <1>3, <2>1, <2>2
<1>9. \A n \in DOMAIN tables' : \E i \in DOMAIN ids' : ids'[i] = n
  <2>1. ASSUME NEW n \in DOMAIN tables PROVE \E i \in DOMAIN ids' : ids'[i] = n
    BY <1>3, <1>4 DEF CatalogInv
  <2>2. ASSUME NEW n \in new PROVE \E i \in DOMAIN ids' : ids'[i] = n
    <3>1. PICK k \in 1 .. c : order[k] = n
      BY <1>1
    <3>2. k - 1 + nextId \in DOMAIN ids' /\ ids'[k - 1 + nextId] = n
      BY <1>3, <1>6, <3>1
    <3> QED
      BY <3>2
  <2> QED
    BY <2>1, <2>2
<1>10. ASSUME NEW i \in DOMAIN ids', NEW j \in DOMAIN ids', ids'[i] = ids'[j]
       PROVE  i = j
  <2>1. CASE i \in DOMAIN ids /\ j \in DOMAIN ids
    BY <1>4, <1>10, <2>1 DEF CatalogInv
  <2>2. ASSUME NEW a \in DOMAIN ids, NEW b \in nextId .. nextId + c - 1
        PROVE  ids'[a] # ids'[b]
    <3>1. ids'[a] \in DOMAIN tables
      BY <1>4 DEF CatalogInv
    <3>2. ids'[b] \in new
      BY <1>1, <1>5
    <3> QED
      BY <3>1, <3>2
  <2>3. CASE i \in nextId .. nextId + c - 1 /\ j \in nextId .. nextId + c - 1
    <3>1. i - nextId + 1 = j - nextId + 1
      BY <1>1, <1>5, <1>10, <2>3
    <3> QED
      BY <1>2, <2>3, <3>1
  <2> QED
    BY <1>3, <1>10, <2>1, <2>2, <2>3
<1> QED
  BY <1>7, <1>8, <1>9, <1>10 DEF CatalogInv

\* load_checkpoint.
LEMMA LoadKeeps ==
  ASSUME StoreInv, NEW tick \in Ticks, LoadCheckpoint(tick)
  PROVE  StoreInv'
<1> DEFINE stored == DOMAIN disk[tick]
           new == stored \ DOMAIN tables
           Before(n) == IF n \in new THEN NewTable("AppendOnly", "arrow") ELSE tables[n]
           Loaded(n) == [Before(n) EXCEPT !.rows =
                           LoadedVersions(@, tick, disk[tick][n].batches)]
<1>1. tick \in DOMAIN disk /\ disk' = disk /\ writing' = writing /\ complete' = complete
  BY DEF LoadCheckpoint
<1>2. tables' = [n \in DOMAIN tables \cup stored |->
                   IF n \notin stored THEN tables[n] ELSE Loaded(n)]
  BY DEF LoadCheckpoint
<1>3. ASSUME NEW n \in stored
      PROVE  Good(Loaded(n)) /\ Loaded(n).rows.versions[tick] = disk[tick][n].batches
  <2>1. Good(Before(n))
    BY NewIsGood DEF StoreInv, TablesInv
  <2> HIDE DEF Before
  <2>2. disk[tick][n].batches \in Batches
    BY <1>1 DEF StoreInv, FilesInv
  <2> DEFINE rows == LoadedVersions(Before(n).rows, tick, disk[tick][n].batches)
  <2>3. /\ rows \in TableState /\ rows.pkLatest = Before(n).rows.pkLatest
        /\ rows.versions[tick] = disk[tick][n].batches
    BY <2>1, <2>2 DEF Good, TableState, LoadedVersions
  <2>4. Loaded(n) = [Before(n) EXCEPT !.rows = rows]
    OBVIOUS
  <2> HIDE DEF rows, Loaded
  <2>5. Good(Loaded(n))
    BY <2>1, <2>3, <2>4, RowsGood
  <2>6. Loaded(n).rows = rows
    BY <2>1, <2>4 DEF Good
  <2> QED
    BY <2>3, <2>5, <2>6
<1> HIDE DEF Loaded
<1>4. TablesInv'
  BY <1>2, <1>3 DEF StoreInv, TablesInv
<1>5. CatalogInv'
  <2>1. PICK order \in SetToSeqs(new) :
          ids' = [i \in DOMAIN ids \cup (nextId .. nextId + Len(order) - 1) |->
                    IF i < nextId THEN ids[i] ELSE order[i - nextId + 1]]
    BY DEF LoadCheckpoint
  <2>2. IsFiniteSet(new)
    BY <1>1, FS_Subset DEF StoreInv, FilesInv
  <2>3. nextId' = nextId + Cardinality(new)
    BY DEF LoadCheckpoint
  <2>4. DOMAIN tables' = DOMAIN tables \cup new
    BY <1>2
  <2>5. new \cap DOMAIN tables = {}
    OBVIOUS
  <2>6. CatalogInv
    BY DEF StoreInv
  <2> HIDE DEF new
  <2> QED
    BY <2>1, <2>2, <2>3, <2>4, <2>5, <2>6, LoadKeepsCatalog
<1>6. snapshots' = Extend(snapshots, tick, Snapshot(tables'))
  BY DEF LoadCheckpoint
<1>7. \A n \in DOMAIN tables' : Good(tables'[n])
  BY <1>4 DEF TablesInv
<1>8. SnapshotsInv'
  BY <1>6, <1>7, SnapshotAdded DEF StoreInv
<1>9. FilesInv' /\ WritingInv' /\ CompleteInv'
  BY <1>1 DEF StoreInv, FilesInv, WritingInv, CompleteInv
<1>10. CheckpointRestores'
  <2> DEFINE view == View(snapshots'[tick], tick)
  <2>1. lastLoad' = {[tick |-> tick, view |-> view]}
    BY DEF LoadCheckpoint
  <2>2. snapshots'[tick] = Snapshot(tables')
    BY <1>6 DEF Extend
  <2>3. /\ DOMAIN view = DOMAIN tables'
        /\ \A n \in DOMAIN tables' : view[n] = tables'[n].rows.versions[tick]
    BY <1>7, <2>2, SnapshotType DEF View
  <2>4. \A n \in stored : n \in DOMAIN view /\ view[n] = disk[tick][n].batches
    BY <1>2, <1>3, <2>3
  <2>5. tick \in DOMAIN complete => \A n \in DOMAIN complete[tick] :
          n \in stored /\ disk[tick][n].batches = complete[tick][n]
    <3>1. tick \in DOMAIN complete => \A n \in DOMAIN complete[tick] :
            n \in stored /\ disk[tick][n] = Whole(complete[tick][n])
      BY DEF StoreInv, CompleteInv
    <3>2. \A batches : Whole(batches).batches = batches
      BY DEF Whole
    <3> HIDE DEF stored
    <3> QED
      BY <3>1, <3>2
  <2> HIDE DEF view
  <2> QED
    BY <1>1, <2>1, <2>4, <2>5 DEF CheckpointRestores
<1> QED
  BY <1>4, <1>5, <1>8, <1>9, <1>10 DEF StoreInv

\* Every step keeps the invariant.
LEMMA StoreInvNext ==
  ASSUME StoreInv, [StoreNext]_storeVars
  PROVE  StoreInv'
<1>1. CASE UNCHANGED storeVars
  <2>1. MemoryInv' /\ DiskInv'
    BY <1>1, MemoryKept, DiskKept DEF StoreInv, MemoryInv, DiskInv, storeVars
  <2> QED
    BY <2>1 DEF StoreInv, MemoryInv, DiskInv
<1>2. CASE InitStep
  <2>1. ASSUME NEW type \in CustomTypes, RegisterType(type.name, type.arrow) PROVE StoreInv'
    <3>1. MemoryInv'
      BY <2>1 DEF StoreInv, MemoryInv, TablesInv, CatalogInv, SnapshotsInv, RegisterType
    <3>2. DiskInv'
      BY <2>1, DiskKept DEF StoreInv, DiskInv, RegisterType
    <3> QED
      BY <3>1, <3>2 DEF StoreInv, MemoryInv, DiskInv
  <2>2. ASSUME IntoSimulation PROVE StoreInv'
    <3>1. MemoryInv'
      BY <2>2 DEF StoreInv, MemoryInv, TablesInv, CatalogInv, SnapshotsInv, IntoSimulation
    <3>2. DiskInv'
      BY <2>2, DiskKept DEF StoreInv, DiskInv, IntoSimulation
    <3> QED
      BY <3>1, <3>2 DEF StoreInv, MemoryInv, DiskInv
  <2>3. ASSUME NEW n \in Name,
               \/ \E mode \in Modes : SetMutationMode(n, mode)
               \/ \E region \in Region :
                    \/ RemovePartition(n, region)
                    \/ \E batches \in BatchInput : AddToPartition(n, region, batches[1])
        PROVE  StoreInv'
    BY <2>3, SettingsKeep
  <2>4. ASSUME NEW n \in Name,
               \/ CreateTable(n, "Patchable") \/ DropTable(n)
               \/ BuildPrimaryKeyIndex(n) \/ BuildForeignKeyIndex(n)
        PROVE  StoreInv'
    BY <2>4, CreateKeeps, DropKeeps, BuildPrimaryKeeps, BuildForeignKeeps
  <2>5. ASSUME NEW n \in Name, NEW tick \in Ticks, NEW batches \in BatchInput,
               AppendBatches(n, tick, batches) \/ RebuildTable(n, tick, batches)
        PROVE  StoreInv'
    BY <2>5, BatchesKeep
  <2> QED
    BY <1>2, <2>1, <2>2, <2>3, <2>4, <2>5 DEF InitStep
<1>3. CASE CommitStep
  BY <1>3, SnapshotsKeep, ApplyDiffsKeeps, PatchKeeps DEF CommitStep
<1>4. CASE DiskStep
  BY <1>4, BeginWriteKeeps, LoadKeeps, CreateFileKeeps, FinishFileKeeps, EndWriteKeeps,
     RestartKeeps DEF DiskStep
<1> QED
  BY <1>1, <1>2, <1>3, <1>4 DEF StoreNext

\* A new store on an empty disk has the invariant.
LEMMA StoreInvInit ==
  ASSUME StoreInit
  PROVE  StoreInv
<1>1. /\ DOMAIN tables = {} /\ DOMAIN ids = {} /\ nextId = 0 /\ snapshots = <<>>
      /\ DOMAIN disk = {} /\ writing = {} /\ DOMAIN complete = {} /\ lastLoad = {}
  BY DEF StoreInit, Fresh
<1>2. TablesInv /\ CatalogInv /\ FilesInv /\ WritingInv /\ CompleteInv /\ CheckpointRestores
  BY <1>1 DEF TablesInv, CatalogInv, FilesInv, WritingInv, CompleteInv, CheckpointRestores
<1>3. SnapshotsInv
  BY <1>1 DEF SnapshotsInv
<1> QED
  BY <1>2, <1>3 DEF StoreInv

\* StoreInv is inductive: whatever the order of create_table, drop_table,
\* load_checkpoint, the commits, the writes and the restarts.
THEOREM StoreInvariance == StoreSpec => []StoreInv
<1>1. StoreInit => StoreInv
  BY StoreInvInit
<1>2. StoreInv /\ [StoreNext]_storeVars => StoreInv'
  BY StoreInvNext
<1> QED
  BY <1>1, <1>2, PTL DEF StoreSpec

\* The catalogue: every table has exactly one id, every id names a table that
\* exists, and none is given twice, across create_table, drop_table, the
\* tables load_checkpoint creates, and restarts.
THEOREM CatalogStaysConsistent == StoreSpec => []CatalogConsistent
<1>1. StoreInv => CatalogConsistent
  <2>1. SUFFICES ASSUME StoreInv PROVE CatalogConsistent
    OBVIOUS
  <2>2. ASSUME NEW n \in DOMAIN tables
        PROVE  Cardinality({i \in DOMAIN ids : ids[i] = n}) = 1
    <3>1. PICK i \in DOMAIN ids : ids[i] = n
      BY <2>1 DEF StoreInv, CatalogInv
    <3>2. {j \in DOMAIN ids : ids[j] = n} = {i}
      BY <2>1, <3>1 DEF StoreInv, CatalogInv
    <3> QED
      BY <3>2, FS_Singleton
  <2> QED
    BY <2>1, <2>2 DEF StoreInv, CatalogInv, CatalogConsistent
<1> QED
  BY <1>1, StoreInvariance, PTL

\* The two layers of every index have the same keys and the hot entry is of
\* the newest tick, whichever order the HashMap yields the ticks in when the
\* index is built, and after diffs, rollbacks and loads.
THEOREM LayersStayInAgreement == StoreSpec => []IndexLayersAgree
<1>1. StoreInv => IndexLayersAgree
  BY DEF StoreInv, TablesInv, Good, Layers, IndexLayersAgree
<1> QED
  BY <1>1, StoreInvariance, PTL

\* load_checkpoint shows the readers what the last complete write of that
\* checkpoint had, after a restart, a torn write and into a store with other
\* data.
THEOREM CompleteCheckpointsRestored == StoreSpec => []CheckpointRestores
<1>1. StoreInv => CheckpointRestores
  BY DEF StoreInv
<1> QED
  BY <1>1, StoreInvariance, PTL

-----------------------------------------------------------------------------
(* The loops of the services: what FoldLeft computes, step by step          *)

IsSeq(s) == s \in Seq({s[i] : i \in DOMAIN s})

\* The body of each loop, by its name.
LoopBody(kind, done, x) ==
  CASE kind[1] = "entry" -> PushedEntry(done, x)
    [] kind[1] = "edge"  -> Pushed(done, x)
    [] kind[1] = "table" -> (IF done.ok THEN Register(done.it, x.name, x.spec) ELSE done)
    [] kind[1] = "relation" -> (IF done.ok THEN AddRelation(done.it, x) ELSE done)
    [] kind[1] = "definition" -> (IF done.ok THEN CompileTable(done.it, x) ELSE done)
    [] kind[1] = "tier" -> (IF done.ok THEN RegisterTier(done.it, x) ELSE done)
    [] kind[1] = "open" -> Opened(kind[2], done, x)
    [] kind[1] = "walk" -> WalkStep(kind[2], done)
    [] kind[1] = "start" -> WalkFrom(kind[2], done, x)

\* f has the outcome of the loop over every set of indices.
LoopOver(kind, f, base, items, n) ==
  f = [s \in SUBSET (1 .. n) |->
         IF s = {} THEN base ELSE LoopBody(kind, f[s \ {Max(s)}], items[Max(s)])]

\* c has the outcome after every number of rounds.
LoopRounds(kind, c, base, items) ==
  /\ c[0] = base
  /\ \A k \in 1 .. Len(items) : c[k] = LoopBody(kind, c[k - 1], items[k])

\* What a sequence and its end look like.
LEMMA SeqFacts ==
  ASSUME NEW s, IsSeq(s)
  PROVE  /\ Len(s) \in Nat /\ DOMAIN s = 1 .. Len(s)
         /\ s = [i \in 1 .. Len(s) |-> s[i]]
<1> DEFINE S == {s[i] : i \in DOMAIN s}
<1>1. s \in Seq(S)
  BY DEF IsSeq
<1> HIDE DEF S
<1> QED
  BY <1>1

\* Whatever is numbered from 1 on is a sequence.
LEMMA SeqIntro ==
  ASSUME NEW s, NEW n \in Nat, s = [i \in 1 .. n |-> s[i]]
  PROVE  IsSeq(s) /\ Len(s) = n
<1> DEFINE S == {s[i] : i \in DOMAIN s}
<1>1. DOMAIN s = 1 .. n
  OBVIOUS
<1>2. \A i \in 1 .. n : s[i] \in S
  BY <1>1
<1> HIDE DEF S
<1>3. s \in [1 .. n -> S]
  BY <1>2
<1>4. s \in Seq(S) /\ Len(s) = n
  BY <1>1, <1>3
<1> QED
  BY <1>4 DEF IsSeq, S

\* A sequence with one element more.
LEMMA SeqLonger ==
  ASSUME NEW s, IsSeq(s), NEW x
  PROVE  /\ IsSeq(Append(s, x)) /\ Len(Append(s, x)) = Len(s) + 1
         /\ Append(s, x)[Len(s) + 1] = x
         /\ \A i \in 1 .. Len(s) : Append(s, x)[i] = s[i]
<1> DEFINE S == {s[i] : i \in DOMAIN s}
           T == S \cup {x}
           a == Append(s, x)
<1>1. s \in Seq(S)
  BY DEF IsSeq
<1> HIDE DEF S
<1>2. s \in Seq(T) /\ x \in T
  BY <1>1
<1> HIDE DEF T
<1>3. a \in Seq(T) /\ Len(a) = Len(s) + 1 /\ DOMAIN a = 1 .. Len(s) + 1 /\ Len(s) \in Nat
  BY <1>2
<1>4. a[Len(s) + 1] = x /\ \A i \in 1 .. Len(s) : a[i] = s[i]
  BY <1>2
<1> HIDE DEF a
<1>5. a = [i \in 1 .. Len(s) + 1 |-> a[i]]
  BY <1>3
<1>6. IsSeq(a)
  <2>1. PICK m \in Nat : m = Len(s) + 1
    BY <1>3
  <2>2. a = [i \in 1 .. m |-> a[i]]
    BY <1>5, <2>1
  <2> QED
    BY <2>2, SeqIntro
<1> QED
  BY <1>3, <1>4, <1>6 DEF a

\* What holds at 0, and at k when it holds at k - 1, holds up to n.
LEMMA UpTo ==
  ASSUME NEW n \in Nat, NEW G, 0 \in G, \A k \in 1 .. n : k - 1 \in G => k \in G
  PROVE  \A k \in 0 .. n : k \in G
<1> DEFINE S == {k \in 0 .. n : k \notin G}
<1>1. SUFFICES ASSUME S # {} PROVE FALSE
  OBVIOUS
<1>2. S \in SUBSET Nat
  OBVIOUS
<1>3. PICK k \in S : \A j \in S : k <= j
  BY <1>1, <1>2, LeastExists
<1>4. k \in 1 .. n /\ k - 1 \in 0 .. n /\ ~ (k <= k - 1)
  OBVIOUS
<1>5. k - 1 \in G
  BY <1>3, <1>4
<1> QED
  BY <1>4, <1>5

\* The outcomes of a loop are well defined.
LEMMA LoopExists ==
  ASSUME NEW kind, NEW base, NEW items, NEW n \in Nat
  PROVE  \E f : LoopOver(kind, f, base, items, n)
<1> DEFINE G == {k \in 0 .. n : \E f : LoopOver(kind, f, base, items, k)}
<1>1. 0 \in G
  <2> DEFINE f == [s \in SUBSET (1 .. 0) |-> base]
  <2>1. \A s \in SUBSET (1 .. 0) : s = {}
    OBVIOUS
  <2>2. LoopOver(kind, f, base, items, 0)
    BY <2>1 DEF LoopOver
  <2> QED
    BY <2>2
<1>2. ASSUME NEW k \in 1 .. n, k - 1 \in G PROVE k \in G
  <2>1. k \in Nat /\ k - 1 \in Nat /\ k \in 1 .. k /\ k \in 0 .. n
    OBVIOUS
  <2>2. PICK g : LoopOver(kind, g, base, items, k - 1)
    BY <1>2
  <2> DEFINE f == [s \in SUBSET (1 .. k) |->
                     IF k \in s THEN LoopBody(kind, g[s \ {k}], items[k]) ELSE g[s]]
  <2>3. \A s \in SUBSET (1 .. k - 1) :
          g[s] = IF s = {} THEN base ELSE LoopBody(kind, g[s \ {Max(s)}], items[Max(s)])
    BY <2>2 DEF LoopOver
  <2>4. \A s \in SUBSET (1 .. k) :
          /\ s \ {k} \in SUBSET (1 .. k - 1)
          /\ k \notin s => s \in SUBSET (1 .. k - 1)
    BY <2>1
  <2>5. \A s \in SUBSET (1 .. k) :
          f[s] = IF k \in s THEN LoopBody(kind, g[s \ {k}], items[k]) ELSE g[s]
    OBVIOUS
  <2> HIDE DEF f
  <2>6. ASSUME NEW s \in SUBSET (1 .. k)
        PROVE  f[s] = IF s = {} THEN base
                      ELSE LoopBody(kind, f[s \ {Max(s)}], items[Max(s)])
    <3>1. CASE s = {}
      <4>1. {} \in SUBSET (1 .. k - 1)
        OBVIOUS
      <4>2. f[s] = g[{}]
        BY <2>5, <3>1
      <4>3. g[{}] = base
        BY <2>3, <4>1
      <4> QED
        BY <3>1, <4>2, <4>3
    <3>2. CASE s # {} /\ k \in s
      <4>1. Max(s) = k
        BY <2>1, <3>2, MaxOfPrefix
      <4>2. s \ {k} \in SUBSET (1 .. k) /\ k \notin s \ {k}
        OBVIOUS
      <4>3. f[s \ {k}] = g[s \ {k}]
        BY <2>5, <4>2
      <4>4. f[s] = LoopBody(kind, g[s \ {k}], items[k])
        BY <2>5, <3>2
      <4> QED
        BY <3>2, <4>1, <4>3, <4>4
    <3>3. CASE s # {} /\ k \notin s
      <4> DEFINE r == s \ {Max(s)}
      <4>1. r \in SUBSET (1 .. k) /\ k \notin r
        BY <3>3
      <4>2. f[r] = g[r] /\ f[s] = g[s]
        BY <2>5, <3>3, <4>1
      <4>3. s \in SUBSET (1 .. k - 1)
        BY <2>4, <3>3
      <4>4. g[s] = LoopBody(kind, g[r], items[Max(s)])
        BY <2>3, <3>3, <4>3
      <4> QED
        BY <3>3, <4>2, <4>4
    <3> QED
      BY <3>1, <3>2, <3>3
  <2>7. f = [s \in SUBSET (1 .. k) |-> f[s]]
    BY DEF f
  <2>8. LoopOver(kind, f, base, items, k)
    BY <2>6, <2>7 DEF LoopOver
  <2> QED
    BY <2>1, <2>8
<1> HIDE DEF G
<1>3. \A k \in 0 .. n : k \in G
  BY <1>1, <1>2, UpTo
<1>4. n \in G
  BY <1>3
<1> QED
  BY <1>4 DEF G

\* The outcome over the first k indices is the outcome after k rounds.
LEMMA LoopHasRounds ==
  ASSUME NEW kind, NEW f, NEW base, NEW items, Len(items) \in Nat,
         LoopOver(kind, f, base, items, Len(items))
  PROVE  \E c : LoopRounds(kind, c, base, items) /\ c[Len(items)] = f[1 .. Len(items)]
<1> DEFINE n == Len(items)
           c == [k \in 0 .. n |-> f[1 .. k]]
<1>1. \A s \in SUBSET (1 .. n) :
        f[s] = IF s = {} THEN base ELSE LoopBody(kind, f[s \ {Max(s)}], items[Max(s)])
  BY DEF LoopOver
<1>2. \A k \in 0 .. n : c[k] = f[1 .. k]
  OBVIOUS
<1> HIDE DEF c
<1>3. c[0] = base
  <2>1. 1 .. 0 = {} /\ {} \in SUBSET (1 .. n) /\ 0 \in 0 .. n
    OBVIOUS
  <2> QED
    BY <1>1, <1>2, <2>1
<1>4. ASSUME NEW k \in 1 .. n PROVE c[k] = LoopBody(kind, c[k - 1], items[k])
  <2> DEFINE s == 1 .. k
  <2>1. s \in SUBSET (1 .. n) /\ s # {} /\ k \in Nat /\ k \in s /\ s \in SUBSET (1 .. k)
    OBVIOUS
  <2>2. s \ {k} = 1 .. k - 1
    OBVIOUS
  <2> HIDE DEF s
  <2>3. Max(s) = k
    BY <2>1, MaxOfPrefix
  <2>4. f[s] = LoopBody(kind, f[1 .. k - 1], items[k])
    BY <1>1, <2>1, <2>2, <2>3
  <2>5. c[k] = f[s] /\ c[k - 1] = f[1 .. k - 1]
    BY <1>2 DEF s
  <2> QED
    BY <2>4, <2>5
<1>5. c[n] = f[1 .. n]
  BY <1>2
<1> QED
  BY <1>3, <1>4, <1>5 DEF LoopRounds

\* push_diff_summaries: one summary after another.
LEMMA EntryLoop ==
  ASSUME NEW base, NEW items, IsSeq(items)
  PROVE  \E c : /\ LoopRounds(<<"entry">>, c, base, items)
                /\ FoldLeft(PushedEntry, base, items) = c[Len(items)]
<1> DEFINE P(f) == f = [s \in SUBSET (DOMAIN items) |->
                          IF s = {} THEN base ELSE PushedEntry(f[s \ {Max(s)}], items[Max(s)])]
           F == CHOOSE f : P(f)
<1>1. Len(items) \in Nat /\ DOMAIN items = 1 .. Len(items)
  BY SeqFacts
<1>2. \A f : P(f) <=> LoopOver(<<"entry">>, f, base, items, Len(items))
  BY <1>1 DEF LoopOver, LoopBody
<1>3. \E f : P(f)
  BY <1>1, <1>2, LoopExists
<1>4. P(F)
  BY <1>3
<1>5. FoldLeft(PushedEntry, base, items) = F[DOMAIN items]
  BY DEF FoldLeft, MapThenFoldSet
<1> HIDE DEF F
<1>6. LoopOver(<<"entry">>, F, base, items, Len(items))
  BY <1>2, <1>4
<1> QED
  BY <1>1, <1>5, <1>6, LoopHasRounds

-----------------------------------------------------------------------------
(* Names                                                                   *)

\* One name table: its ids lie below the counter and lead back to the name.
NamesOk(space, next) ==
  /\ space = [toId |-> space.toId, toName |-> space.toName, next |-> space.next]
  /\ space.next \in Nat /\ space.next <= next
  /\ \A n \in DOMAIN space.toId :
       /\ space.toId[n] \in Nat /\ space.toId[n] < next
       /\ space.toId[n] \in DOMAIN space.toName
       /\ space.toName[space.toId[n]] = n

\* The name tables share the counter, and no two of them an id.
ResolverOk(resolver) ==
  /\ resolver.next \in Nat
  /\ \A t \in DOMAIN resolver.spaces : NamesOk(resolver.spaces[t], resolver.next)
  /\ \A t, u \in DOMAIN resolver.spaces :
       \A n \in DOMAIN resolver.spaces[t].toId, m \in DOMAIN resolver.spaces[u].toId :
         resolver.spaces[t].toId[n] = resolver.spaces[u].toId[m] => t = u

\* What was handed out is still in its name table.
GivenOk(resolver, handed) ==
  \A g \in handed :
    /\ g = [table |-> g.table, name |-> g.name, id |-> g.id]
    /\ g.table \in DOMAIN resolver.spaces
    /\ g.name \in DOMAIN resolver.spaces[g.table].toId
    /\ resolver.spaces[g.table].toId[g.name] = g.id

\* It holds of the resolver whose counter is given back; while it is not, the
\* callers hand out nothing.
NamesInv ==
  LET after == SyncNextId(names.spaces) IN
    /\ ResolverOk(after) /\ GivenOk(after, given)
    /\ names = after \/ Unsynced(names)

\* A name table after register: with the name, and the rest as it was.
LEMMA RegisterNameKeeps ==
  ASSUME NEW space, NEW name, NEW next \in Nat, NamesOk(space, next), space.next = next
  PROVE  LET done == RegisterName(space, name).it IN
           /\ done.next \in Nat /\ next <= done.next /\ done.next <= next + 1
           /\ NamesOk(done, done.next)
           /\ DOMAIN done.toId = DOMAIN space.toId \cup {name}
           /\ \A n \in DOMAIN space.toId : done.toId[n] = space.toId[n]
           /\ name \notin DOMAIN space.toId => done.toId[name] = next /\ done.next = next + 1
<1>1. CASE name \in DOMAIN space.toId
  <2>1. RegisterName(space, name).it = space
    BY <1>1 DEF RegisterName, Fails
  <2> QED
    BY <1>1, <2>1
<1>2. CASE name \notin DOMAIN space.toId
  <2> DEFINE done == RegisterName(space, name).it
  <2>1. /\ done.toId = Put(space.toId, name, next)
        /\ done.toName = Put(space.toName, next, name)
        /\ done.next = next + 1
        /\ done = [toId |-> done.toId, toName |-> done.toName, next |-> done.next]
    BY <1>2 DEF RegisterName, Succeeds
  <2> HIDE DEF done
  <2>2. /\ DOMAIN done.toId = DOMAIN space.toId \cup {name}
        /\ done.toId[name] = next
        /\ \A n \in DOMAIN space.toId : done.toId[n] = space.toId[n]
    BY <1>2, <2>1 DEF Put
  <2>3. /\ DOMAIN done.toName = DOMAIN space.toName \cup {next}
        /\ done.toName[next] = name
        /\ \A i \in DOMAIN space.toName : i # next => done.toName[i] = space.toName[i]
    BY <2>1 DEF Put
  <2>4. ASSUME NEW n \in DOMAIN done.toId
        PROVE  /\ done.toId[n] \in Nat /\ done.toId[n] < next + 1
               /\ done.toId[n] \in DOMAIN done.toName
               /\ done.toName[done.toId[n]] = n
    <3>1. CASE n = name
      BY <2>2, <2>3, <3>1
    <3>2. CASE n # name
      <4>1. n \in DOMAIN space.toId /\ done.toId[n] = space.toId[n]
        BY <2>2, <3>2
      <4>2. /\ space.toId[n] \in Nat /\ space.toId[n] < next /\ space.toId[n] # next
            /\ space.toId[n] \in DOMAIN space.toName /\ space.toName[space.toId[n]] = n
        BY <4>1 DEF NamesOk
      <4> QED
        BY <2>3, <4>1, <4>2
    <3> QED
      BY <3>1, <3>2
  <2>5. NamesOk(done, done.next)
    BY <2>1, <2>4 DEF NamesOk
  <2> QED
    BY <1>2, <2>1, <2>2, <2>5 DEF done
<1> QED
  BY <1>1, <1>2

\* namespace(table): the name table, with the common counter.
LEMMA NamespaceIs ==
  ASSUME NEW resolver, NEW table, ResolverOk(resolver)
  PROVE  LET spaces == Namespace(resolver, table) IN
           /\ DOMAIN spaces = DOMAIN resolver.spaces \cup {table}
           /\ spaces[table].next = resolver.next
           /\ NamesOk(spaces[table], resolver.next)
           /\ \A u \in DOMAIN resolver.spaces :
                /\ u # table => spaces[u] = resolver.spaces[u]
                /\ spaces[u].toId = resolver.spaces[u].toId
           /\ table \notin DOMAIN resolver.spaces => DOMAIN spaces[table].toId = {}
<1> DEFINE old == IF table \in DOMAIN resolver.spaces THEN resolver.spaces[table] ELSE EmptyNames
           new == [old EXCEPT !.next = resolver.next]
           spaces == Namespace(resolver, table)
<1>1. /\ DOMAIN spaces = DOMAIN resolver.spaces \cup {table}
      /\ spaces[table] = new
      /\ \A u \in DOMAIN resolver.spaces : u # table => spaces[u] = resolver.spaces[u]
  BY DEF Namespace, Put
<1>2. NamesOk(old, resolver.next)
  BY DEF ResolverOk, NamesOk, EmptyNames
<1>3. table \notin DOMAIN resolver.spaces => DOMAIN old.toId = {}
  BY DEF EmptyNames
<1>4. resolver.next \in Nat
  BY DEF ResolverOk
<1>5. old = [toId |-> old.toId, toName |-> old.toName, next |-> old.next]
  BY <1>2 DEF NamesOk
<1> HIDE DEF old
<1>6. new.toId = old.toId /\ new.toName = old.toName /\ new.next = resolver.next
      /\ new = [toId |-> new.toId, toName |-> new.toName, next |-> new.next]
  BY <1>5
<1>7. NamesOk(new, resolver.next)
  BY <1>2, <1>4, <1>6 DEF NamesOk
<1>8. table \in DOMAIN resolver.spaces => new.toId = resolver.spaces[table].toId
  BY <1>6 DEF old
<1> HIDE DEF spaces, new
<1> QED
  BY <1>1, <1>3, <1>6, <1>7, <1>8 DEF spaces

\* What resolve_or_assign leaves: a resolver again, with the name in it, and
\* every name that was there with its id.
LEMMA ResolveOrAssignKeeps ==
  ASSUME NEW resolver, NEW table, NEW name, ResolverOk(resolver)
  PROVE  LET after == ResolveOrAssign(resolver, table, name) IN
           /\ ResolverOk(after)
           /\ \A t \in DOMAIN resolver.spaces :
                /\ t \in DOMAIN after.spaces
                /\ \A n \in DOMAIN resolver.spaces[t].toId :
                     /\ n \in DOMAIN after.spaces[t].toId
                     /\ after.spaces[t].toId[n] = resolver.spaces[t].toId[n]
<1> DEFINE spaces == Namespace(resolver, table)
           done == RegisterName(spaces[table], name).it
           after == ResolveOrAssign(resolver, table, name)
           N == resolver.next
<1>1. /\ DOMAIN spaces = DOMAIN resolver.spaces \cup {table}
      /\ spaces[table].next = N
      /\ NamesOk(spaces[table], N)
      /\ \A u \in DOMAIN resolver.spaces :
           /\ u # table => spaces[u] = resolver.spaces[u]
           /\ spaces[u].toId = resolver.spaces[u].toId
      /\ table \notin DOMAIN resolver.spaces => DOMAIN spaces[table].toId = {}
  BY NamespaceIs
<1>2. N \in Nat
  BY DEF ResolverOk
<1>3. /\ after.spaces = [spaces EXCEPT ![table] = done]
      /\ after.next = done.next
  BY DEF ResolveOrAssign
<1>4. /\ DOMAIN after.spaces = DOMAIN spaces
      /\ after.spaces[table] = done
      /\ \A u \in DOMAIN resolver.spaces : u # table => after.spaces[u] = resolver.spaces[u]
  <2>1. spaces = [u \in DOMAIN spaces |-> spaces[u]]
    BY DEF Namespace, Put
  <2> HIDE DEF spaces, done, after
  <2> QED
    BY <1>1, <1>3, <2>1
<1> HIDE DEF spaces, after
<1>5. /\ done.next \in Nat /\ N <= done.next /\ done.next <= N + 1
      /\ NamesOk(done, done.next)
      /\ DOMAIN done.toId = DOMAIN spaces[table].toId \cup {name}
      /\ \A n \in DOMAIN spaces[table].toId : done.toId[n] = spaces[table].toId[n]
      /\ name \notin DOMAIN spaces[table].toId => done.toId[name] = N /\ done.next = N + 1
  BY <1>1, <1>2, RegisterNameKeeps
<1> HIDE DEF done
<1>6. ASSUME NEW t \in DOMAIN after.spaces PROVE NamesOk(after.spaces[t], after.next)
  <2>1. CASE t = table
    BY <1>3, <1>4, <1>5, <2>1
  <2>2. CASE t # table
    <3>1. after.spaces[t] = resolver.spaces[t] /\ t \in DOMAIN resolver.spaces
      BY <1>1, <1>4, <2>2
    <3>2. NamesOk(resolver.spaces[t], N)
      BY <3>1 DEF ResolverOk
    <3> QED
      BY <1>2, <1>3, <1>5, <3>1, <3>2 DEF NamesOk
  <2> QED
    BY <2>1, <2>2
\* An id of the new tables is an old one of the same table, or the counter.
<1>7. ASSUME NEW t \in DOMAIN after.spaces, NEW n \in DOMAIN after.spaces[t].toId
      PROVE  \/ /\ t \in DOMAIN resolver.spaces /\ n \in DOMAIN resolver.spaces[t].toId
                /\ after.spaces[t].toId[n] = resolver.spaces[t].toId[n]
                /\ after.spaces[t].toId[n] < N
             \/ t = table /\ after.spaces[t].toId[n] = N
  <2>1. \A u \in DOMAIN resolver.spaces : \A m \in DOMAIN resolver.spaces[u].toId :
          resolver.spaces[u].toId[m] < N
    BY DEF ResolverOk, NamesOk
  <2>2. CASE t # table
    BY <1>1, <1>4, <2>1, <2>2
  <2>3. CASE t = table
    BY <1>1, <1>4, <1>5, <2>1, <2>3
  <2> QED
    BY <2>2, <2>3
<1>8. ASSUME NEW t \in DOMAIN after.spaces, NEW u \in DOMAIN after.spaces,
             NEW n \in DOMAIN after.spaces[t].toId, NEW m \in DOMAIN after.spaces[u].toId,
             after.spaces[t].toId[n] = after.spaces[u].toId[m]
      PROVE  t = u
  <2>1. ~ (N < N)
    BY <1>2
  <2> QED
    BY <1>7, <1>8, <2>1 DEF ResolverOk
<1>9. ASSUME NEW t \in DOMAIN resolver.spaces
      PROVE  /\ t \in DOMAIN after.spaces
             /\ \A n \in DOMAIN resolver.spaces[t].toId :
                  /\ n \in DOMAIN after.spaces[t].toId
                  /\ after.spaces[t].toId[n] = resolver.spaces[t].toId[n]
  <2>1. CASE t = table
    BY <1>1, <1>4, <1>5, <2>1
  <2>2. CASE t # table
    BY <1>1, <1>4, <2>2
  <2> QED
    BY <2>1, <2>2
<1>10. ResolverOk(after)
  BY <1>3, <1>5, <1>6, <1>8 DEF ResolverOk
<1> QED
  BY <1>9, <1>10 DEF after

\* register leaves what resolve_or_assign does once sync_next_id has run, because
\* the greatest of the counters is the one of the table just written; until then
\* that table is ahead, unless the name was refused.
LEMMA RegisterInIs ==
  ASSUME NEW resolver, NEW table, NEW name, ResolverOk(resolver)
  PROVE  LET begun == RegisterIn(resolver, table, name).it
             after == ResolveOrAssign(resolver, table, name)
         IN  /\ begun.spaces = after.spaces /\ SyncNextId(after.spaces) = after
             /\ begun = after \/ Unsynced(begun)
<1> DEFINE spaces == Namespace(resolver, table)
           done == RegisterName(spaces[table], name).it
           new == [spaces EXCEPT ![table] = done]
           N == resolver.next
           S == {new[t].next : t \in DOMAIN new} \cup {0}
<1>1. /\ RegisterIn(resolver, table, name).it = [spaces |-> new, next |-> N]
      /\ SyncNextId(new) = [spaces |-> new, next |-> Max(S)]
  BY DEF RegisterIn, SyncNextId
<1>2. ResolveOrAssign(resolver, table, name) = [spaces |-> new, next |-> done.next]
  BY DEF ResolveOrAssign
<1>3. /\ DOMAIN spaces = DOMAIN resolver.spaces \cup {table}
      /\ spaces[table].next = N
      /\ NamesOk(spaces[table], N)
      /\ \A u \in DOMAIN resolver.spaces :
           /\ u # table => spaces[u] = resolver.spaces[u]
           /\ spaces[u].toId = resolver.spaces[u].toId
      /\ table \notin DOMAIN resolver.spaces => DOMAIN spaces[table].toId = {}
  BY NamespaceIs
<1>4. N \in Nat
  BY DEF ResolverOk
<1>5. spaces = [u \in DOMAIN spaces |-> spaces[u]]
  BY DEF Namespace, Put
<1> HIDE DEF spaces
<1>6. done.next \in Nat /\ N <= done.next
  BY <1>3, <1>4, RegisterNameKeeps
<1> HIDE DEF done
<1>7. /\ DOMAIN new = DOMAIN spaces /\ new[table] = done
      /\ \A u \in DOMAIN resolver.spaces : u # table => new[u] = resolver.spaces[u]
  BY <1>3, <1>5
<1> HIDE DEF new
<1>8. \A x \in S : x \in 0 .. done.next
  <2>1. ASSUME NEW t \in DOMAIN new PROVE new[t].next \in 0 .. done.next
    <3>1. CASE t = table
      BY <1>6, <1>7, <3>1
    <3>2. CASE t # table
      <4>1. t \in DOMAIN resolver.spaces /\ new[t] = resolver.spaces[t]
        BY <1>3, <1>7, <3>2
      <4>2. NamesOk(resolver.spaces[t], N)
        BY <4>1 DEF ResolverOk
      <4> QED
        BY <1>4, <1>6, <4>1, <4>2 DEF NamesOk
    <3> QED
      BY <3>1, <3>2
  <2> QED
    BY <1>6, <2>1
<1>9. done.next \in S
  BY <1>3, <1>7
<1> HIDE DEF S
<1>10. Max(S) \in S /\ \A y \in S : Max(S) >= y
  BY <1>6, <1>8, <1>9, MaxIsGreatest
<1>11. Max(S) = done.next
  BY <1>6, <1>8, <1>9, <1>10
<1>12. ResolveOrAssign(resolver, table, name).spaces = new
       /\ SyncNextId(new) = ResolveOrAssign(resolver, table, name)
  BY <1>1, <1>2, <1>11
<1> DEFINE begun == RegisterIn(resolver, table, name).it
<1>13. begun.spaces = new /\ begun.next = N
  BY <1>1
<1>14. CASE done.next = N
  BY <1>1, <1>2, <1>12, <1>14
<1>15. CASE done.next # N
  <2>1. done.next > N
    BY <1>4, <1>6, <1>15
  <2> HIDE DEF begun
  <2>2. \E t \in DOMAIN begun.spaces : begun.spaces[t].next > begun.next
    BY <1>3, <1>7, <1>13, <2>1
  <2>3. Unsynced(begun)
    BY <2>2 DEF Unsynced
  <2> QED
    BY <1>12, <1>13, <2>3 DEF begun
<1> QED
  BY <1>14, <1>15

\* A call that hands an id out, on a resolver that has its counter, keeps all the ids.
LEMMA NameCallKeeps ==
  ASSUME NamesInv, ~ Unsynced(names), NEW table, NEW name,
         LET after == ResolveOrAssign(names, table, name) IN
           names'.spaces = after.spaces /\ (names' = after \/ Unsynced(names')),
         HandsOut(table, name)
  PROVE  NamesInv'
<1> DEFINE after == ResolveOrAssign(names, table, name)
<1>1. ResolverOk(names) /\ GivenOk(names, given)
  BY DEF NamesInv
<1>2. /\ ResolverOk(after)
      /\ \A t \in DOMAIN names.spaces :
           /\ t \in DOMAIN after.spaces
           /\ \A n \in DOMAIN names.spaces[t].toId :
                /\ n \in DOMAIN after.spaces[t].toId
                /\ after.spaces[t].toId[n] = names.spaces[t].toId[n]
  BY <1>1, ResolveOrAssignKeeps
<1>3. names'.spaces = after.spaces /\ SyncNextId(names'.spaces) = after
      /\ (names' = after \/ Unsynced(names'))
  BY <1>1, RegisterInIs
<1> HIDE DEF after
<1>4. ASSUME NEW g \in given'
      PROVE  /\ g = [table |-> g.table, name |-> g.name, id |-> g.id]
             /\ g.table \in DOMAIN after.spaces
             /\ g.name \in DOMAIN after.spaces[g.table].toId
             /\ after.spaces[g.table].toId[g.name] = g.id
  <2>1. CASE g \in given
    BY <1>1, <1>2, <2>1 DEF GivenOk
  <2>2. CASE g \in Given(names', table, name)
    BY <1>3, <2>2 DEF Given, Resolve
  <2> QED
    BY <2>1, <2>2 DEF HandsOut
<1>5. GivenOk(after, given')
  BY <1>4 DEF GivenOk
<1> QED
  BY <1>2, <1>3, <1>5 DEF NamesInv

\* A new loader has given out no id.
LEMMA NamesInvInit == ServicesInit => NamesInv /\ ~behind
<1> SUFFICES ASSUME ServicesInit PROVE NamesInv /\ ~behind
  OBVIOUS
<1>1. names = [spaces |-> <<>>, next |-> 0] /\ given = {}
  BY DEF ServicesInit, NewResolver
<1>2. {names.spaces[t].next : t \in DOMAIN names.spaces} \cup {0} = {0}
  BY <1>1
<1>3. Max({0}) = 0
  <2>1. Max({0}) \in {0}
    BY MaxIsGreatest
  <2> QED
    BY <2>1
<1>4. SyncNextId(names.spaces) = names
  BY <1>1, <1>2, <1>3 DEF SyncNextId
<1>5. ResolverOk(names) /\ GivenOk(names, given)
  BY <1>1 DEF ResolverOk, GivenOk
<1>6. ~behind
  BY DEF ServicesInit
<1> QED
  BY <1>4, <1>5, <1>6 DEF NamesInv

\* No step takes an id away or hands it out again, unless it assigns one while
\* the counter is behind.
LEMMA NamesInvNext ==
  ASSUME ~behind => NamesInv, [ServicesNext]_servicesVars
  PROVE  ~behind' => NamesInv'
<1> DEFINE Goal == ~behind' => NamesInv'
<1>0. NamesInv /\ ~ Unsynced(names) => ResolverOk(names)
  BY DEF NamesInv
<1>1. ASSUME NEW t, NEW n, RegisterAName(t, n) PROVE Goal
  <2> SUFFICES ASSUME ~behind' PROVE NamesInv'
    OBVIOUS
  <2>1. names' = RegisterIn(names, t, n).it /\ HandsOut(t, n)
    BY <1>1 DEF RegisterAName
  <2>3. ~ Unsynced(names) /\ NamesInv
    BY <2>1 DEF HandsOut
  <2>2. names'.spaces = ResolveOrAssign(names, t, n).spaces
        /\ (names' = ResolveOrAssign(names, t, n) \/ Unsynced(names'))
    BY <1>0, <2>1, <2>3, RegisterInIs
  <2> QED
    BY <2>1, <2>2, <2>3, NameCallKeeps
<1>2. ASSUME NEW t, NEW n, ResolveAName(t, n) PROVE Goal
  <2> SUFFICES ASSUME ~behind' PROVE NamesInv'
    OBVIOUS
  <2>1. names' = ResolveOrAssign(names, t, n) /\ HandsOut(t, n)
    BY <1>2 DEF ResolveAName
  <2>3. ~ Unsynced(names) /\ NamesInv
    BY <2>1 DEF HandsOut
  <2> QED
    BY <2>1, <2>3, NameCallKeeps
<1>7. ASSUME SyncNames PROVE Goal
  <2>1. names' = SyncNextId(names.spaces) /\ given' = given /\ behind' = behind
    BY <1>7 DEF SyncNames
  <2>2. names'.spaces = names.spaces
    BY <2>1 DEF SyncNextId
  <2>3. SyncNextId(names'.spaces) = names'
    BY <2>1, <2>2
  <2> QED
    BY <2>1, <2>3 DEF NamesInv
<1>3. ASSUME UNCHANGED naming PROVE Goal
  BY <1>3 DEF naming, NamesInv
<1>4. ASSUME LoadStep PROVE Goal
  <2>1. \/ \E t \in Table, n \in NameSet : RegisterAName(t, n) \/ ResolveAName(t, n)
        \/ SyncNames
        \/ UNCHANGED naming
    BY <1>4 DEF LoadStep, RemoveSpec, RegisterTable, ReplaceASpec, AddARelation, AddAnEdge,
       RemoveARelation, StoreMods, FreezeRegistry, LoadManifest, NewProcess, Export,
       CompileContent, Loading
  <2> QED
    BY <1>1, <1>2, <1>3, <1>7, <2>1
<1>5. ASSUME EngineStep PROVE Goal
  <2>1. UNCHANGED naming
    BY <1>5 DEF EngineStep, NewEngine, FreezeSchemaRegistry, ValidatePaths, ClearOps, ClearSqlLog,
       RegisterSqlTable, UnregisterSqlTable, RegisterTableSchema, ExecuteSqlWrite, ExecuteSql,
       SetEnabled, SetLegacyEnabled, PushDiffSummaries
  <2> QED
    BY <1>3, <2>1
<1>6. ASSUME UNCHANGED servicesVars PROVE Goal
  BY <1>3, <1>6 DEF servicesVars
<1> QED
  BY <1>4, <1>5, <1>6 DEF ServicesNext

\* NamesStable, for every set of tables and names, with registrations that are
\* followed by sync_next_id or not: until a name is assigned while the counter is
\* behind, no call of the content loader takes an id away from its name, or hands
\* one out twice, whatever namespace.
THEOREM NamesStayStable == ServicesSpec => []NamesStable
<1> DEFINE Inv == ~behind => NamesInv
<1>1. NamesInv => NamesStable
  <2> SUFFICES ASSUME NamesInv PROVE NamesStable
    OBVIOUS
  <2> DEFINE after == SyncNextId(names.spaces)
  <2>0. ResolverOk(after) /\ GivenOk(after, given) /\ after.spaces = names.spaces
    BY DEF NamesInv, SyncNextId
  <2> HIDE DEF after
  <2>1. ASSUME NEW g \in given
        PROVE  /\ Resolve(names, g.table, g.name) = {g.id}
               /\ NameOf(names, g.table, g.id) = {g.name}
    <3>1. /\ g.table \in DOMAIN names.spaces
          /\ g.name \in DOMAIN names.spaces[g.table].toId
          /\ names.spaces[g.table].toId[g.name] = g.id
      BY <2>0 DEF GivenOk
    <3>2. NamesOk(names.spaces[g.table], after.next)
      BY <2>0, <3>1 DEF ResolverOk
    <3>3. /\ g.id \in DOMAIN names.spaces[g.table].toName
          /\ names.spaces[g.table].toName[g.id] = g.name
      BY <3>1, <3>2 DEF NamesOk
    <3> QED
      BY <3>1, <3>3 DEF Resolve, NameOf
  <2>2. ASSUME NEW g \in given, NEW h \in given, g.id = h.id PROVE g = h
    <3>1. g.table = h.table
      BY <2>0, <2>2 DEF GivenOk, ResolverOk
    <3>2. g.name = h.name
      BY <2>1, <2>2, <3>1
    <3> QED
      BY <2>0, <2>2, <3>1, <3>2 DEF GivenOk
  <2> QED
    BY <2>1, <2>2 DEF NamesStable
<1>2. Inv => NamesStable
  BY <1>1 DEF NamesStable
<1>3. ServicesInit => Inv
  BY NamesInvInit
<1>4. Inv /\ [ServicesNext]_servicesVars => Inv'
  BY NamesInvNext
<1> QED
  BY <1>2, <1>3, <1>4, PTL DEF ServicesSpec

-----------------------------------------------------------------------------
(* The trails: the debug journals and the ring of summaries                *)

\* The trail holds the newest of all, up to the capacity.
Newest(trail, all) ==
  /\ IsSeq(trail) /\ IsSeq(all)
  /\ Len(trail) = (IF Len(all) < Capacity THEN Len(all) ELSE Capacity)
  /\ \A i \in 1 .. Len(trail) : trail[i] = all[(Len(all) - Len(trail)) + i]

\* What is wanted of the sent stands in the trail, in its order.
Stands(sent, wanted, trail) ==
  \E place \in [sent -> DOMAIN trail] :
    \A i, j \in sent : trail[place[i]] = wanted[i] /\ (i < j => place[i] < place[j])

TracedOf(sent) == {i \in DOMAIN sent : sent[i].traced}
LoggedOf(sent) == {i \in DOMAIN sent : sent[i].logged}
OpsOf(sent) == [i \in DOMAIN sent |-> WriteOp(sent[i].diff)]
DiffsOf(sent) == [i \in DOMAIN sent |-> sent[i].diff]
ParsedLog(log) == [i \in DOMAIN log |-> StatementToDiff(log[i])]

TrailInv ==
  /\ Newest(ops, recorded) /\ Newest(ring, pushed)
  /\ enabled \in BOOLEAN /\ IsSeq(submitted) /\ IsSeq(legacy.log)
  /\ legacy = [enabled |-> legacy.enabled, log |-> legacy.log]
  /\ \A i \in DOMAIN submitted :
       submitted[i] = Submitted(submitted[i].diff, submitted[i].traced, submitted[i].logged)
  /\ Stands(TracedOf(submitted), OpsOf(submitted), recorded)
  /\ Stands(LoggedOf(submitted), DiffsOf(submitted), ParsedLog(legacy.log))

\* The oldest entry makes room for a new one, and only when there is none.
LEMMA PushKeepsNewest ==
  ASSUME NEW trail, NEW all, NEW x, Newest(trail, all)
  PROVE  Newest(PushedEntry(trail, x), Append(all, x))
<1> DEFINE n == Len(trail)
           N == Len(all)
           more == Append(all, x)
<1>1. /\ n \in Nat /\ DOMAIN trail = 1 .. n /\ trail = [i \in 1 .. n |-> trail[i]]
      /\ N \in Nat /\ DOMAIN all = 1 .. N /\ IsSeq(trail) /\ IsSeq(all)
  BY SeqFacts DEF Newest
<1>2. Capacity \in Nat /\ Capacity >= 1
  BY ServicesAssumption
<1>3. /\ n = (IF N < Capacity THEN N ELSE Capacity)
      /\ \A i \in 1 .. n : trail[i] = all[(N - n) + i]
  BY DEF Newest
<1>4. /\ IsSeq(more) /\ Len(more) = N + 1 /\ more[N + 1] = x
      /\ \A i \in 1 .. N : more[i] = all[i]
  BY <1>1, SeqLonger
<1> HIDE DEF more
<1>5. CASE N < Capacity
  <2> DEFINE t == Append(trail, x)
  <2>1. PushedEntry(trail, x) = t
    BY <1>1, <1>2, <1>3, <1>5 DEF PushedEntry
  <2>2. /\ IsSeq(t) /\ Len(t) = n + 1 /\ t[n + 1] = x
        /\ \A i \in 1 .. n : t[i] = trail[i]
    BY <1>1, SeqLonger
  <2> HIDE DEF t
  <2>3. n = N
    BY <1>3, <1>5
  <2>4. ASSUME NEW i \in 1 .. n + 1 PROVE t[i] = more[((N + 1) - (n + 1)) + i]
    <3>1. ((N + 1) - (n + 1)) + i = i
      BY <1>1, <2>3
    <3>2. CASE i = n + 1
      BY <1>4, <2>2, <2>3, <3>1, <3>2
    <3>3. CASE i # n + 1
      <4>1. i \in 1 .. n /\ (N - n) + i = i
        BY <1>1, <2>3, <3>3
      <4> QED
        BY <1>3, <1>4, <2>2, <2>3, <3>1, <4>1
    <3> QED
      BY <3>2, <3>3
  <2>5. Len(t) = (IF Len(more) < Capacity THEN Len(more) ELSE Capacity)
    BY <1>1, <1>2, <1>4, <1>5, <2>2, <2>3
  <2> QED
    BY <1>4, <2>1, <2>2, <2>4, <2>5 DEF Newest, more
<1>6. CASE ~ (N < Capacity)
  <2> DEFINE r == Tail(trail)
             t == Append(r, x)
  <2>0. n = Capacity
    BY <1>3, <1>6
  <2>1. PushedEntry(trail, x) = t
    BY <1>2, <2>0 DEF PushedEntry
  <2>2. /\ Len(r) = n - 1 /\ n - 1 \in Nat /\ r = [i \in 1 .. n - 1 |-> r[i]]
        /\ \A i \in 1 .. n - 1 : r[i] = trail[i + 1]
    <3> DEFINE S == {trail[i] : i \in DOMAIN trail}
    <3>1. trail \in Seq(S)
      BY <1>1 DEF IsSeq
    <3> HIDE DEF S
    <3>2. trail # <<>> /\ n >= 1
      BY <1>1, <1>2, <2>0
    <3>3. r \in Seq(S) /\ Len(r) = n - 1
      BY <3>1, <3>2
    <3>4. n - 1 \in Nat
      BY <1>1, <3>2
    <3>5. \A i \in 1 .. n - 1 : r[i] = trail[i + 1]
      BY <3>1, <3>2
    <3> HIDE DEF r
    <3>6. r = [i \in 1 .. n - 1 |-> r[i]]
      BY <3>3
    <3> QED
      BY <3>3, <3>4, <3>5, <3>6
  <2>3. IsSeq(r)
    <3>1. PICK m \in Nat : m = n - 1
      BY <2>2
    <3> HIDE DEF r
    <3>2. r = [i \in 1 .. m |-> r[i]]
      BY <2>2, <3>1
    <3> QED
      BY <3>2, SeqIntro
  <2> HIDE DEF r
  <2>4. /\ IsSeq(t) /\ Len(t) = n /\ t[n] = x
        /\ \A i \in 1 .. n - 1 : t[i] = r[i]
    <3>1. /\ IsSeq(t) /\ Len(t) = Len(r) + 1 /\ t[Len(r) + 1] = x
          /\ \A i \in 1 .. Len(r) : t[i] = r[i]
      BY <2>3, SeqLonger
    <3> HIDE DEF t
    <3>2. Len(r) + 1 = n
      BY <1>1, <2>2
    <3> QED
      BY <2>2, <3>1, <3>2
  <2> HIDE DEF t
  <2>5. ASSUME NEW i \in 1 .. n PROVE t[i] = more[((N + 1) - n) + i]
    <3>1. CASE i = n
      <4>1. ((N + 1) - n) + i = N + 1
        BY <1>1, <3>1
      <4> QED
        BY <1>4, <2>4, <3>1, <4>1
    <3>2. CASE i # n
      <4>1. /\ i \in 1 .. n - 1 /\ i + 1 \in 1 .. n
            /\ ((N + 1) - n) + i = (N - n) + (i + 1) /\ (N - n) + (i + 1) \in 1 .. N
        <5>1. n \in Nat /\ N \in Nat /\ n <= N
          BY <1>1, <1>2, <1>6, <2>0
        <5>2. i \in 1 .. n - 1 /\ i + 1 \in 1 .. n
          BY <5>1, <3>2
        <5>3. \A k \in 1 .. n : (N - n) + k \in 1 .. N
          BY <5>1
        <5>4. ((N + 1) - n) + i = (N - n) + (i + 1)
          BY <5>1
        <5> QED
          BY <5>2, <5>3, <5>4
      <4>2. t[i] = trail[i + 1]
        BY <2>2, <2>4, <4>1
      <4>3. trail[i + 1] = all[(N - n) + (i + 1)]
        BY <1>3, <4>1
      <4>4. more[(N - n) + (i + 1)] = all[(N - n) + (i + 1)]
        BY <1>4, <4>1
      <4> QED
        BY <4>1, <4>2, <4>3, <4>4
    <3> QED
      BY <3>1, <3>2
  <2>6. Len(t) = (IF Len(more) < Capacity THEN Len(more) ELSE Capacity)
    BY <1>1, <1>2, <1>4, <1>6, <2>0, <2>4
  <2> QED
    BY <1>4, <2>1, <2>4, <2>5, <2>6 DEF Newest, more
<1> QED
  BY <1>5, <1>6

\* A batch of summaries, one after another.
LEMMA BatchKeepsNewest ==
  ASSUME NEW trail, NEW all, NEW batch, Newest(trail, all), IsSeq(batch)
  PROVE  Newest(FoldLeft(PushedEntry, trail, batch), all \o batch)
<1> DEFINE n == Len(batch)
           First(k) == [i \in 1 .. Len(all) + k |->
                          IF i <= Len(all) THEN all[i] ELSE batch[i - Len(all)]]
<1>1. PICK c : /\ LoopRounds(<<"entry">>, c, trail, batch)
               /\ FoldLeft(PushedEntry, trail, batch) = c[n]
  BY EntryLoop
<1>2. /\ n \in Nat /\ DOMAIN batch = 1 .. n /\ IsSeq(all)
      /\ Len(all) \in Nat /\ DOMAIN all = 1 .. Len(all) /\ all = [i \in 1 .. Len(all) |-> all[i]]
  BY SeqFacts DEF Newest
<1> DEFINE G == {k \in 0 .. n : Newest(c[k], First(k))}
<1>3. 0 \in G
  <2>1. First(0) = all
    BY <1>2
  <2> HIDE DEF First
  <2> QED
    BY <1>1, <1>2, <2>1 DEF LoopRounds
<1>4. ASSUME NEW k \in 1 .. n, k - 1 \in G PROVE k \in G
  <2>1. c[k] = PushedEntry(c[k - 1], batch[k])
    BY <1>1 DEF LoopRounds, LoopBody
  <2>2. Newest(c[k - 1], First(k - 1))
    BY <1>4
  <2>3. First(k) = Append(First(k - 1), batch[k])
    <3> DEFINE f == First(k - 1)
               m == Len(all) + (k - 1)
    <3>1. m \in Nat /\ Len(all) + k = m + 1 /\ (m + 1) - Len(all) = k /\ ~ (m + 1 <= Len(all))
      BY <1>2
    <3>2. f = [i \in 1 .. m |-> f[i]]
          /\ \A i \in 1 .. m : f[i] = IF i <= Len(all) THEN all[i] ELSE batch[i - Len(all)]
      OBVIOUS
    <3>3. /\ First(k) = [i \in 1 .. m + 1 |-> First(k)[i]]
          /\ First(k)[m + 1] = batch[k]
          /\ \A i \in 1 .. m : First(k)[i] = f[i]
      BY <3>1
    <3>4. IsSeq(f) /\ Len(f) = m
      <4> HIDE DEF f
      <4> QED
        BY <3>1, <3>2, SeqIntro
    <3> HIDE DEF f
    <3> DEFINE a == Append(f, batch[k])
    <3>5. /\ IsSeq(a) /\ Len(a) = m + 1 /\ a[m + 1] = batch[k]
          /\ \A i \in 1 .. m : a[i] = f[i]
      BY <3>4, SeqLonger
    <3>6. a = [i \in 1 .. m + 1 |-> a[i]]
      <4> HIDE DEF a
      <4> QED
        BY <3>5, SeqFacts
    <3> HIDE DEF a, First
    <3>7. \A i \in 1 .. m + 1 : First(k)[i] = a[i]
      <4>1. \A i \in 1 .. m + 1 : i = m + 1 \/ i \in 1 .. m
        BY <3>1
      <4> QED
        BY <3>3, <3>5, <4>1
    <3>8. First(k) = a
      BY <3>3, <3>6, <3>7
    <3> QED
      BY <3>8 DEF a, f
  <2> HIDE DEF First
  <2>4. Newest(PushedEntry(c[k - 1], batch[k]), Append(First(k - 1), batch[k]))
    BY <2>2, PushKeepsNewest
  <2>5. k \in 0 .. n
    OBVIOUS
  <2> QED
    BY <2>1, <2>3, <2>4, <2>5
<1> HIDE DEF G
<1>5. \A k \in 0 .. n : k \in G
  BY <1>2, <1>3, <1>4, UpTo
<1>6. Newest(c[n], First(n))
  <2>1. n \in G
    BY <1>2, <1>5
  <2> HIDE DEF First, n
  <2> QED
    BY <2>1 DEF G
<1>7. First(n) = all \o batch
  <2> DEFINE S == {all[i] : i \in DOMAIN all} \cup {batch[i] : i \in DOMAIN batch}
  <2>1. all \in Seq(S) /\ batch \in Seq(S)
    BY <1>2 DEF IsSeq
  <2> HIDE DEF S
  <2> DEFINE w == all \o batch
  <2>2. w \in Seq(S) /\ Len(w) = Len(all) + n
    BY <2>1
  <2>3. \A i \in 1 .. Len(all) + n :
          w[i] = IF i <= Len(all) THEN all[i] ELSE batch[i - Len(all)]
    BY <1>2, <2>1
  <2> HIDE DEF w
  <2>4. w = [i \in 1 .. Len(all) + n |-> w[i]]
    BY <2>2
  <2>5. w = First(n)
    BY <2>3, <2>4
  <2> QED
    BY <2>5 DEF w
<1> QED
  BY <1>1, <1>6, <1>7

\* What stands in a trail still stands there when it has grown.
LEMMA StandsLonger ==
  ASSUME NEW sent, NEW wanted, NEW trail, Stands(sent, wanted, trail),
         NEW want2, \A i \in sent : want2[i] = wanted[i],
         NEW longer, DOMAIN trail \subseteq DOMAIN longer,
         \A i \in DOMAIN trail : longer[i] = trail[i]
  PROVE  Stands(sent, want2, longer)
<1>1. PICK place \in [sent -> DOMAIN trail] :
        \A i, j \in sent : trail[place[i]] = wanted[i] /\ (i < j => place[i] < place[j])
  BY DEF Stands
<1>2. place \in [sent -> DOMAIN longer]
  OBVIOUS
<1>3. \A i \in sent : longer[place[i]] = want2[i]
  BY <1>1
<1> QED
  BY <1>1, <1>2, <1>3 DEF Stands

\* And one entry more stands at its new end.
LEMMA StandsOneMore ==
  ASSUME NEW n \in Nat, NEW m \in Nat, NEW sent \in SUBSET (1 .. n),
         NEW wanted, NEW trail, Stands(sent, wanted, trail), DOMAIN trail = 1 .. m,
         NEW want2, \A i \in sent : want2[i] = wanted[i],
         NEW longer, DOMAIN longer = 1 .. m + 1, \A i \in 1 .. m : longer[i] = trail[i],
         longer[m + 1] = want2[n + 1]
  PROVE  Stands(sent \cup {n + 1}, want2, longer)
<1>1. PICK place \in [sent -> DOMAIN trail] :
        \A i, j \in sent : trail[place[i]] = wanted[i] /\ (i < j => place[i] < place[j])
  BY DEF Stands
<1> DEFINE more == sent \cup {n + 1}
           put == [i \in more |-> IF i = n + 1 THEN m + 1 ELSE place[i]]
<1>2. \A i \in sent : i \in 1 .. n /\ i # n + 1 /\ place[i] \in 1 .. m
  OBVIOUS
<1>3. \A i \in more : put[i] = IF i = n + 1 THEN m + 1 ELSE place[i]
  OBVIOUS
<1>4. put \in [more -> DOMAIN longer]
  <2>1. \A i \in more : put[i] \in 1 .. m + 1
    BY <1>2, <1>3
  <2> QED
    BY <2>1
<1> HIDE DEF put
<1>5. ASSUME NEW i \in more PROVE longer[put[i]] = want2[i]
  <2>1. CASE i = n + 1
    BY <1>3, <2>1
  <2>2. CASE i # n + 1
    <3>1. i \in sent /\ put[i] = place[i] /\ place[i] \in 1 .. m
      BY <1>2, <1>3, <2>2
    <3> QED
      BY <1>1, <3>1
  <2> QED
    BY <2>1, <2>2
<1>6. ASSUME NEW i \in more, NEW j \in more, i < j PROVE put[i] < put[j]
  <2>1. i # n + 1
    <3>1. i = n + 1 => ~ (n + 1 < j)
      BY <1>2
    <3> QED
      BY <1>6, <3>1
  <2>2. i \in sent /\ put[i] = place[i] /\ place[i] \in 1 .. m
    BY <1>2, <1>3, <2>1
  <2>3. CASE j = n + 1
    BY <1>3, <2>2, <2>3
  <2>4. CASE j # n + 1
    BY <1>1, <1>3, <1>6, <2>2, <2>4
  <2> QED
    BY <2>3, <2>4
<1> QED
  BY <1>4, <1>5, <1>6 DEF Stands

\* A diff more that was submitted.
LEMMA SubmittedMore ==
  ASSUME NEW old, IsSeq(old), NEW x, x = Submitted(x.diff, x.traced, x.logged),
         \A i \in DOMAIN old : old[i] = Submitted(old[i].diff, old[i].traced, old[i].logged)
  PROVE  LET new == Append(old, x)
             n == Len(old)
         IN  /\ IsSeq(new) /\ n \in Nat
             /\ TracedOf(old) \in SUBSET (1 .. n) /\ LoggedOf(old) \in SUBSET (1 .. n)
             /\ x.traced = TRUE => TracedOf(new) = TracedOf(old) \cup {n + 1}
             /\ x.traced = FALSE => TracedOf(new) = TracedOf(old)
             /\ x.logged = TRUE => LoggedOf(new) = LoggedOf(old) \cup {n + 1}
             /\ x.logged = FALSE => LoggedOf(new) = LoggedOf(old)
             /\ \A i \in 1 .. n : OpsOf(new)[i] = OpsOf(old)[i] /\ DiffsOf(new)[i] = DiffsOf(old)[i]
             /\ OpsOf(new)[n + 1] = WriteOp(x.diff) /\ DiffsOf(new)[n + 1] = x.diff
             /\ \A i \in DOMAIN new : new[i] = Submitted(new[i].diff, new[i].traced, new[i].logged)
<1> DEFINE new == Append(old, x)
           n == Len(old)
<1>1. /\ IsSeq(new) /\ Len(new) = n + 1 /\ new[n + 1] = x
      /\ \A i \in 1 .. n : new[i] = old[i]
  BY SeqLonger
<1> HIDE DEF new
<1>2. n \in Nat /\ DOMAIN old = 1 .. n /\ DOMAIN new = 1 .. n + 1
  BY <1>1, SeqFacts
<1>4. DOMAIN new = DOMAIN old \cup {n + 1} /\ n + 1 \notin DOMAIN old
  BY <1>2
<1>5. /\ x.traced = TRUE => TracedOf(new) = TracedOf(old) \cup {n + 1}
      /\ x.traced = FALSE => TracedOf(new) = TracedOf(old)
  BY <1>1, <1>2, <1>4 DEF TracedOf
<1>6. /\ x.logged = TRUE => LoggedOf(new) = LoggedOf(old) \cup {n + 1}
      /\ x.logged = FALSE => LoggedOf(new) = LoggedOf(old)
  BY <1>1, <1>2, <1>4 DEF LoggedOf
<1>7. \A i \in 1 .. n : OpsOf(new)[i] = OpsOf(old)[i] /\ DiffsOf(new)[i] = DiffsOf(old)[i]
  BY <1>1, <1>2, <1>4 DEF OpsOf, DiffsOf
<1>8. OpsOf(new)[n + 1] = WriteOp(x.diff) /\ DiffsOf(new)[n + 1] = x.diff
  BY <1>1, <1>4 DEF OpsOf, DiffsOf
<1>9. \A i \in DOMAIN new : new[i] = Submitted(new[i].diff, new[i].traced, new[i].logged)
  BY <1>1, <1>2, <1>4
<1>10. TracedOf(old) \in SUBSET (1 .. n) /\ LoggedOf(old) \in SUBSET (1 .. n)
  BY <1>2 DEF TracedOf, LoggedOf
<1> QED
  BY <1>1, <1>2, <1>5, <1>6, <1>7, <1>8, <1>9, <1>10 DEF new

\* What a log parses to, with one statement more.
LEMMA LogLonger ==
  ASSUME NEW log, IsSeq(log), NEW sql
  PROVE  LET m == Len(log)
             trail == ParsedLog(log)
             longer == ParsedLog(Append(log, sql))
         IN  /\ IsSeq(Append(log, sql)) /\ m \in Nat
             /\ DOMAIN trail = 1 .. m /\ DOMAIN longer = 1 .. m + 1
             /\ \A i \in 1 .. m : longer[i] = trail[i]
             /\ longer[m + 1] = StatementToDiff(sql)
<1> DEFINE m == Len(log)
           new == Append(log, sql)
<1>1. /\ IsSeq(new) /\ Len(new) = m + 1 /\ new[m + 1] = sql
      /\ \A i \in 1 .. m : new[i] = log[i]
  BY SeqLonger
<1> HIDE DEF new
<1>2. m \in Nat /\ DOMAIN log = 1 .. m /\ DOMAIN new = 1 .. m + 1
  BY <1>1, SeqFacts
<1>3. /\ DOMAIN ParsedLog(log) = 1 .. m /\ DOMAIN ParsedLog(new) = 1 .. m + 1
      /\ \A i \in 1 .. m : ParsedLog(log)[i] = StatementToDiff(log[i])
      /\ \A i \in 1 .. m + 1 : ParsedLog(new)[i] = StatementToDiff(new[i])
  BY <1>2 DEF ParsedLog
<1>4. \A i \in 1 .. m : i \in 1 .. m + 1
  BY <1>2
<1>5. m + 1 \in 1 .. m + 1
  BY <1>2
<1> QED
  BY <1>1, <1>2, <1>3, <1>4, <1>5 DEF new

\* A trail without a trace of anything.
LEMMA NothingStands ==
  ASSUME NEW wanted, NEW trail
  PROVE  Stands({}, wanted, trail)
<1> DEFINE place == [i \in {} |-> i]
<1>1. place \in [{} -> DOMAIN trail]
  OBVIOUS
<1> QED
  BY <1>1 DEF Stands

\* New trails are empty.
LEMMA TrailInvInit == ServicesInit => TrailInv
<1> SUFFICES ASSUME ServicesInit PROVE TrailInv
  OBVIOUS
<1>1. IsSeq(<<>>) /\ Len(<<>>) = 0 /\ DOMAIN <<>> = {}
  BY DEF IsSeq
<1>2. Newest(<<>>, <<>>)
  BY <1>1, ServicesAssumption DEF Newest
<1>3. /\ enabled = TRUE /\ ops = <<>> /\ recorded = <<>> /\ submitted = <<>>
      /\ ring = <<>> /\ pushed = <<>> /\ legacy = [enabled |-> TRUE, log |-> <<>>]
  BY DEF ServicesInit
<1>4. TracedOf(submitted) = {} /\ LoggedOf(submitted) = {}
  BY <1>1, <1>3 DEF TracedOf, LoggedOf
<1> QED
  BY <1>1, <1>2, <1>3, <1>4, NothingStands DEF TrailInv

\* execute_sql_write records before it submits.
LEMMA SqlWriteKeepsTrails ==
  ASSUME TrailInv, NEW sql, NEW accepted \in BOOLEAN, ExecuteSqlWrite(sql, accepted)
  PROVE  TrailInv'
<1> DEFINE diff == StatementToDiff(sql)
           op == WriteOp(diff)
           n == Len(submitted)
           m == Len(recorded)
           more == Append(submitted, Submitted(diff, enabled, FALSE))
<1>1. /\ UNCHANGED <<enabled, ring, pushed, legacy>>
      /\ enabled => ops' = PushedEntry(ops, op) /\ recorded' = Append(recorded, op)
      /\ ~enabled => UNCHANGED <<ops, recorded>>
      /\ submitted' = IF accepted THEN more ELSE submitted
  BY DEF ExecuteSqlWrite
<1>2. /\ enabled \in BOOLEAN /\ IsSeq(submitted) /\ IsSeq(recorded) /\ Newest(ops, recorded)
      /\ \A i \in DOMAIN submitted :
           submitted[i] = Submitted(submitted[i].diff, submitted[i].traced, submitted[i].logged)
      /\ Stands(TracedOf(submitted), OpsOf(submitted), recorded)
      /\ Stands(LoggedOf(submitted), DiffsOf(submitted), ParsedLog(legacy.log))
  BY DEF TrailInv, Newest
<1>3. /\ IsSeq(more) /\ n \in Nat
      /\ TracedOf(submitted) \in SUBSET (1 .. n) /\ LoggedOf(submitted) \in SUBSET (1 .. n)
      /\ TracedOf(more) = IF enabled THEN TracedOf(submitted) \cup {n + 1} ELSE TracedOf(submitted)
      /\ LoggedOf(more) = LoggedOf(submitted)
      /\ \A i \in 1 .. n : /\ OpsOf(more)[i] = OpsOf(submitted)[i]
                           /\ DiffsOf(more)[i] = DiffsOf(submitted)[i]
      /\ OpsOf(more)[n + 1] = op
      /\ \A i \in DOMAIN more : more[i] = Submitted(more[i].diff, more[i].traced, more[i].logged)
  <2>0. /\ IsSeq(submitted)
        /\ \A i \in DOMAIN submitted :
             submitted[i] = Submitted(submitted[i].diff, submitted[i].traced, submitted[i].logged)
    BY <1>2
  <2>1. PICK x : x = Submitted(diff, enabled, FALSE)
    OBVIOUS
  <2>2. /\ x = Submitted(x.diff, x.traced, x.logged) /\ x.diff = diff
        /\ x.traced = enabled /\ x.logged = FALSE
    BY <2>1 DEF Submitted
  <2>3. more = Append(submitted, x)
    BY <2>1
  <2> HIDE DEF more, diff, n, m
  <2>4. /\ IsSeq(more) /\ n \in Nat
        /\ TracedOf(submitted) \in SUBSET (1 .. n) /\ LoggedOf(submitted) \in SUBSET (1 .. n)
        /\ x.traced = TRUE => TracedOf(more) = TracedOf(submitted) \cup {n + 1}
        /\ x.traced = FALSE => TracedOf(more) = TracedOf(submitted)
        /\ x.logged = FALSE => LoggedOf(more) = LoggedOf(submitted)
        /\ \A i \in 1 .. n : /\ OpsOf(more)[i] = OpsOf(submitted)[i]
                             /\ DiffsOf(more)[i] = DiffsOf(submitted)[i]
        /\ OpsOf(more)[n + 1] = WriteOp(x.diff)
        /\ \A i \in DOMAIN more : more[i] = Submitted(more[i].diff, more[i].traced, more[i].logged)
    <3>1. IsSeq(more) /\ n \in Nat
      BY <2>0, <2>2, <2>3, SubmittedMore DEF n
    <3>2. TracedOf(submitted) \in SUBSET (1 .. n) /\ LoggedOf(submitted) \in SUBSET (1 .. n)
      BY <2>0, <2>2, <2>3, SubmittedMore DEF n
    <3>3. x.traced = TRUE => TracedOf(more) = TracedOf(submitted) \cup {n + 1}
      BY <2>0, <2>2, <2>3, SubmittedMore DEF n
    <3>4. x.traced = FALSE => TracedOf(more) = TracedOf(submitted)
      BY <2>0, <2>2, <2>3, SubmittedMore DEF n
    <3>5. x.logged = FALSE => LoggedOf(more) = LoggedOf(submitted)
      BY <2>0, <2>2, <2>3, SubmittedMore DEF n
    <3>6. ASSUME NEW i \in 1 .. n
          PROVE  OpsOf(more)[i] = OpsOf(submitted)[i] /\ DiffsOf(more)[i] = DiffsOf(submitted)[i]
      <4>1. x = Submitted(x.diff, x.traced, x.logged)
        BY <2>2
      <4>2. OpsOf(more)[i] = OpsOf(submitted)[i]
        BY <2>0, <2>3, <4>1, SubmittedMore DEF n
      <4>3. DiffsOf(more)[i] = DiffsOf(submitted)[i]
        BY <2>0, <2>3, <4>1, SubmittedMore DEF n
      <4> QED
        BY <4>2, <4>3
    <3>7. OpsOf(more)[n + 1] = WriteOp(x.diff)
      BY <2>0, <2>2, <2>3, SubmittedMore DEF n
    <3>8. \A i \in DOMAIN more : more[i] = Submitted(more[i].diff, more[i].traced, more[i].logged)
      BY <2>0, <2>2, <2>3, SubmittedMore DEF n
    <3> QED
      BY <3>1, <3>2, <3>3, <3>4, <3>5, <3>6, <3>7, <3>8
  <2>5. TracedOf(more) = IF enabled THEN TracedOf(submitted) \cup {n + 1} ELSE TracedOf(submitted)
    BY <1>2, <2>2, <2>4
  <2> QED
    BY <2>2, <2>4, <2>5
<1> HIDE DEF more, diff
<1>4. Newest(ops', recorded')
  BY <1>1, <1>2, PushKeepsNewest
<1>5. /\ m \in Nat /\ DOMAIN recorded = 1 .. m
      /\ enabled => /\ DOMAIN recorded' = 1 .. m + 1 /\ recorded'[m + 1] = op
                    /\ \A i \in 1 .. m : recorded'[i] = recorded[i]
  <2>1. m \in Nat /\ DOMAIN recorded = 1 .. m
    BY <1>2, SeqFacts
  <2>2. CASE enabled
    <3>1. /\ IsSeq(recorded') /\ Len(recorded') = m + 1 /\ recorded'[m + 1] = op
          /\ \A i \in 1 .. m : recorded'[i] = recorded[i]
      <4>1. recorded' = Append(recorded, op)
        BY <1>1, <2>2
      <4> HIDE DEF op
      <4> QED
        BY <1>2, <4>1, SeqLonger
    <3>2. DOMAIN recorded' = 1 .. m + 1
      BY <3>1, SeqFacts
    <3> QED
      BY <2>1, <3>1, <3>2
  <2> QED
    BY <2>1, <2>2
<1>6. /\ IsSeq(submitted')
      /\ \A i \in DOMAIN submitted' :
           submitted'[i] = Submitted(submitted'[i].diff, submitted'[i].traced, submitted'[i].logged)
  BY <1>1, <1>2, <1>3
<1>7. Stands(TracedOf(submitted'), OpsOf(submitted'), recorded')
  <2>1. CASE enabled /\ accepted
    <3>1. Stands(TracedOf(submitted) \cup {n + 1}, OpsOf(more), recorded')
      <4>1. \A i \in TracedOf(submitted) : OpsOf(more)[i] = OpsOf(submitted)[i]
        BY <1>3
      <4> HIDE DEF op, n, m
      <4> QED
        BY <1>2, <1>3, <1>5, <2>1, <4>1, StandsOneMore
    <3> QED
      BY <1>1, <1>3, <2>1, <3>1
  <2>2. CASE enabled /\ ~accepted
    <3>1. DOMAIN recorded \subseteq DOMAIN recorded'
      BY <1>5, <2>2
    <3> QED
      BY <1>1, <1>2, <1>5, <2>2, <3>1, StandsLonger
  <2>3. CASE ~enabled
    <3>1. \A i \in TracedOf(submitted) : OpsOf(more)[i] = OpsOf(submitted)[i]
      BY <1>3
    <3>2. Stands(TracedOf(submitted), OpsOf(more), recorded)
      BY <1>2, <3>1, StandsLonger
    <3> QED
      BY <1>1, <1>2, <1>3, <2>3, <3>2
  <2> QED
    BY <2>1, <2>2, <2>3
<1>8. Stands(LoggedOf(submitted'), DiffsOf(submitted'), ParsedLog(legacy'.log))
  <2>1. \A i \in LoggedOf(submitted) : DiffsOf(more)[i] = DiffsOf(submitted)[i]
    BY <1>3
  <2>2. Stands(LoggedOf(submitted), DiffsOf(more), ParsedLog(legacy.log))
    BY <1>2, <2>1, StandsLonger
  <2> QED
    BY <1>1, <1>2, <1>3, <2>2
<1> QED
  BY <1>1, <1>4, <1>6, <1>7, <1>8 DEF TrailInv

\* execute_sql logs before it parses and submits.
LEMMA LegacySqlKeepsTrails ==
  ASSUME TrailInv, NEW sql, NEW accepted \in BOOLEAN, ExecuteSql(sql, accepted)
  PROVE  TrailInv'
<1> DEFINE diff == StatementToDiff(sql)
           n == Len(submitted)
           m == Len(legacy.log)
           more == Append(submitted, Submitted(diff, FALSE, TRUE))
           log == Append(legacy.log, sql)
<1>1. /\ UNCHANGED <<enabled, ops, recorded, ring, pushed>>
      /\ legacy' = [legacy EXCEPT !.log = Append(@, sql)]
      /\ submitted' = more \/ submitted' = submitted
  BY DEF ExecuteSql
<1>2. /\ IsSeq(submitted) /\ IsSeq(legacy.log)
      /\ legacy = [enabled |-> legacy.enabled, log |-> legacy.log]
      /\ \A i \in DOMAIN submitted :
           submitted[i] = Submitted(submitted[i].diff, submitted[i].traced, submitted[i].logged)
      /\ Stands(TracedOf(submitted), OpsOf(submitted), recorded)
      /\ Stands(LoggedOf(submitted), DiffsOf(submitted), ParsedLog(legacy.log))
  BY DEF TrailInv
<1>3. /\ IsSeq(more) /\ n \in Nat
      /\ TracedOf(submitted) \in SUBSET (1 .. n) /\ LoggedOf(submitted) \in SUBSET (1 .. n)
      /\ TracedOf(more) = TracedOf(submitted)
      /\ LoggedOf(more) = LoggedOf(submitted) \cup {n + 1}
      /\ \A i \in 1 .. n : /\ OpsOf(more)[i] = OpsOf(submitted)[i]
                           /\ DiffsOf(more)[i] = DiffsOf(submitted)[i]
      /\ DiffsOf(more)[n + 1] = diff
      /\ \A i \in DOMAIN more : more[i] = Submitted(more[i].diff, more[i].traced, more[i].logged)
  <2>0. /\ IsSeq(submitted)
        /\ \A i \in DOMAIN submitted :
             submitted[i] = Submitted(submitted[i].diff, submitted[i].traced, submitted[i].logged)
    BY <1>2
  <2>1. PICK x : x = Submitted(diff, FALSE, TRUE)
    OBVIOUS
  <2>2. /\ x = Submitted(x.diff, x.traced, x.logged) /\ x.diff = diff
        /\ x.traced = FALSE /\ x.logged = TRUE
    BY <2>1 DEF Submitted
  <2>3. more = Append(submitted, x)
    BY <2>1
  <2> HIDE DEF more, diff, n, m, log
  <2>4. /\ IsSeq(more) /\ n \in Nat
        /\ TracedOf(submitted) \in SUBSET (1 .. n) /\ LoggedOf(submitted) \in SUBSET (1 .. n)
        /\ x.traced = FALSE => TracedOf(more) = TracedOf(submitted)
        /\ x.logged = TRUE => LoggedOf(more) = LoggedOf(submitted) \cup {n + 1}
        /\ \A i \in 1 .. n : /\ OpsOf(more)[i] = OpsOf(submitted)[i]
                             /\ DiffsOf(more)[i] = DiffsOf(submitted)[i]
        /\ DiffsOf(more)[n + 1] = x.diff
        /\ \A i \in DOMAIN more : more[i] = Submitted(more[i].diff, more[i].traced, more[i].logged)
    <3>1. IsSeq(more) /\ n \in Nat
      BY <2>0, <2>2, <2>3, SubmittedMore DEF n
    <3>2. TracedOf(submitted) \in SUBSET (1 .. n) /\ LoggedOf(submitted) \in SUBSET (1 .. n)
      BY <2>0, <2>2, <2>3, SubmittedMore DEF n
    <3>3. x.traced = FALSE => TracedOf(more) = TracedOf(submitted)
      BY <2>0, <2>2, <2>3, SubmittedMore DEF n
    <3>4. x.logged = TRUE => LoggedOf(more) = LoggedOf(submitted) \cup {n + 1}
      BY <2>0, <2>2, <2>3, SubmittedMore DEF n
    <3>5. ASSUME NEW i \in 1 .. n
          PROVE  OpsOf(more)[i] = OpsOf(submitted)[i] /\ DiffsOf(more)[i] = DiffsOf(submitted)[i]
      <4>1. x = Submitted(x.diff, x.traced, x.logged)
        BY <2>2
      <4>2. OpsOf(more)[i] = OpsOf(submitted)[i]
        BY <2>0, <2>3, <4>1, SubmittedMore DEF n
      <4>3. DiffsOf(more)[i] = DiffsOf(submitted)[i]
        BY <2>0, <2>3, <4>1, SubmittedMore DEF n
      <4> QED
        BY <4>2, <4>3
    <3>6. DiffsOf(more)[n + 1] = x.diff
      BY <2>0, <2>2, <2>3, SubmittedMore DEF n
    <3>7. \A i \in DOMAIN more : more[i] = Submitted(more[i].diff, more[i].traced, more[i].logged)
      BY <2>0, <2>2, <2>3, SubmittedMore DEF n
    <3> QED
      BY <3>1, <3>2, <3>3, <3>4, <3>5, <3>6, <3>7
  <2> QED
    BY <2>2, <2>4
<1>4. /\ legacy'.log = log /\ legacy'.enabled = legacy.enabled
      /\ legacy' = [enabled |-> legacy'.enabled, log |-> legacy'.log]
  BY <1>1, <1>2
<1>5. /\ IsSeq(log) /\ m \in Nat
      /\ DOMAIN ParsedLog(legacy.log) = 1 .. m /\ DOMAIN ParsedLog(log) = 1 .. m + 1
      /\ \A i \in 1 .. m : ParsedLog(log)[i] = ParsedLog(legacy.log)[i]
      /\ ParsedLog(log)[m + 1] = diff
  BY <1>2, LogLonger
<1> HIDE DEF more, diff, log, n, m
<1>6. \A i \in LoggedOf(submitted) : DiffsOf(more)[i] = DiffsOf(submitted)[i]
  BY <1>3
<1>7. \A i \in TracedOf(submitted) : OpsOf(more)[i] = OpsOf(submitted)[i]
  BY <1>3
<1>8. Stands(TracedOf(submitted'), OpsOf(submitted'), recorded')
  <2>1. Stands(TracedOf(submitted), OpsOf(more), recorded)
    BY <1>2, <1>7, StandsLonger
  <2> QED
    BY <1>1, <1>2, <1>3, <2>1
<1>9. Stands(LoggedOf(submitted'), DiffsOf(submitted'), ParsedLog(legacy'.log))
  <2>1. CASE submitted' = more
    <3>1. Stands(LoggedOf(submitted) \cup {n + 1}, DiffsOf(more), ParsedLog(log))
      BY <1>2, <1>3, <1>5, <1>6, StandsOneMore
    <3> QED
      BY <1>3, <1>4, <2>1, <3>1
  <2>2. CASE submitted' = submitted
    <3>1. 1 .. m \subseteq 1 .. m + 1
      BY <1>5
    <3>2. Stands(LoggedOf(submitted), DiffsOf(submitted), ParsedLog(log))
      BY <1>2, <1>5, <3>1, StandsLonger
    <3> QED
      BY <1>4, <2>2, <3>2
  <2> QED
    BY <1>1, <2>1, <2>2
<1>10. /\ IsSeq(submitted') /\ IsSeq(legacy'.log)
       /\ \A i \in DOMAIN submitted' :
            submitted'[i] = Submitted(submitted'[i].diff, submitted'[i].traced, submitted'[i].logged)
  BY <1>1, <1>2, <1>3, <1>4, <1>5
<1> QED
  BY <1>1, <1>4, <1>8, <1>9, <1>10 DEF TrailInv

\* clear: what was submitted no longer has a trace to show.
LEMMA ClearsKeepTrails ==
  ASSUME TrailInv, ClearOps \/ ClearSqlLog
  PROVE  TrailInv'
<1>0. /\ IsSeq(submitted) /\ IsSeq(legacy.log)
      /\ legacy = [enabled |-> legacy.enabled, log |-> legacy.log]
      /\ \A i \in DOMAIN submitted :
           submitted[i] = Submitted(submitted[i].diff, submitted[i].traced, submitted[i].logged)
      /\ Stands(TracedOf(submitted), OpsOf(submitted), recorded)
      /\ Stands(LoggedOf(submitted), DiffsOf(submitted), ParsedLog(legacy.log))
  BY DEF TrailInv
<1>1. IsSeq(<<>>) /\ Len(<<>>) = 0 /\ Newest(<<>>, <<>>)
  <2>1. IsSeq(<<>>) /\ Len(<<>>) = 0
    BY DEF IsSeq
  <2> QED
    BY <2>1, ServicesAssumption DEF Newest
<1>2. ASSUME DOMAIN submitted' = DOMAIN submitted,
             submitted' = [i \in DOMAIN submitted |-> submitted'[i]]
      PROVE  IsSeq(submitted')
  <2>1. Len(submitted) \in Nat /\ DOMAIN submitted = 1 .. Len(submitted)
    BY <1>0, SeqFacts
  <2> QED
    BY <1>2, <2>1, SeqIntro
<1>3. CASE ClearOps
  <2>1. /\ ops' = <<>> /\ recorded' = <<>> /\ UNCHANGED <<enabled, ring, pushed, legacy>>
        /\ submitted' = [i \in DOMAIN submitted |-> [submitted[i] EXCEPT !.traced = FALSE]]
    BY <1>3 DEF ClearOps
  <2>2. ASSUME NEW i \in DOMAIN submitted
        PROVE  submitted'[i] = Submitted(submitted[i].diff, FALSE, submitted[i].logged)
    <3> DEFINE x == submitted[i]
    <3>1. x = Submitted(x.diff, x.traced, x.logged)
      BY <1>0
    <3>2. submitted'[i] = [x EXCEPT !.traced = FALSE]
      BY <2>1
    <3> HIDE DEF x
    <3>3. submitted'[i] = Submitted(x.diff, FALSE, x.logged)
      BY <3>1, <3>2 DEF Submitted
    <3> QED
      BY <3>3 DEF x
  <2>3. DOMAIN submitted' = DOMAIN submitted /\ submitted' = [i \in DOMAIN submitted |-> submitted'[i]]
    BY <2>1
  <2>4. ASSUME NEW i \in DOMAIN submitted
        PROVE  /\ submitted'[i].diff = submitted[i].diff /\ submitted'[i].traced = FALSE
               /\ submitted'[i].logged = submitted[i].logged
               /\ submitted'[i] = Submitted(submitted'[i].diff, submitted'[i].traced, submitted'[i].logged)
    <3>1. PICK x, y : x = submitted[i] /\ y = submitted'[i]
      OBVIOUS
    <3>2. y = Submitted(x.diff, FALSE, x.logged)
      BY <2>2, <3>1
    <3>3. /\ y.diff = x.diff /\ y.traced = FALSE /\ y.logged = x.logged
          /\ y = Submitted(y.diff, y.traced, y.logged)
      BY <3>2 DEF Submitted
    <3> QED
      BY <3>1, <3>3
  <2>5. /\ TracedOf(submitted') = {} /\ LoggedOf(submitted') = LoggedOf(submitted)
        /\ \A i \in LoggedOf(submitted) : DiffsOf(submitted')[i] = DiffsOf(submitted)[i]
    BY <2>3, <2>4 DEF TracedOf, LoggedOf, DiffsOf
  <2>6. Stands(LoggedOf(submitted'), DiffsOf(submitted'), ParsedLog(legacy'.log))
    <3>1. Stands(LoggedOf(submitted), DiffsOf(submitted'), ParsedLog(legacy.log))
      BY <1>0, <2>5, StandsLonger
    <3> QED
      BY <2>1, <2>5, <3>1
  <2>7. Stands(TracedOf(submitted'), OpsOf(submitted'), recorded')
    BY <2>5, NothingStands
  <2> QED
    BY <1>0, <1>1, <1>2, <2>1, <2>3, <2>4, <2>6, <2>7 DEF TrailInv
<1>4. CASE ClearSqlLog
  <2>1. /\ UNCHANGED <<enabled, ops, recorded, ring, pushed>>
        /\ legacy' = [legacy EXCEPT !.log = <<>>]
        /\ submitted' = [i \in DOMAIN submitted |-> [submitted[i] EXCEPT !.logged = FALSE]]
    BY <1>4 DEF ClearSqlLog
  <2>2. ASSUME NEW i \in DOMAIN submitted
        PROVE  submitted'[i] = Submitted(submitted[i].diff, submitted[i].traced, FALSE)
    <3> DEFINE x == submitted[i]
    <3>1. x = Submitted(x.diff, x.traced, x.logged)
      BY <1>0
    <3>2. submitted'[i] = [x EXCEPT !.logged = FALSE]
      BY <2>1
    <3> HIDE DEF x
    <3>3. submitted'[i] = Submitted(x.diff, x.traced, FALSE)
      BY <3>1, <3>2 DEF Submitted
    <3> QED
      BY <3>3 DEF x
  <2>3. DOMAIN submitted' = DOMAIN submitted /\ submitted' = [i \in DOMAIN submitted |-> submitted'[i]]
    BY <2>1
  <2>4. ASSUME NEW i \in DOMAIN submitted
        PROVE  /\ submitted'[i].diff = submitted[i].diff /\ submitted'[i].logged = FALSE
               /\ submitted'[i].traced = submitted[i].traced
               /\ submitted'[i] = Submitted(submitted'[i].diff, submitted'[i].traced, submitted'[i].logged)
    <3>1. PICK x, y : x = submitted[i] /\ y = submitted'[i]
      OBVIOUS
    <3>2. y = Submitted(x.diff, x.traced, FALSE)
      BY <2>2, <3>1
    <3>3. /\ y.diff = x.diff /\ y.logged = FALSE /\ y.traced = x.traced
          /\ y = Submitted(y.diff, y.traced, y.logged)
      BY <3>2 DEF Submitted
    <3> QED
      BY <3>1, <3>3
  <2>5. /\ LoggedOf(submitted') = {} /\ TracedOf(submitted') = TracedOf(submitted)
        /\ \A i \in TracedOf(submitted) : OpsOf(submitted')[i] = OpsOf(submitted)[i]
    BY <2>3, <2>4 DEF TracedOf, LoggedOf, OpsOf
  <2>6. Stands(TracedOf(submitted'), OpsOf(submitted'), recorded')
    <3>1. Stands(TracedOf(submitted), OpsOf(submitted'), recorded)
      BY <1>0, <2>5, StandsLonger
    <3> QED
      BY <2>1, <2>5, <3>1
  <2>7. Stands(LoggedOf(submitted'), DiffsOf(submitted'), ParsedLog(legacy'.log))
    BY <2>5, NothingStands
  <2>8. legacy'.log = <<>> /\ legacy' = [enabled |-> legacy'.enabled, log |-> legacy'.log]
    BY <1>0, <2>1
  <2>9. Newest(ops', recorded') /\ Newest(ring', pushed') /\ enabled' \in BOOLEAN
    BY <2>1 DEF TrailInv
  <2> QED
    BY <1>1, <1>2, <2>3, <2>4, <2>6, <2>7, <2>8, <2>9 DEF TrailInv
<1> QED
  BY <1>3, <1>4

\* Every step keeps the trails.
LEMMA TrailInvNext == TrailInv /\ [ServicesNext]_servicesVars => TrailInv'
<1> SUFFICES ASSUME TrailInv, [ServicesNext]_servicesVars PROVE TrailInv'
  OBVIOUS
<1> DEFINE trailVars == <<enabled, ops, recorded, submitted, ring, pushed, legacy>>
<1>1. ASSUME UNCHANGED trailVars PROVE TrailInv'
  BY <1>1 DEF TrailInv
<1>2. ASSUME NEW on \in BOOLEAN, SetEnabled(on) PROVE TrailInv'
  BY <1>2 DEF SetEnabled, TrailInv
<1>3. ASSUME NEW on \in BOOLEAN, SetLegacyEnabled(on) PROVE TrailInv'
  <2>1. /\ UNCHANGED <<enabled, ops, recorded, submitted, ring, pushed>>
        /\ legacy' = [legacy EXCEPT !.enabled = on]
    BY <1>3 DEF SetLegacyEnabled
  <2>2. legacy = [enabled |-> legacy.enabled, log |-> legacy.log]
    BY DEF TrailInv
  <2>3. legacy'.log = legacy.log /\ legacy' = [enabled |-> legacy'.enabled, log |-> legacy'.log]
    BY <2>1, <2>2
  <2> QED
    BY <2>1, <2>3 DEF TrailInv
<1>4. ASSUME NEW diffs \in Commits, PushDiffSummaries(diffs) PROVE TrailInv'
  <2>1. /\ UNCHANGED <<enabled, ops, recorded, submitted, legacy>>
        /\ ring' = FoldLeft(PushedEntry, ring, diffs) /\ pushed' = pushed \o diffs
    BY <1>4 DEF PushDiffSummaries
  <2>2. IsSeq(diffs)
    BY ServicesAssumption DEF IsSeq
  <2>3. Newest(ring', pushed')
    BY <2>1, <2>2, BatchKeepsNewest DEF TrailInv
  <2> QED
    BY <2>1, <2>3 DEF TrailInv
<1>5. ASSUME LoadStep PROVE TrailInv'
  <2>1. UNCHANGED tools
    BY <1>5 DEF LoadStep, RemoveSpec, RegisterTable, AddARelation, RemoveARelation, StoreMods,
       FreezeRegistry, LoadManifest, NewProcess, Export, CompileContent, Loading,
       ReplaceASpec, AddAnEdge, RegisterAName, ResolveAName, SyncNames
  <2> QED
    BY <1>1, <2>1 DEF tools
<1>6. ASSUME EngineStep PROVE TrailInv'
  <2>1. \/ ClearOps \/ ClearSqlLog
        \/ \E sql \in Statements, accepted \in BOOLEAN :
             ExecuteSqlWrite(sql, accepted) \/ ExecuteSql(sql, accepted)
        \/ \E on \in BOOLEAN : SetEnabled(on) \/ SetLegacyEnabled(on)
        \/ \E diffs \in Commits : PushDiffSummaries(diffs)
        \/ UNCHANGED trailVars
    BY <1>6 DEF EngineStep, NewEngine, FreezeSchemaRegistry, ValidatePaths,
       RegisterSqlTable, UnregisterSqlTable, RegisterTableSchema, tools
  <2> QED
    BY <1>1, <1>2, <1>3, <1>4, <2>1, ClearsKeepTrails, SqlWriteKeepsTrails, LegacySqlKeepsTrails
<1>7. ASSUME UNCHANGED servicesVars PROVE TrailInv'
  BY <1>1, <1>7 DEF servicesVars, tools
<1> QED
  BY <1>5, <1>6, <1>7 DEF ServicesNext

\* A trail that holds the newest is the end of all that there was.
LEMMA NewestIsEnd ==
  ASSUME NEW trail, NEW all, Newest(trail, all)
  PROVE  /\ trail = SubSeq(all, Len(all) - Len(trail) + 1, Len(all))
         /\ Len(trail) = IF Len(all) < Capacity THEN Len(all) ELSE Capacity
<1> DEFINE n == Len(trail)
           N == Len(all)
           w == SubSeq(all, N - n + 1, N)
<1>1. /\ n \in Nat /\ trail = [i \in 1 .. n |-> trail[i]] /\ N \in Nat
  BY SeqFacts DEF Newest
<1>2. n = (IF N < Capacity THEN N ELSE Capacity) /\ \A i \in 1 .. n : trail[i] = all[(N - n) + i]
  BY DEF Newest
<1>3. n <= N /\ Capacity \in Nat
  BY <1>1, <1>2, ServicesAssumption
<1>4. w = [i \in 1 .. n |-> all[(N - n) + i]]
  <2> DEFINE S == {all[i] : i \in DOMAIN all}
  <2>1. all \in Seq(S)
    BY DEF Newest, IsSeq
  <2> HIDE DEF S
  <2>2. /\ N - n + 1 \in Nat /\ N - n + 1 >= 1 /\ N - n + 1 <= N + 1
        /\ (N - (N - n + 1)) + 1 = n
    BY <1>1, <1>3
  <2>3. w = [i \in 1 .. (N - (N - n + 1)) + 1 |-> all[i + (N - n + 1) - 1]]
    BY <2>1, <2>2
  <2>4. \A i \in 1 .. n : i + (N - n + 1) - 1 = (N - n) + i
    BY <1>1, <1>3
  <2> QED
    BY <2>2, <2>3, <2>4
<1> HIDE DEF w
<1>5. trail = w
  BY <1>1, <1>2, <1>4
<1> QED
  BY <1>2, <1>5 DEF w

\* TrailsKeepNewest, for every capacity and every set of statements: neither
\* debug journal loses the trace of a write that was accepted while it recorded,
\* before it is full or cleared (with recording off a write leaves none), and the ring never drops a newer summary for an older.
THEOREM TrailsAreKept == ServicesSpec => []TrailsKeepNewest
<1>1. TrailInv => TrailsKeepNewest
  <2> SUFFICES ASSUME TrailInv PROVE TrailsKeepNewest
    OBVIOUS
  <2>1. /\ ops = SubSeq(recorded, Len(recorded) - Len(ops) + 1, Len(recorded))
        /\ Len(ops) = IF Len(recorded) < Capacity THEN Len(recorded) ELSE Capacity
        /\ ring = SubSeq(pushed, Len(pushed) - Len(ring) + 1, Len(pushed))
        /\ Len(ring) = IF Len(pushed) < Capacity THEN Len(pushed) ELSE Capacity
    BY NewestIsEnd DEF TrailInv
  <2>2. LET sent == {i \in DOMAIN submitted : submitted[i].traced} IN
          \E place \in [sent -> DOMAIN recorded] :
            \A i, j \in sent :
              recorded[place[i]] = WriteOp(submitted[i].diff) /\ (i < j => place[i] < place[j])
    BY DEF TrailInv, Stands, TracedOf, OpsOf
  <2>3. LET sent == {i \in DOMAIN submitted : submitted[i].logged}
            trail == [i \in DOMAIN legacy.log |-> StatementToDiff(legacy.log[i])]
        IN  \E place \in [sent -> DOMAIN trail] :
              \A i, j \in sent :
                trail[place[i]] = submitted[i].diff /\ (i < j => place[i] < place[j])
    BY DEF TrailInv, Stands, LoggedOf, DiffsOf, ParsedLog
  <2> QED
    BY <2>1, <2>2, <2>3, Zenon DEF TrailsKeepNewest
<1> QED
  BY <1>1, TrailInvInit, TrailInvNext, PTL DEF ServicesSpec

-----------------------------------------------------------------------------
(* The relation graph                                                      *)

\* The adjacency lists name exactly the edges, each once and under its table.
GraphOk(g) ==
  /\ IsSeq(g.edges)
  /\ \A t \in DOMAIN g.adjacency :
       /\ IsSeq(g.adjacency[t])
       /\ \A k \in DOMAIN g.adjacency[t] :
            g.adjacency[t][k] \in DOMAIN g.edges /\ g.edges[g.adjacency[t][k]].from = t
       /\ \A k, l \in DOMAIN g.adjacency[t] : g.adjacency[t][k] = g.adjacency[t][l] => k = l
  /\ \A i \in DOMAIN g.edges :
       /\ g.edges[i].from \in DOMAIN g.adjacency
       /\ \E k \in DOMAIN g.adjacency[g.edges[i].from] : g.adjacency[g.edges[i].from][k] = i

\* No two edges lead from one table to the same other.
Distinct(edges) ==
  \A i, j \in DOMAIN edges : edges[i].from = edges[j].from /\ edges[i].to = edges[j].to => i = j

\* add_edge_unchecked keeps the adjacency lists.
LEMMA PushedKeeps ==
  ASSUME NEW g, NEW e, GraphOk(g)
  PROVE  GraphOk(Pushed(g, e)) /\ Pushed(g, e).edges = Append(g.edges, e)
<1> DEFINE n == Len(g.edges)
           before == IF e.from \in DOMAIN g.adjacency THEN g.adjacency[e.from] ELSE <<>>
           m == Len(before)
           list == Append(before, n + 1)
           new == Pushed(g, e)
<1>1. /\ new.edges = Append(g.edges, e)
      /\ DOMAIN new.adjacency = DOMAIN g.adjacency \cup {e.from}
      /\ new.adjacency[e.from] = list
      /\ \A t \in DOMAIN g.adjacency : t # e.from => new.adjacency[t] = g.adjacency[t]
  BY DEF Pushed
<1> HIDE DEF new
<1>2. /\ n \in Nat /\ DOMAIN g.edges = 1 .. n /\ IsSeq(g.edges)
  BY SeqFacts DEF GraphOk
<1>3. /\ IsSeq(new.edges) /\ DOMAIN new.edges = 1 .. n + 1 /\ new.edges[n + 1] = e
      /\ \A i \in 1 .. n : new.edges[i] = g.edges[i]
  <2>1. /\ IsSeq(new.edges) /\ Len(new.edges) = n + 1 /\ new.edges[n + 1] = e
        /\ \A i \in 1 .. n : new.edges[i] = g.edges[i]
    BY <1>1, <1>2, SeqLonger
  <2> QED
    BY <2>1, SeqFacts
<1>4. /\ IsSeq(before)
      /\ \A k \in DOMAIN before : before[k] \in 1 .. n /\ g.edges[before[k]].from = e.from
      /\ \A k, l \in DOMAIN before : before[k] = before[l] => k = l
  <2>1. CASE e.from \in DOMAIN g.adjacency
    BY <1>2, <2>1 DEF GraphOk
  <2>2. CASE e.from \notin DOMAIN g.adjacency
    <3>1. IsSeq(<<>>) /\ DOMAIN <<>> = {}
      BY DEF IsSeq
    <3> QED
      BY <2>2, <3>1
  <2> QED
    BY <2>1, <2>2
<1>5. \A i \in DOMAIN g.edges : g.edges[i].from = e.from => \E k \in DOMAIN before : before[k] = i
  BY DEF GraphOk
<1> HIDE DEF before
<1>6. m \in Nat /\ DOMAIN before = 1 .. m
  BY <1>4, SeqFacts
<1>7. /\ IsSeq(list) /\ DOMAIN list = 1 .. m + 1 /\ list[m + 1] = n + 1
      /\ \A k \in 1 .. m : list[k] = before[k]
  <2>1. /\ IsSeq(list) /\ Len(list) = m + 1 /\ list[m + 1] = n + 1
        /\ \A k \in 1 .. m : list[k] = before[k]
    BY <1>4, SeqLonger
  <2> QED
    BY <2>1, SeqFacts
<1> HIDE DEF list
<1>8. /\ \A k \in 1 .. m + 1 : k = m + 1 \/ k \in 1 .. m
      /\ \A i \in 1 .. n + 1 : i = n + 1 \/ i \in 1 .. n
      /\ \A i \in 1 .. n : i \in 1 .. n + 1 /\ i # n + 1
      /\ \A k \in 1 .. m : k \in 1 .. m + 1
      /\ n + 1 \in 1 .. n + 1 /\ m + 1 \in 1 .. m + 1
  BY <1>2, <1>6
<1>9. ASSUME NEW t \in DOMAIN new.adjacency
      PROVE  /\ IsSeq(new.adjacency[t])
             /\ \A k \in DOMAIN new.adjacency[t] :
                  /\ new.adjacency[t][k] \in DOMAIN new.edges
                  /\ new.edges[new.adjacency[t][k]].from = t
             /\ \A k, l \in DOMAIN new.adjacency[t] :
                  new.adjacency[t][k] = new.adjacency[t][l] => k = l
  <2>1. CASE t = e.from
    <3>1. \A k \in DOMAIN list : list[k] \in DOMAIN new.edges /\ new.edges[list[k]].from = t
      <4>1. \A k \in 1 .. m : list[k] \in 1 .. n /\ g.edges[list[k]].from = e.from
        BY <1>4, <1>6, <1>7
      <4>2. \A k \in 1 .. m : list[k] \in DOMAIN new.edges /\ new.edges[list[k]].from = t
        BY <1>3, <1>8, <2>1, <4>1
      <4>3. n + 1 \in DOMAIN new.edges /\ new.edges[n + 1].from = t
        BY <1>3, <1>8, <2>1
      <4> QED
        BY <1>7, <1>8, <4>2, <4>3
    <3>2. \A k, l \in DOMAIN list : list[k] = list[l] => k = l
      BY <1>4, <1>6, <1>7, <1>8
    <3> QED
      BY <1>1, <1>7, <2>1, <3>1, <3>2
  <2>2. CASE t # e.from
    <3>1. t \in DOMAIN g.adjacency /\ new.adjacency[t] = g.adjacency[t]
      BY <1>1, <2>2
    <3>2. /\ IsSeq(g.adjacency[t])
          /\ \A k \in DOMAIN g.adjacency[t] :
               g.adjacency[t][k] \in 1 .. n /\ g.edges[g.adjacency[t][k]].from = t
          /\ \A k, l \in DOMAIN g.adjacency[t] : g.adjacency[t][k] = g.adjacency[t][l] => k = l
      BY <1>2, <3>1 DEF GraphOk
    <3> QED
      BY <1>3, <1>8, <3>1, <3>2
  <2> QED
    BY <2>1, <2>2
<1>10. ASSUME NEW i \in DOMAIN new.edges
       PROVE  /\ new.edges[i].from \in DOMAIN new.adjacency
              /\ \E k \in DOMAIN new.adjacency[new.edges[i].from] :
                   new.adjacency[new.edges[i].from][k] = i
  <2>1. CASE i = n + 1
    BY <1>1, <1>3, <1>7, <1>8, <2>1
  <2>2. CASE i # n + 1
    <3>1. i \in DOMAIN g.edges /\ new.edges[i] = g.edges[i] /\ i \in 1 .. n
      BY <1>2, <1>3, <1>8, <2>2
    <3>2. CASE g.edges[i].from = e.from
      <4>1. PICK k \in DOMAIN before : before[k] = i
        BY <1>5, <3>1, <3>2
      <4>2. k \in DOMAIN list /\ list[k] = i
        BY <1>6, <1>7, <1>8, <4>1
      <4> QED
        BY <1>1, <3>1, <3>2, <4>2
    <3>3. CASE g.edges[i].from # e.from
      <4>1. /\ g.edges[i].from \in DOMAIN g.adjacency
            /\ \E k \in DOMAIN g.adjacency[g.edges[i].from] : g.adjacency[g.edges[i].from][k] = i
        BY <3>1 DEF GraphOk
      <4> QED
        BY <1>1, <3>1, <3>3, <4>1
    <3> QED
      BY <3>2, <3>3
  <2> QED
    BY <2>1, <2>2
<1> QED
  BY <1>1, <1>3, <1>9, <1>10 DEF GraphOk, new

\* rebuild_adjacency: one edge after another.
LEMMA EdgeLoop ==
  ASSUME NEW items, IsSeq(items)
  PROVE  \E c : /\ LoopRounds(<<"edge">>, c, EmptyGraph, items)
                /\ RebuildAdjacency(items) = c[Len(items)]
<1> DEFINE P(f) == f = [s \in SUBSET (DOMAIN items) |->
                          IF s = {} THEN EmptyGraph ELSE Pushed(f[s \ {Max(s)}], items[Max(s)])]
           F == CHOOSE f : P(f)
<1>1. Len(items) \in Nat /\ DOMAIN items = 1 .. Len(items)
  BY SeqFacts
<1>2. \A f : P(f) <=> LoopOver(<<"edge">>, f, EmptyGraph, items, Len(items))
  BY <1>1 DEF LoopOver, LoopBody
<1>3. \E f : P(f)
  BY <1>1, <1>2, LoopExists
<1>4. P(F)
  BY <1>3
<1>5. RebuildAdjacency(items) = F[DOMAIN items]
  BY DEF RebuildAdjacency, FoldLeft, MapThenFoldSet
<1> HIDE DEF F
<1>6. LoopOver(<<"edge">>, F, EmptyGraph, items, Len(items))
  BY <1>2, <1>4
<1> QED
  BY <1>1, <1>5, <1>6, LoopHasRounds

\* The first k elements of a sequence, element by element.
LEMMA FirstElements ==
  ASSUME NEW s, IsSeq(s), NEW k \in 1 .. Len(s)
  PROVE  LET P(n) == [i \in 1 .. n |-> s[i]] IN P(k) = Append(P(k - 1), s[k])
<1> DEFINE P(n) == [i \in 1 .. n |-> s[i]]
           f == P(k - 1)
           a == Append(f, s[k])
<1>1. PICK m \in Nat : m = k - 1
  BY SeqFacts
<1>2. f = [i \in 1 .. m |-> f[i]] /\ \A i \in 1 .. m : f[i] = s[i]
  BY <1>1
<1> HIDE DEF f
<1>3. IsSeq(f) /\ Len(f) = m
  BY <1>2, SeqIntro
<1>4. /\ IsSeq(a) /\ Len(a) = m + 1 /\ a[m + 1] = s[k]
      /\ \A i \in 1 .. m : a[i] = f[i]
  BY <1>3, SeqLonger
<1> HIDE DEF a
<1>5. a = [i \in 1 .. m + 1 |-> a[i]] /\ m + 1 = k
  BY <1>1, <1>4, SeqFacts
<1>6. \A i \in 1 .. m + 1 : a[i] = s[i]
  <2>1. \A i \in 1 .. m + 1 : i = m + 1 \/ i \in 1 .. m
    OBVIOUS
  <2> QED
    BY <1>2, <1>4, <1>5, <2>1
<1>7. a = P(k)
  BY <1>5, <1>6
<1> QED
  BY <1>7 DEF a, f

\* What rebuild_adjacency makes of any edges is a graph of them.
LEMMA RebuildKeeps ==
  ASSUME NEW edges, IsSeq(edges)
  PROVE  GraphOk(RebuildAdjacency(edges)) /\ RebuildAdjacency(edges).edges = edges
<1> DEFINE n == Len(edges)
           First(k) == [i \in 1 .. k |-> edges[i]]
<1>1. PICK c : /\ LoopRounds(<<"edge">>, c, EmptyGraph, edges)
               /\ RebuildAdjacency(edges) = c[n]
  BY EdgeLoop
<1>2. n \in Nat /\ DOMAIN edges = 1 .. n /\ edges = First(n)
  BY SeqFacts
<1> DEFINE G == {k \in 0 .. n : GraphOk(c[k]) /\ c[k].edges = First(k)}
<1>3. 0 \in G
  <2>1. c[0] = EmptyGraph /\ First(0) = <<>>
    BY <1>1 DEF LoopRounds
  <2>2. IsSeq(<<>>) /\ DOMAIN <<>> = {}
    BY DEF IsSeq
  <2>3. GraphOk(EmptyGraph) /\ EmptyGraph.edges = <<>>
    BY <2>2 DEF GraphOk, EmptyGraph
  <2> HIDE DEF First
  <2> QED
    BY <1>2, <2>1, <2>3
<1>4. ASSUME NEW k \in 1 .. n, k - 1 \in G PROVE k \in G
  <2>1. c[k] = Pushed(c[k - 1], edges[k])
    BY <1>1 DEF LoopRounds, LoopBody
  <2>2. First(k) = Append(First(k - 1), edges[k])
    BY FirstElements
  <2> HIDE DEF First
  <2>3. GraphOk(c[k - 1]) /\ c[k - 1].edges = First(k - 1)
    BY <1>4
  <2>4. /\ GraphOk(Pushed(c[k - 1], edges[k]))
        /\ Pushed(c[k - 1], edges[k]).edges = Append(First(k - 1), edges[k])
    BY <2>3, PushedKeeps
  <2>5. k \in 0 .. n
    OBVIOUS
  <2> QED
    BY <2>1, <2>2, <2>4, <2>5
<1> HIDE DEF G
<1>5. \A k \in 0 .. n : k \in G
  BY <1>2, <1>3, <1>4, UpTo
<1>6. GraphOk(c[n]) /\ c[n].edges = First(n)
  <2>1. n \in G
    BY <1>2, <1>5
  <2> HIDE DEF First, n
  <2> QED
    BY <2>1 DEF G
<1> HIDE DEF First
<1> QED
  BY <1>1, <1>2, <1>6

\* The pairs that the search of would_create_cycle sees are the edges.
LEMMA AdjacentIs ==
  ASSUME NEW g, GraphOk(g)
  PROVE  /\ IsFiniteSet(Adjacent(g))
         /\ \A i \in DOMAIN g.edges : <<g.edges[i].from, g.edges[i].to>> \in Adjacent(g)
         /\ \A d \in Adjacent(g) :
              \E i \in DOMAIN g.edges : d = <<g.edges[i].from, g.edges[i].to>>
<1> DEFINE E == {<<g.edges[i].from, g.edges[i].to>> : i \in DOMAIN g.edges}
           n == Len(g.edges)
<1>1. n \in Nat /\ DOMAIN g.edges = 1 .. n
  BY SeqFacts DEF GraphOk
<1>2. Adjacent(g) \subseteq E
  <2> SUFFICES ASSUME NEW t \in DOMAIN g.adjacency, NEW k \in DOMAIN g.adjacency[t]
               PROVE  <<t, g.edges[g.adjacency[t][k]].to>> \in E
    BY DEF Adjacent
  <2>1. g.adjacency[t][k] \in DOMAIN g.edges /\ g.edges[g.adjacency[t][k]].from = t
    BY DEF GraphOk
  <2> QED
    BY <2>1
<1>3. ASSUME NEW i \in DOMAIN g.edges PROVE <<g.edges[i].from, g.edges[i].to>> \in Adjacent(g)
  <2>1. /\ g.edges[i].from \in DOMAIN g.adjacency
        /\ \E k \in DOMAIN g.adjacency[g.edges[i].from] : g.adjacency[g.edges[i].from][k] = i
    BY DEF GraphOk
  <2>2. PICK k \in DOMAIN g.adjacency[g.edges[i].from] : g.adjacency[g.edges[i].from][k] = i
    BY <2>1
  <2> QED
    BY <2>1, <2>2 DEF Adjacent
<1> DEFINE h == [i \in 1 .. n |-> <<g.edges[i].from, g.edges[i].to>>]
<1>4. E = {h[i] : i \in 1 .. n}
  BY <1>1
<1>5. IsFiniteSet({h[i] : i \in 1 .. n})
  <2> HIDE DEF h, n
  <2> QED
    BY <1>1, ImageIsSmall
<1>6. IsFiniteSet(E)
  BY <1>4, <1>5
<1>8. \A d \in Adjacent(g) : \E i \in DOMAIN g.edges : d = <<g.edges[i].from, g.edges[i].to>>
  BY <1>2
<1> HIDE DEF E
<1>7. IsFiniteSet(Adjacent(g))
  BY <1>2, <1>6, FS_Subset
<1> QED
  BY <1>3, <1>7, <1>8

\* An edge from a table that its target does not lead back to closes no cycle.
LEMMA NewEdgeAcyclic ==
  ASSUME NEW g, NEW e, GraphOk(g), ~ Cyclic(g.edges), ~ WouldCreateCycle(g, e.from, e.to)
  PROVE  ~ Cyclic(Append(g.edges, e))
<1> DEFINE n == Len(g.edges)
           edges == g.edges
           more == Append(g.edges, e)
           R == Reached(Adjacent(g), e.to)
           Leads(list, t, T) == \E i \in DOMAIN list : list[i].to = t /\ list[i].from \in T
<1>1. n \in Nat /\ DOMAIN edges = 1 .. n /\ IsSeq(edges)
  BY SeqFacts DEF GraphOk
<1>2. /\ DOMAIN more = 1 .. n + 1 /\ more[n + 1] = e
      /\ \A i \in 1 .. n : more[i] = edges[i]
  <2>1. /\ IsSeq(more) /\ Len(more) = n + 1 /\ more[n + 1] = e
        /\ \A i \in 1 .. n : more[i] = edges[i]
    BY <1>1, SeqLonger
  <2> HIDE DEF more
  <2> QED
    BY <2>1, SeqFacts
<1>3. /\ e.to \in R /\ e.from \notin R
      /\ \A i \in DOMAIN edges : edges[i].from \in R => edges[i].to \in R
  <2>1. IsFiniteSet(Adjacent(g)) /\ \A i \in DOMAIN edges : <<edges[i].from, edges[i].to>> \in Adjacent(g)
    BY AdjacentIs
  <2>2. e.to \in R /\ \A d \in Adjacent(g) : d[1] \in R => d[2] \in R
    BY <2>1, ReachedIsClosed
  <2>3. e.from \notin R
    BY DEF WouldCreateCycle
  <2> QED
    BY <2>1, <2>2, <2>3
<1> HIDE DEF R, more
<1>4. \A i \in 1 .. n + 1 : i = n + 1 \/ i \in 1 .. n
  BY <1>1
<1>5. ASSUME NEW T, T # {}, \A t \in T : Leads(edges, t, T) PROVE FALSE
  <2>1. T \in SUBSET {edges[i].to : i \in DOMAIN edges}
    BY <1>5
  <2> QED
    BY <1>5, <2>1 DEF Cyclic
<1>6. SUFFICES ASSUME NEW T, T # {}, \A t \in T : Leads(more, t, T) PROVE FALSE
  BY DEF Cyclic, more
<1>7. CASE T \ R # {}
  <2>1. ASSUME NEW t \in T \ R PROVE Leads(edges, t, T \ R)
    <3>1. PICK i \in DOMAIN more : more[i].to = t /\ more[i].from \in T
      BY <1>6
    <3>2. i \in 1 .. n
      BY <1>2, <1>3, <1>4, <3>1
    <3>3. edges[i].to = t /\ edges[i].from \in T /\ i \in DOMAIN edges
      BY <1>1, <1>2, <3>1, <3>2
    <3> QED
      BY <1>3, <3>3
  <2> QED
    BY <1>5, <1>7, <2>1
<1>8. CASE T \ R = {}
  <2>1. ASSUME NEW t \in T PROVE Leads(edges, t, T)
    <3>1. PICK i \in DOMAIN more : more[i].to = t /\ more[i].from \in T
      BY <1>6
    <3>2. i \in 1 .. n
      BY <1>2, <1>3, <1>4, <1>8, <3>1
    <3> QED
      BY <1>1, <1>2, <3>1, <3>2
  <2> QED
    BY <1>5, <1>6, <2>1
<1> QED
  BY <1>7, <1>8

SoundGraph(g) == GraphOk(g) /\ Distinct(g.edges) /\ ~ Cyclic(g.edges)

\* add_edge keeps the graph sound, whether it takes the edge or refuses it.
LEMMA AddEdgeKeeps ==
  ASSUME NEW g, NEW e, SoundGraph(g)
  PROVE  SoundGraph(AddEdge(g, e).it)
<1>1. CASE FindEdge(g, e.from, e.to) # {} \/ WouldCreateCycle(g, e.from, e.to)
  BY <1>1 DEF AddEdge, Fails
<1>2. CASE FindEdge(g, e.from, e.to) = {} /\ ~ WouldCreateCycle(g, e.from, e.to)
  <2>1. AddEdge(g, e).it = Pushed(g, e)
    BY <1>2 DEF AddEdge, Succeeds
  <2>2. GraphOk(Pushed(g, e)) /\ Pushed(g, e).edges = Append(g.edges, e)
    BY PushedKeeps DEF SoundGraph
  <2>3. ~ Cyclic(Append(g.edges, e))
    BY <1>2, NewEdgeAcyclic DEF SoundGraph
  <2>4. Distinct(Append(g.edges, e))
    <3> DEFINE n == Len(g.edges)
               more == Append(g.edges, e)
    <3>1. IsSeq(g.edges)
      BY DEF SoundGraph, GraphOk
    <3>2. /\ IsSeq(more) /\ Len(more) = n + 1 /\ more[n + 1] = e
          /\ \A i \in 1 .. n : more[i] = g.edges[i]
      BY <3>1, SeqLonger
    <3> HIDE DEF more
    <3>3. n \in Nat /\ DOMAIN g.edges = 1 .. n /\ DOMAIN more = 1 .. n + 1
      BY <3>1, <3>2, SeqFacts
    <3>4. \A i \in 1 .. n + 1 : i = n + 1 \/ i \in 1 .. n
      BY <3>3
    <3>5. \A i \in 1 .. n : ~ (g.edges[i].from = e.from /\ g.edges[i].to = e.to)
      BY <1>2, <3>3 DEF FindEdge
    <3> SUFFICES ASSUME NEW i \in DOMAIN more, NEW j \in DOMAIN more,
                        more[i].from = more[j].from, more[i].to = more[j].to
                 PROVE  i = j
      BY DEF Distinct, more
    <3>6. CASE i = n + 1 \/ j = n + 1
      BY <3>2, <3>3, <3>4, <3>5, <3>6
    <3>7. CASE i \in 1 .. n /\ j \in 1 .. n
      BY <3>2, <3>3, <3>7 DEF SoundGraph, Distinct
    <3> QED
      BY <3>3, <3>4, <3>6, <3>7
  <2> QED
    BY <2>1, <2>2, <2>3, <2>4 DEF SoundGraph
<1> QED
  BY <1>1, <1>2

\* What is left when one place is taken out.
LEMMA RemoveAtIs ==
  ASSUME NEW s, IsSeq(s), NEW p \in DOMAIN s
  PROVE  LET r == RemoveAt(s, p)
             old(i) == IF i < p THEN i ELSE i + 1
         IN  /\ IsSeq(r)
             /\ \A i \in DOMAIN r : old(i) \in DOMAIN s /\ r[i] = s[old(i)]
             /\ \A i, j \in DOMAIN r : old(i) = old(j) => i = j
<1> DEFINE S == {s[i] : i \in DOMAIN s}
           r == RemoveAt(s, p)
           n == Len(s)
           a == SubSeq(s, 1, p - 1)
           b == SubSeq(s, p + 1, n)
<1>1. s \in Seq(S)
  BY DEF IsSeq
<1> HIDE DEF S
<1>2. n \in Nat /\ DOMAIN s = 1 .. n /\ p \in 1 .. n /\ p \in Nat
  BY <1>1
<1>3. /\ a \in Seq(S) /\ Len(a) = p - 1 /\ \A i \in 1 .. p - 1 : a[i] = s[i]
  BY <1>1, <1>2
<1>4. /\ b \in Seq(S) /\ Len(b) = n - p /\ \A i \in 1 .. n - p : b[i] = s[i + p]
  <2>1. b \in Seq(S) /\ Len(b) = n - p
    BY <1>1, <1>2
  <2>2. b = [i \in 1 .. (n - (p + 1)) + 1 |-> s[i + (p + 1) - 1]]
    BY <1>1, <1>2
  <2>3. (n - (p + 1)) + 1 = n - p /\ \A i \in 1 .. n - p : i + (p + 1) - 1 = i + p
    BY <1>2
  <2> QED
    BY <2>1, <2>2, <2>3
<1>5. r = a \o b
  BY DEF RemoveAt
<1> HIDE DEF r, a, b
<1>6. /\ r \in Seq(S) /\ Len(r) = n - 1
      /\ \A i \in 1 .. n - 1 : r[i] = IF i <= p - 1 THEN a[i] ELSE b[i - (p - 1)]
  <2>a. a \in Seq(S) /\ b \in Seq(S)
    BY <1>3, <1>4
  <2>1. r \in Seq(S) /\ Len(r) = Len(a) + Len(b)
    BY <2>a, <1>5, ConcatProperties
  <2>2. \A i \in 1 .. Len(a) + Len(b) : r[i] = IF i <= Len(a) THEN a[i] ELSE b[i - Len(a)]
    BY <2>a, <1>5, ConcatProperties
  <2>3. (p - 1) + (n - p) = n - 1
    BY <1>2
  <2> QED
    BY <1>3, <1>4, <2>1, <2>2, <2>3
<1>7. DOMAIN r = 1 .. n - 1 /\ n - 1 \in Nat
  BY <1>2, <1>6
<1>8. ASSUME NEW i \in 1 .. n - 1
      PROVE  /\ i < p => i \in 1 .. n /\ r[i] = s[i]
             /\ ~ (i < p) => i + 1 \in 1 .. n /\ r[i] = s[i + 1]
  <2>1. CASE i < p
    BY <1>2, <1>3, <1>6, <2>1
  <2>2. CASE ~ (i < p)
    <3>1. i - (p - 1) \in 1 .. n - p /\ (i - (p - 1)) + p = i + 1 /\ i + 1 \in 1 .. n /\ ~ (i <= p - 1)
      BY <1>2, <2>2
    <3> QED
      BY <1>4, <1>6, <2>2, <3>1
  <2> QED
    BY <2>1, <2>2
<1>9. IsSeq(r)
  <2>1. PICK m \in Nat : m = n - 1
    BY <1>7
  <2>2. r = [i \in 1 .. m |-> r[i]]
    BY <1>6, <1>7, <2>1
  <2> QED
    BY <2>2, SeqIntro
<1>10. \A i \in DOMAIN r : (IF i < p THEN i ELSE i + 1) \in DOMAIN s
                           /\ r[i] = s[IF i < p THEN i ELSE i + 1]
  BY <1>2, <1>7, <1>8
<1>11. \A i, j \in DOMAIN r : (IF i < p THEN i ELSE i + 1) = (IF j < p THEN j ELSE j + 1) => i = j
  BY <1>2, <1>7
<1> QED
  BY <1>9, <1>10, <1>11 DEF r

\* remove_edge keeps the graph sound.
LEMMA RemoveEdgeKeeps ==
  ASSUME NEW g, NEW from, NEW to, SoundGraph(g)
  PROVE  SoundGraph(RemoveEdge(g, from, to).it)
<1> DEFINE places == FindEdge(g, from, to)
           p == CHOOSE i \in places : \A j \in places : i <= j
           r == RemoveAt(g.edges, p)
<1>1. CASE places = {}
  BY <1>1 DEF RemoveEdge, Fails
<1>2. CASE places # {}
  <2>0. IsSeq(g.edges) /\ DOMAIN g.edges \in SUBSET Nat
    <3>1. IsSeq(g.edges)
      BY DEF SoundGraph, GraphOk
    <3>2. Len(g.edges) \in Nat /\ DOMAIN g.edges = 1 .. Len(g.edges)
      BY <3>1, SeqFacts
    <3> QED
      BY <3>1, <3>2
  <2>1. p \in DOMAIN g.edges
    <3>1. places \in SUBSET Nat /\ places \subseteq DOMAIN g.edges
      BY <2>0 DEF FindEdge
    <3> HIDE DEF places
    <3>2. \E i \in places : \A j \in places : i <= j
      BY <1>2, <3>1, LeastExists
    <3> QED
      BY <3>1, <3>2
  <2>2. RemoveEdge(g, from, to).it = RebuildAdjacency(r)
    BY <1>2 DEF RemoveEdge, Succeeds
  <2> HIDE DEF p, places
  <2> DEFINE old(i) == IF i < p THEN i ELSE i + 1
  <2>3. /\ IsSeq(r)
        /\ \A i \in DOMAIN r : old(i) \in DOMAIN g.edges /\ r[i] = g.edges[old(i)]
        /\ \A i, j \in DOMAIN r : old(i) = old(j) => i = j
    BY <2>0, <2>1, RemoveAtIs
  <2> HIDE DEF r, old
  <2>4. GraphOk(RebuildAdjacency(r)) /\ RebuildAdjacency(r).edges = r
    BY <2>3, RebuildKeeps
  <2>5. Distinct(r)
    BY <2>3 DEF Distinct, SoundGraph
  <2>6. ~ Cyclic(r)
    <3> SUFFICES ASSUME Cyclic(r) PROVE FALSE
      OBVIOUS
    <3>1. PICK T : T # {} /\ \A t \in T : \E i \in DOMAIN r : r[i].to = t /\ r[i].from \in T
      BY DEF Cyclic
    <3>2. \A t \in T : \E i \in DOMAIN g.edges : g.edges[i].to = t /\ g.edges[i].from \in T
      BY <2>3, <3>1
    <3>3. T \in SUBSET {g.edges[i].to : i \in DOMAIN g.edges}
      BY <3>2
    <3> QED
      BY <3>1, <3>2, <3>3 DEF Cyclic, SoundGraph
  <2> QED
    BY <2>2, <2>4, <2>5, <2>6 DEF SoundGraph
<1> QED
  BY <1>1, <1>2

-----------------------------------------------------------------------------
(* The depth-first walk of detect_cycles                                   *)

Leads(g, a, b) == \E i \in DOMAIN g.edges : g.edges[i].from = a /\ g.edges[i].to = b

\* d[j] is how much of the path lies below the j-th entry of the stack: an entry
\* that leaves a table stands for the next table of the path, and one that
\* enters a table was put there by the last table of the path so far.
Depth(g, stack, path, d) ==
  /\ d[0] = 0 /\ d[Len(stack)] = Len(path)
  /\ \A j \in 0 .. Len(stack) : d[j] \in 0 .. Len(path) /\ \A i \in 0 .. j : d[i] <= d[j]
  /\ \A j \in 1 .. Len(stack) :
       /\ stack[j].node \in GraphTables(g)
       /\ stack[j].entering \in BOOLEAN
       /\ stack[j].entering =>
            d[j] = d[j - 1] /\ (d[j] # 0 => Leads(g, path[d[j]], stack[j].node))
       /\ ~ stack[j].entering => d[j] = d[j - 1] + 1 /\ path[d[j]] = stack[j].node

\* The state of a walk that has met no cycle: the path is a chain of relations,
\* and every gray table is on it.
WalkOk(g, s) ==
  /\ s = [stack |-> s.stack, path |-> s.path, cycles |-> s.cycles, color |-> s.color]
  /\ s.cycles = <<>>
  /\ IsSeq(s.stack) /\ IsSeq(s.path)
  /\ s.color \in [GraphTables(g) -> {"White", "Gray", "Black"}]
  /\ \A t \in GraphTables(g) : s.color[t] = "Gray" => \E i \in DOMAIN s.path : s.path[i] = t
  /\ \A i \in 1 .. Len(s.path) - 1 : Leads(g, s.path[i], s.path[i + 1])
  /\ \E d : Depth(g, s.stack, s.path, d)

White(g, s) == {t \in GraphTables(g) : s.color[t] = "White"}
Ahead(g, s) == {i \in DOMAIN g.edges : g.edges[i].from \in White(g, s)}

\* What a walk has still to do.
ToDo(g, s) == Len(s.stack) + Cardinality(White(g, s)) + Cardinality(Ahead(g, s))

\* A sequence without its last element.
LEMMA FrontIs ==
  ASSUME NEW s, IsSeq(s), s # <<>>
  PROVE  /\ Len(s) \in Nat \ {0} /\ Last(s) = s[Len(s)]
         /\ IsSeq(Front(s)) /\ Len(Front(s)) = Len(s) - 1
         /\ \A i \in 1 .. Len(s) - 1 : Front(s)[i] = s[i]
<1> DEFINE S == {s[i] : i \in DOMAIN s}
           f == Front(s)
<1>1. s \in Seq(S)
  BY DEF IsSeq
<1> HIDE DEF S
<1>2. Len(s) \in Nat \ {0} /\ Last(s) = s[Len(s)]
  BY <1>1 DEF Last
<1>3. PICK m \in Nat : m = Len(s) - 1
  BY <1>2
<1>4. f = SubSeq(s, 1, m)
  BY <1>3 DEF Front
<1>5. f = [i \in 1 .. m |-> s[i]]
  BY <1>1, <1>2, <1>3, <1>4
<1> HIDE DEF f
<1>6. f = [i \in 1 .. m |-> f[i]] /\ \A i \in 1 .. m : f[i] = s[i]
  BY <1>5
<1>7. IsSeq(f) /\ Len(f) = m
  BY <1>6, SeqIntro
<1> QED
  BY <1>2, <1>3, <1>6, <1>7 DEF f

\* An entry that was to enter a table is taken off the stack.
LEMMA DepthPop ==
  ASSUME NEW g, NEW stack, NEW path, NEW d, IsSeq(stack), IsSeq(path), stack # <<>>,
         Depth(g, stack, path, d), Last(stack).entering
  PROVE  Depth(g, Front(stack), path, d)
<1> DEFINE n == Len(stack)
<1>1. /\ n \in Nat \ {0} /\ Last(stack) = stack[n]
      /\ Len(Front(stack)) = n - 1 /\ \A i \in 1 .. n - 1 : Front(stack)[i] = stack[i]
  BY FrontIs
<1>2. n \in 1 .. n /\ 0 .. n - 1 \subseteq 0 .. n /\ 1 .. n - 1 \subseteq 1 .. n
  BY <1>1
<1>3. d[n - 1] = Len(path)
  BY <1>1, <1>2 DEF Depth
<1> QED
  BY <1>1, <1>2, <1>3 DEF Depth

\* A table is left: it was the last of the path.
LEMMA DepthLeave ==
  ASSUME NEW g, NEW stack, NEW path, NEW d, IsSeq(stack), IsSeq(path), stack # <<>>,
         Depth(g, stack, path, d), ~ Last(stack).entering
  PROVE  /\ path # <<>> /\ Last(path) = Last(stack).node
         /\ Depth(g, Front(stack), Front(path), d)
<1> DEFINE n == Len(stack)
           m == Len(path)
<1>1. /\ n \in Nat \ {0} /\ Last(stack) = stack[n]
      /\ Len(Front(stack)) = n - 1 /\ \A i \in 1 .. n - 1 : Front(stack)[i] = stack[i]
  BY FrontIs
<1>2. n \in 1 .. n /\ 0 .. n - 1 \subseteq 0 .. n /\ 1 .. n - 1 \subseteq 1 .. n
      /\ n - 1 \in 0 .. n /\ n \in 0 .. n /\ m \in Nat
  BY <1>1, SeqFacts
<1>3. d[n] = m /\ d[n] = d[n - 1] + 1 /\ d[n - 1] \in Nat /\ path[m] = stack[n].node
  BY <1>1, <1>2 DEF Depth
<1>4. m \in Nat \ {0} /\ d[n - 1] = m - 1
  BY <1>2, <1>3
<1>5. path # <<>>
  BY <1>4
<1>6. /\ Last(path) = path[m] /\ Len(Front(path)) = m - 1
      /\ \A i \in 1 .. m - 1 : Front(path)[i] = path[i]
  BY <1>5, FrontIs
<1>7. \A j \in 0 .. n - 1 : d[j] \in 0 .. m - 1
  <2> TAKE j \in 0 .. n - 1
  <2>1. d[j] \in 0 .. m /\ d[j] <= d[n - 1]
    BY <1>2 DEF Depth
  <2> QED
    BY <1>4, <2>1
<1>8. ASSUME NEW j \in 1 .. n - 1
      PROVE  /\ stack[j].entering =>
                  d[j] = d[j - 1] /\ (d[j] # 0 => Leads(g, Front(path)[d[j]], stack[j].node))
             /\ ~ stack[j].entering => d[j] = d[j - 1] + 1 /\ Front(path)[d[j]] = stack[j].node
  <2>1. j \in 1 .. n /\ j \in 0 .. n - 1 /\ j - 1 \in 0 .. n - 1
    BY <1>1
  <2>2. /\ stack[j].entering => d[j] = d[j - 1] /\ (d[j] # 0 => Leads(g, path[d[j]], stack[j].node))
        /\ ~ stack[j].entering => d[j] = d[j - 1] + 1 /\ path[d[j]] = stack[j].node
    BY <2>1 DEF Depth
  <2>3. d[j] \in 0 .. m - 1 /\ d[j - 1] \in 0 .. m - 1
    BY <1>7, <2>1
  <2>4. d[j] # 0 => Front(path)[d[j]] = path[d[j]]
    BY <1>6, <2>3
  <2>5. d[j] = d[j - 1] + 1 => d[j] # 0
    BY <2>3
  <2> QED
    BY <2>2, <2>4, <2>5
<1>9. d[0] = 0 /\ \A j \in 0 .. n - 1 : \A i \in 0 .. j : d[i] <= d[j]
  BY <1>2 DEF Depth
<1>10. \A j \in 1 .. n - 1 : stack[j].node \in GraphTables(g) /\ stack[j].entering \in BOOLEAN
  BY <1>2 DEF Depth
<1>11. Depth(g, Front(stack), Front(path), d)
  BY <1>1, <1>4, <1>6, <1>7, <1>8, <1>9, <1>10 DEF Depth
<1> QED
  BY <1>1, <1>3, <1>5, <1>6, <1>11

\* A table that the last one of the path leads to is put on the stack.
LEMMA DepthPush ==
  ASSUME NEW g, NEW stack, NEW path, NEW d, NEW node \in GraphTables(g),
         IsSeq(stack), IsSeq(path), Depth(g, stack, path, d),
         Len(path) # 0 => Leads(g, path[Len(path)], node)
  PROVE  \E e : Depth(g, Append(stack, [entering |-> TRUE, node |-> node]), path, e)
<1> DEFINE n == Len(stack)
           m == Len(path)
           top == [entering |-> TRUE, node |-> node]
           more == Append(stack, top)
           e == [j \in 0 .. n + 1 |-> IF j = n + 1 THEN m ELSE d[j]]
<1>1. /\ n \in Nat /\ m \in Nat
      /\ Len(more) = n + 1 /\ more[n + 1] = top /\ \A i \in 1 .. n : more[i] = stack[i]
  BY SeqFacts, SeqLonger
<1>2. /\ \A j \in 0 .. n + 1 : j \in 0 .. n \/ j = n + 1
      /\ \A j \in 0 .. n : j # n + 1 /\ j \in 0 .. n + 1
      /\ \A j \in 1 .. n + 1 : j \in 1 .. n \/ j = n + 1
      /\ n + 1 \in 0 .. n + 1 /\ n \in 0 .. n /\ 0 \in 0 .. n
  BY <1>1
<1>3. e[n + 1] = m /\ \A j \in 0 .. n : e[j] = d[j]
  BY <1>2
<1> HIDE DEF e, more
<1>4. \A j \in 0 .. n : d[j] \in 0 .. m /\ \A i \in 0 .. j : d[i] <= d[j]
  BY DEF Depth
<1>5. e[0] = 0 /\ e[n + 1] = m
  BY <1>2, <1>3 DEF Depth
<1>6. ASSUME NEW j \in 0 .. n + 1 PROVE e[j] \in 0 .. m /\ \A i \in 0 .. j : e[i] <= e[j]
  <2>1. CASE j = n + 1
    <3>1. \A i \in 0 .. n : e[i] \in 0 .. m
      BY <1>3, <1>4
    <3>2. m \in 0 .. m /\ m <= m /\ \A x \in 0 .. m : x <= m
      BY <1>1
    <3>3. \A i \in 0 .. n + 1 : e[i] <= m
      BY <1>2, <1>3, <3>1, <3>2
    <3> QED
      BY <1>3, <2>1, <3>2, <3>3
  <2>2. CASE j \in 0 .. n
    <3>1. \A i \in 0 .. j : i \in 0 .. n
      BY <1>1, <2>2
    <3> QED
      BY <1>3, <1>4, <2>2, <3>1
  <2> QED
    BY <1>2, <2>1, <2>2
<1>7. ASSUME NEW j \in 1 .. n + 1
      PROVE  /\ more[j].node \in GraphTables(g) /\ more[j].entering \in BOOLEAN
             /\ more[j].entering =>
                  e[j] = e[j - 1] /\ (e[j] # 0 => Leads(g, path[e[j]], more[j].node))
             /\ ~ more[j].entering => e[j] = e[j - 1] + 1 /\ path[e[j]] = more[j].node
  <2>1. CASE j = n + 1
    <3>1. e[j] = m /\ e[j - 1] = d[n] /\ more[j] = top
      BY <1>1, <1>2, <1>3, <2>1
    <3>2. d[n] = m
      BY DEF Depth
    <3> QED
      BY <3>1, <3>2
  <2>2. CASE j \in 1 .. n
    <3>1. j \in 0 .. n /\ j - 1 \in 0 .. n
      BY <1>1, <2>2
    <3>2. e[j] = d[j] /\ e[j - 1] = d[j - 1] /\ more[j] = stack[j]
      BY <1>1, <1>3, <2>2, <3>1
    <3> QED
      BY <2>2, <3>2 DEF Depth
  <2> QED
    BY <1>2, <2>1, <2>2
<1>8. Depth(g, more, path, e)
  BY <1>1, <1>5, <1>6, <1>7 DEF Depth
<1> QED
  BY <1>8 DEF more

\* A table is entered: it is the last of the path until it is left.
LEMMA DepthEnter ==
  ASSUME NEW g, NEW stack, NEW path, NEW d, NEW node \in GraphTables(g),
         IsSeq(stack), IsSeq(path), Depth(g, stack, path, d)
  PROVE  \E e : Depth(g, Append(stack, [entering |-> FALSE, node |-> node]), Append(path, node), e)
<1> DEFINE n == Len(stack)
           m == Len(path)
           top == [entering |-> FALSE, node |-> node]
           more == Append(stack, top)
           way == Append(path, node)
           e == [j \in 0 .. n + 1 |-> IF j = n + 1 THEN m + 1 ELSE d[j]]
<1>1. /\ n \in Nat /\ m \in Nat
      /\ Len(more) = n + 1 /\ more[n + 1] = top /\ \A i \in 1 .. n : more[i] = stack[i]
      /\ Len(way) = m + 1 /\ way[m + 1] = node /\ \A i \in 1 .. m : way[i] = path[i]
  BY SeqFacts, SeqLonger
<1>2. /\ \A j \in 0 .. n + 1 : j \in 0 .. n \/ j = n + 1
      /\ \A j \in 0 .. n : j # n + 1 /\ j \in 0 .. n + 1
      /\ \A j \in 1 .. n + 1 : j \in 1 .. n \/ j = n + 1
      /\ n + 1 \in 0 .. n + 1 /\ n \in 0 .. n /\ 0 \in 0 .. n
  BY <1>1
<1>3. e[n + 1] = m + 1 /\ \A j \in 0 .. n : e[j] = d[j]
  BY <1>2
<1> HIDE DEF e, more, way
<1>4. \A j \in 0 .. n : d[j] \in 0 .. m /\ \A i \in 0 .. j : d[i] <= d[j]
  BY DEF Depth
<1>5. e[0] = 0 /\ e[n + 1] = m + 1
  BY <1>2, <1>3 DEF Depth
<1>6. ASSUME NEW j \in 0 .. n + 1 PROVE e[j] \in 0 .. m + 1 /\ \A i \in 0 .. j : e[i] <= e[j]
  <2>1. CASE j = n + 1
    <3>1. \A i \in 0 .. n : e[i] \in 0 .. m
      BY <1>3, <1>4
    <3>2. m + 1 \in 0 .. m + 1 /\ m + 1 <= m + 1 /\ \A x \in 0 .. m : x <= m + 1
      BY <1>1
    <3>3. \A i \in 0 .. n + 1 : e[i] <= m + 1
      BY <1>2, <1>3, <3>1, <3>2
    <3> QED
      BY <1>3, <2>1, <3>2, <3>3
  <2>2. CASE j \in 0 .. n
    <3>1. \A i \in 0 .. j : i \in 0 .. n
      BY <1>1, <2>2
    <3>2. d[j] \in 0 .. m + 1
      BY <1>1, <1>4, <2>2
    <3> QED
      BY <1>3, <1>4, <2>2, <3>1, <3>2
  <2> QED
    BY <1>2, <2>1, <2>2
<1>7. ASSUME NEW j \in 1 .. n + 1
      PROVE  /\ more[j].node \in GraphTables(g) /\ more[j].entering \in BOOLEAN
             /\ more[j].entering =>
                  e[j] = e[j - 1] /\ (e[j] # 0 => Leads(g, way[e[j]], more[j].node))
             /\ ~ more[j].entering => e[j] = e[j - 1] + 1 /\ way[e[j]] = more[j].node
  <2>1. CASE j = n + 1
    <3>1. e[j] = m + 1 /\ e[j - 1] = d[n] /\ more[j] = top
      BY <1>1, <1>2, <1>3, <2>1
    <3>2. d[n] = m
      BY DEF Depth
    <3> QED
      BY <1>1, <3>1, <3>2
  <2>2. CASE j \in 1 .. n
    <3>1. j \in 0 .. n /\ j - 1 \in 0 .. n
      BY <1>1, <2>2
    <3>2. e[j] = d[j] /\ e[j - 1] = d[j - 1] /\ more[j] = stack[j]
      BY <1>1, <1>3, <2>2, <3>1
    <3>3. d[j] \in 0 .. m /\ d[j - 1] \in 0 .. m
      BY <1>4, <3>1
    <3>4. d[j] # 0 => way[d[j]] = path[d[j]]
      BY <1>1, <3>3
    <3>5. d[j] = d[j - 1] + 1 => d[j] # 0
      BY <3>3
    <3>6. /\ stack[j].node \in GraphTables(g) /\ stack[j].entering \in BOOLEAN
          /\ stack[j].entering => d[j] = d[j - 1] /\ (d[j] # 0 => Leads(g, path[d[j]], stack[j].node))
          /\ ~ stack[j].entering => d[j] = d[j - 1] + 1 /\ path[d[j]] = stack[j].node
      BY <2>2 DEF Depth
    <3> QED
      BY <3>2, <3>4, <3>5, <3>6
  <2> QED
    BY <1>2, <2>1, <2>2
<1>8. Depth(g, more, way, e)
  BY <1>1, <1>5, <1>6, <1>7 DEF Depth
<1> QED
  BY <1>8 DEF more, way

\* Where the relations close no cycle, the walk never comes back to a gray table.
LEMMA NothingGrayAhead ==
  ASSUME NEW g, NEW s, IsSeq(g.edges), ~ Cyclic(g.edges), WalkOk(g, s), s.stack # <<>>,
         Last(s.stack).entering
  PROVE  /\ Last(s.stack).node \in GraphTables(g)
         /\ s.color[Last(s.stack).node] # "Gray"
         /\ Len(s.path) # 0 => Leads(g, s.path[Len(s.path)], Last(s.stack).node)
<1> DEFINE n == Len(s.stack)
           m == Len(s.path)
           node == Last(s.stack).node
<1>1. PICK d : Depth(g, s.stack, s.path, d)
  BY DEF WalkOk
<1>2. n \in Nat \ {0} /\ Last(s.stack) = s.stack[n] /\ m \in Nat /\ DOMAIN s.path = 1 .. m
  BY FrontIs, SeqFacts DEF WalkOk
<1>3. n \in 1 .. n
  BY <1>2
<1>4. node \in GraphTables(g) /\ d[n] = m /\ (d[n] # 0 => Leads(g, s.path[d[n]], node))
  BY <1>1, <1>2, <1>3 DEF Depth
<1>5. ASSUME s.color[node] = "Gray" PROVE FALSE
  <2>1. PICK i \in 1 .. m : s.path[i] = node
    BY <1>2, <1>4, <1>5 DEF WalkOk
  <2> DEFINE T == {s.path[k] : k \in i .. m}
  <2>2. Leads(g, s.path[m], node) /\ i \in i .. m /\ m \in i .. m
    BY <1>2, <1>4, <2>1
  <2>3. ASSUME NEW t \in T PROVE \E a \in T : Leads(g, a, t)
    <3>1. PICK k \in i .. m : t = s.path[k]
      BY <2>3
    <3>2. CASE k = i
      BY <2>1, <2>2, <3>1, <3>2
    <3>3. CASE k # i
      <4>1. k - 1 \in i .. m /\ k - 1 \in 1 .. m - 1 /\ (k - 1) + 1 = k
        BY <1>2, <2>1, <3>3
      <4>2. Leads(g, s.path[k - 1], s.path[(k - 1) + 1])
        BY <4>1 DEF WalkOk
      <4> QED
        BY <3>1, <4>1, <4>2
    <3> QED
      BY <3>2, <3>3
  <2>4. T # {}
    BY <2>2
  <2> HIDE DEF T
  <2>5. \A t \in T : \E j \in DOMAIN g.edges : g.edges[j].to = t /\ g.edges[j].from \in T
    BY <2>3 DEF Leads
  <2>6. T \in SUBSET {g.edges[j].to : j \in DOMAIN g.edges}
    BY <2>5
  <2> QED
    BY <2>4, <2>5, <2>6 DEF Cyclic
<1> QED
  BY <1>4, <1>5

\* The tables behind the places of a table's edges.
LEMMA PlacesAre ==
  ASSUME NEW g, GraphOk(g), NEW node
  PROVE  /\ IsSeq(Places(g, node))
         /\ \A k \in DOMAIN Places(g, node) :
              /\ Places(g, node)[k] \in DOMAIN g.edges
              /\ g.edges[Places(g, node)[k]].from = node
         /\ \A k, l \in DOMAIN Places(g, node) :
              Places(g, node)[k] = Places(g, node)[l] => k = l
<1>1. CASE node \in DOMAIN g.adjacency
  BY <1>1 DEF GraphOk, Places
<1>2. CASE node \notin DOMAIN g.adjacency
  <2>1. Places(g, node) = <<>> /\ IsSeq(<<>>) /\ DOMAIN <<>> = {}
    BY <1>2 DEF Places, IsSeq
  <2> QED
    BY <2>1
<1> QED
  BY <1>1, <1>2

\* Both ends of an edge are tables of the graph.
LEMMA EndsAreTables ==
  ASSUME NEW g, NEW i \in DOMAIN g.edges
  PROVE  g.edges[i].from \in GraphTables(g) /\ g.edges[i].to \in GraphTables(g)
  BY DEF GraphTables

\* One edge of the table that was entered: its target is put on the stack,
\* unless it is black.
LEMMA OpenedKeeps ==
  ASSUME NEW g, NEW s, WalkOk(g, s), NEW i \in DOMAIN g.edges,
         Len(s.path) # 0, s.path[Len(s.path)] = g.edges[i].from
  PROVE  /\ WalkOk(g, Opened(g, s, i))
         /\ Opened(g, s, i).path = s.path /\ Opened(g, s, i).color = s.color
         /\ Len(s.stack) \in Nat
         /\ Len(Opened(g, s, i).stack) \in Nat /\ Len(Opened(g, s, i).stack) <= Len(s.stack) + 1
<1> DEFINE node == g.edges[i].to
           top == [entering |-> TRUE, node |-> node]
           after == Opened(g, s, i)
<1>1. node \in GraphTables(g) /\ Leads(g, s.path[Len(s.path)], node)
  BY EndsAreTables DEF Leads
<1>2. Len(s.stack) \in Nat
  BY SeqFacts DEF WalkOk
<1>3. CASE s.color[node] = "Black"
  <2>1. after = s
    BY <1>3 DEF Opened
  <2> QED
    BY <1>2, <2>1
<1>4. CASE s.color[node] # "Black"
  <2>1. s = [stack |-> s.stack, path |-> s.path, cycles |-> s.cycles, color |-> s.color]
    BY DEF WalkOk
  <2>2. after = [s EXCEPT !.stack = Append(s.stack, top)]
    BY <1>4 DEF Opened
  <2>3. /\ after.stack = Append(s.stack, top) /\ after.path = s.path
        /\ after.cycles = s.cycles /\ after.color = s.color
        /\ after = [stack |-> after.stack, path |-> after.path,
                    cycles |-> after.cycles, color |-> after.color]
    BY <2>1, <2>2
  <2>4. IsSeq(after.stack) /\ Len(after.stack) = Len(s.stack) + 1
    BY <2>3, SeqLonger DEF WalkOk
  <2>5. \E e : Depth(g, after.stack, after.path, e)
    <3>1. PICK d : Depth(g, s.stack, s.path, d)
      BY DEF WalkOk
    <3>2. \E e : Depth(g, Append(s.stack, [entering |-> TRUE, node |-> node]), s.path, e)
      BY <1>1, <3>1, DepthPush DEF WalkOk
    <3> QED
      BY <2>3, <3>2
  <2> HIDE DEF after
  <2>6. WalkOk(g, after)
    BY <2>3, <2>4, <2>5 DEF WalkOk
  <2> QED
    BY <1>2, <2>3, <2>4, <2>6 DEF after
<1> QED
  BY <1>3, <1>4

\* The edges of a table that was entered: one after another.
LEMMA OpenLoop ==
  ASSUME NEW g, NEW base, NEW items, IsSeq(items)
  PROVE  \E c : /\ LoopRounds(<<"open", g>>, c, base, items)
                /\ Opening(g, base, items) = c[Len(items)]
<1> DEFINE P(f) == f = [s \in SUBSET (DOMAIN items) |->
                          IF s = {} THEN base ELSE Opened(g, f[s \ {Max(s)}], items[Max(s)])]
           F == CHOOSE f : P(f)
<1>1. Len(items) \in Nat /\ DOMAIN items = 1 .. Len(items)
  BY SeqFacts
<1>2. \A f : P(f) <=> LoopOver(<<"open", g>>, f, base, items, Len(items))
  BY <1>1 DEF LoopOver, LoopBody
<1>3. \E f : P(f)
  BY <1>1, <1>2, LoopExists
<1>4. P(F)
  BY <1>3
<1>5. Opening(g, base, items) = F[DOMAIN items]
  BY DEF Opening, FoldLeft, MapThenFoldSet
<1> HIDE DEF F
<1>6. LoopOver(<<"open", g>>, F, base, items, Len(items))
  BY <1>2, <1>4
<1> QED
  BY <1>1, <1>5, <1>6, LoopHasRounds

\* All edges of the table that was entered.
LEMMA OpeningKeeps ==
  ASSUME NEW g, GraphOk(g), NEW s, WalkOk(g, s), Len(s.path) # 0
  PROVE  LET places == Places(g, s.path[Len(s.path)])
             after == Opening(g, s, places)
         IN  /\ WalkOk(g, after) /\ after.path = s.path /\ after.color = s.color
             /\ Len(after.stack) \in Nat /\ Len(s.stack) \in Nat /\ Len(places) \in Nat
             /\ Len(after.stack) <= Len(s.stack) + Len(places)
<1> DEFINE node == s.path[Len(s.path)]
           places == Places(g, node)
           n == Len(places)
<1>1. /\ IsSeq(places)
      /\ \A k \in DOMAIN places : places[k] \in DOMAIN g.edges /\ g.edges[places[k]].from = node
  BY PlacesAre
<1>2. n \in Nat /\ DOMAIN places = 1 .. n /\ Len(s.stack) \in Nat
  BY <1>1, SeqFacts DEF WalkOk
<1> HIDE DEF places
<1>3. PICK c : /\ LoopRounds(<<"open", g>>, c, s, places)
               /\ Opening(g, s, places) = c[n]
  BY <1>1, OpenLoop
<1> DEFINE G == {k \in 0 .. n : /\ WalkOk(g, c[k]) /\ c[k].path = s.path /\ c[k].color = s.color
                                /\ Len(c[k].stack) \in Nat
                                /\ Len(c[k].stack) <= Len(s.stack) + k}
<1>4. 0 \in G
  <2>1. c[0] = s
    BY <1>3 DEF LoopRounds
  <2> QED
    BY <1>2, <2>1
<1>5. ASSUME NEW k \in 1 .. n, k - 1 \in G PROVE k \in G
  <2> DEFINE b == c[k - 1]
             o == Opened(g, b, places[k])
  <2>1. c[k] = o
    BY <1>3 DEF LoopRounds, LoopBody
  <2>2. /\ WalkOk(g, b) /\ b.path = s.path /\ b.color = s.color
        /\ Len(b.stack) \in Nat /\ Len(b.stack) <= Len(s.stack) + (k - 1)
    BY <1>5
  <2>3. places[k] \in DOMAIN g.edges /\ b.path[Len(b.path)] = g.edges[places[k]].from
        /\ Len(b.path) # 0
    BY <1>1, <1>2, <2>2
  <2> HIDE DEF b
  <2>4. /\ WalkOk(g, o) /\ o.path = b.path /\ o.color = b.color
        /\ Len(o.stack) \in Nat /\ Len(o.stack) <= Len(b.stack) + 1
    BY <2>2, <2>3, OpenedKeeps
  <2> HIDE DEF o
  <2>5. Len(o.stack) <= Len(s.stack) + k
    BY <1>2, <2>2, <2>4
  <2>6. k \in 0 .. n
    BY <1>2
  <2> QED
    BY <2>1, <2>2, <2>4, <2>5, <2>6
<1> HIDE DEF G
<1>6. \A k \in 0 .. n : k \in G
  BY <1>2, <1>4, <1>5, UpTo
<1>7. n \in G
  BY <1>2, <1>6
<1>8. /\ WalkOk(g, c[n]) /\ c[n].path = s.path /\ c[n].color = s.color
      /\ Len(c[n].stack) \in Nat /\ Len(c[n].stack) <= Len(s.stack) + n
  BY <1>7 DEF G
<1> QED
  BY <1>2, <1>3, <1>8 DEF places

\* The table on the stack is left.
LEMMA LeaveKeeps ==
  ASSUME NEW g, NEW s, WalkOk(g, s), s.stack # <<>>, ~ Last(s.stack).entering,
         NEW after,
         after = [stack |-> after.stack, path |-> after.path,
                  cycles |-> after.cycles, color |-> after.color],
         after.stack = Front(s.stack), after.path = Front(s.path), after.cycles = s.cycles,
         after.color = [s.color EXCEPT ![Last(s.stack).node] = "Black"]
  PROVE  /\ WalkOk(g, after) /\ White(g, after) \subseteq White(g, s)
         /\ Len(s.stack) \in Nat \ {0} /\ Len(after.stack) = Len(s.stack) - 1
<1> DEFINE node == Last(s.stack).node
           m == Len(s.path)
<1>1. after.color = [s.color EXCEPT ![node] = "Black"]
  OBVIOUS
<1>3. PICK d : Depth(g, s.stack, s.path, d)
  BY DEF WalkOk
<1>4. s.path # <<>> /\ Last(s.path) = node /\ Depth(g, after.stack, after.path, d)
  BY <1>3, DepthLeave DEF WalkOk
<1>5. /\ IsSeq(after.stack) /\ Len(after.stack) = Len(s.stack) - 1 /\ Len(s.stack) \in Nat \ {0}
      /\ Last(s.stack) = s.stack[Len(s.stack)]
  BY FrontIs DEF WalkOk
<1>6. /\ IsSeq(after.path) /\ Len(after.path) = m - 1 /\ m \in Nat \ {0}
      /\ Last(s.path) = s.path[m]
      /\ \A i \in 1 .. m - 1 : after.path[i] = s.path[i]
  BY <1>4, FrontIs DEF WalkOk
<1>7. DOMAIN s.path = 1 .. m /\ DOMAIN after.path = 1 .. m - 1
  BY <1>6, SeqFacts DEF WalkOk
<1>8. s.color \in [GraphTables(g) -> {"White", "Gray", "Black"}]
  BY DEF WalkOk
<1>9. /\ after.color \in [GraphTables(g) -> {"White", "Gray", "Black"}]
      /\ \A t \in GraphTables(g) : after.color[t] = IF t = node THEN "Black" ELSE s.color[t]
  BY <1>1, <1>8
<1>10. ASSUME NEW t \in GraphTables(g), after.color[t] = "Gray"
       PROVE  \E i \in DOMAIN after.path : after.path[i] = t
  <2>1. t # node /\ s.color[t] = "Gray"
    BY <1>9, <1>10
  <2>2. PICK i \in 1 .. m : s.path[i] = t
    BY <1>7, <2>1 DEF WalkOk
  <2>3. i \in 1 .. m - 1
    BY <1>4, <1>6, <2>1, <2>2
  <2> QED
    BY <1>6, <1>7, <2>2, <2>3
<1>11. \A i \in 1 .. Len(after.path) - 1 : Leads(g, after.path[i], after.path[i + 1])
  <2> TAKE i \in 1 .. Len(after.path) - 1
  <2>1. i \in 1 .. m - 1 /\ i + 1 \in 1 .. m - 1
    BY <1>6
  <2>2. Leads(g, s.path[i], s.path[i + 1])
    BY <2>1 DEF WalkOk
  <2> QED
    BY <1>6, <2>1, <2>2
<1>12. after.cycles = <<>>
  BY DEF WalkOk
<1>13. WalkOk(g, after)
  BY <1>4, <1>5, <1>6, <1>9, <1>10, <1>11, <1>12 DEF WalkOk
<1>14. White(g, after) \subseteq White(g, s)
  BY <1>9 DEF White
<1> QED
  BY <1>5, <1>13, <1>14

\* An entry that was to enter a black table is dropped.
LEMMA StackDropKeeps ==
  ASSUME NEW g, NEW s, WalkOk(g, s), s.stack # <<>>, Last(s.stack).entering
  PROVE  LET after == [s EXCEPT !.stack = Front(s.stack)]
         IN  /\ WalkOk(g, after) /\ after.color = s.color /\ after.path = s.path
             /\ Len(s.stack) \in Nat \ {0} /\ Len(after.stack) = Len(s.stack) - 1
<1> DEFINE stack == Front(s.stack)
           after == [s EXCEPT !.stack = stack]
<1>1. s = [stack |-> s.stack, path |-> s.path, cycles |-> s.cycles, color |-> s.color]
  BY DEF WalkOk
<1>2. IsSeq(stack) /\ Len(stack) = Len(s.stack) - 1 /\ Len(s.stack) \in Nat \ {0}
  BY FrontIs DEF WalkOk
<1>3. PICK d : Depth(g, stack, s.path, d)
  BY DepthPop DEF WalkOk
<1> HIDE DEF stack
<1>4. /\ after.stack = stack /\ after.path = s.path /\ after.cycles = s.cycles
      /\ after.color = s.color
      /\ after = [stack |-> after.stack, path |-> after.path,
                  cycles |-> after.cycles, color |-> after.color]
  BY <1>1
<1> HIDE DEF after
<1>5. WalkOk(g, after)
  BY <1>2, <1>3, <1>4 DEF WalkOk
<1> QED
  BY <1>2, <1>4, <1>5 DEF after, stack

\* A white table is entered, before its edges are looked at.
LEMMA EnterKeeps ==
  ASSUME NEW g, NEW s, NEW node \in GraphTables(g), WalkOk(g, s), s.color[node] = "White",
         Len(s.path) # 0 => Leads(g, s.path[Len(s.path)], node),
         NEW after,
         after = [stack |-> after.stack, path |-> after.path,
                  cycles |-> after.cycles, color |-> after.color],
         after.stack = Append(s.stack, [entering |-> FALSE, node |-> node]),
         after.path = Append(s.path, node), after.cycles = s.cycles,
         after.color = [s.color EXCEPT ![node] = "Gray"]
  PROVE  /\ WalkOk(g, after)
         /\ Len(s.stack) \in Nat /\ Len(after.stack) = Len(s.stack) + 1
         /\ Len(after.path) # 0 /\ after.path[Len(after.path)] = node
<1> DEFINE stack == Append(s.stack, [entering |-> FALSE, node |-> node])
           path == Append(s.path, node)
           color == [s.color EXCEPT ![node] = "Gray"]
           m == Len(s.path)
<1>1. after.stack = stack /\ after.path = path /\ after.color = color
  OBVIOUS
<1>2. IsSeq(stack) /\ Len(stack) = Len(s.stack) + 1 /\ Len(s.stack) \in Nat
  BY SeqLonger, SeqFacts DEF WalkOk
<1>3. /\ IsSeq(path) /\ Len(path) = m + 1 /\ m \in Nat /\ path[m + 1] = node
      /\ \A i \in 1 .. m : path[i] = s.path[i]
  BY SeqLonger, SeqFacts DEF WalkOk
<1>4. PICK d : Depth(g, s.stack, s.path, d)
  BY DEF WalkOk
<1>5. \E e : Depth(g, stack, path, e)
  BY <1>4, DepthEnter DEF WalkOk
<1>6. /\ color \in [GraphTables(g) -> {"White", "Gray", "Black"}]
      /\ \A t \in GraphTables(g) : color[t] = IF t = node THEN "Gray" ELSE s.color[t]
  BY DEF WalkOk
<1> HIDE DEF stack, path, color
<1>7. DOMAIN s.path = 1 .. m /\ DOMAIN path = 1 .. m + 1
  BY <1>3, SeqFacts DEF WalkOk
<1>8. ASSUME NEW t \in GraphTables(g), color[t] = "Gray"
      PROVE  \E i \in DOMAIN path : path[i] = t
  <2>1. CASE t = node
    <3>1. m + 1 \in DOMAIN path
      BY <1>3, <1>7
    <3> QED
      BY <1>3, <2>1, <3>1
  <2>2. CASE t # node
    <3>1. PICK i \in 1 .. m : s.path[i] = t
      BY <1>6, <1>7, <1>8, <2>2 DEF WalkOk
    <3>2. i \in DOMAIN path
      BY <1>3, <1>7
    <3> QED
      BY <1>3, <3>1, <3>2
  <2> QED
    BY <2>1, <2>2
<1>9. ASSUME NEW i \in 1 .. Len(path) - 1 PROVE Leads(g, path[i], path[i + 1])
  <2>1. i \in 1 .. m
    BY <1>3
  <2>2. CASE i = m
    BY <1>3, <2>1, <2>2
  <2>3. CASE i # m
    <3>1. i \in 1 .. m - 1 /\ i + 1 \in 1 .. m
      BY <1>3, <2>1, <2>3
    <3>2. Leads(g, s.path[i], s.path[i + 1])
      BY <3>1 DEF WalkOk
    <3> QED
      BY <1>3, <2>1, <3>1, <3>2
  <2> QED
    BY <2>2, <2>3
<1>10. after.cycles = <<>>
  BY DEF WalkOk
<1>11. WalkOk(g, after)
  <2>1. IsSeq(after.stack) /\ IsSeq(after.path) /\ \E e : Depth(g, after.stack, after.path, e)
    BY <1>1, <1>2, <1>3, <1>5
  <2>2. after.color \in [GraphTables(g) -> {"White", "Gray", "Black"}]
    BY <1>1, <1>6
  <2>3. \A t \in GraphTables(g) : after.color[t] = "Gray" =>
          \E i \in DOMAIN after.path : after.path[i] = t
    BY <1>1, <1>8
  <2>4. \A i \in 1 .. Len(after.path) - 1 : Leads(g, after.path[i], after.path[i + 1])
    BY <1>1, <1>9
  <2> QED
    BY <1>10, <2>1, <2>2, <2>3, <2>4, Zenon DEF WalkOk
<1>12. Len(after.path) # 0 /\ after.path[Len(after.path)] = node
  BY <1>1, <1>3
<1> QED
  BY <1>1, <1>2, <1>11, <1>12

\* What is still to do is a number; less of it when fewer tables are white.
LEMMA ToDoFacts ==
  ASSUME NEW g, GraphOk(g), NEW s, WalkOk(g, s)
  PROVE  /\ IsFiniteSet(GraphTables(g)) /\ Cardinality(GraphTables(g)) <= 2 * Len(g.edges)
         /\ IsFiniteSet(White(g, s)) /\ IsFiniteSet(Ahead(g, s))
         /\ Cardinality(White(g, s)) \in Nat /\ Cardinality(Ahead(g, s)) \in Nat
         /\ Cardinality(White(g, s)) + Cardinality(Ahead(g, s)) <= 3 * Len(g.edges)
         /\ Len(s.stack) \in Nat /\ ToDo(g, s) \in Nat
<1> DEFINE n == Len(g.edges)
           A == {g.edges[i].from : i \in DOMAIN g.edges}
           B == {g.edges[i].to : i \in DOMAIN g.edges}
           from == [i \in 1 .. n |-> g.edges[i].from]
           to == [i \in 1 .. n |-> g.edges[i].to]
<1>1. n \in Nat /\ DOMAIN g.edges = 1 .. n
  BY SeqFacts DEF GraphOk
<1>2. A = {from[i] : i \in 1 .. n} /\ B = {to[i] : i \in 1 .. n}
  BY <1>1
<1>3. /\ IsFiniteSet({from[i] : i \in 1 .. n}) /\ Cardinality({from[i] : i \in 1 .. n}) <= n
      /\ IsFiniteSet({to[i] : i \in 1 .. n}) /\ Cardinality({to[i] : i \in 1 .. n}) <= n
  <2> HIDE DEF from, to, n
  <2> QED
    BY <1>1, ImageIsSmall
<1>4. IsFiniteSet(1 .. n) /\ Cardinality(1 .. n) = n
  <2>1. PICK m \in Int : m = n
    BY <1>1
  <2>2. IsFiniteSet(1 .. m) /\ Cardinality(1 .. m) = IF 1 > m THEN 0 ELSE m - 1 + 1
    BY FS_Interval
  <2> QED
    BY <1>1, <2>1, <2>2
<1>5. IsFiniteSet(A) /\ Cardinality(A) <= n /\ IsFiniteSet(B) /\ Cardinality(B) <= n
  BY <1>2, <1>3
<1>6. GraphTables(g) = A \cup B
  BY DEF GraphTables
<1> HIDE DEF A, B
<1>7. /\ Cardinality(A) \in Nat /\ Cardinality(B) \in Nat /\ IsFiniteSet(A \cap B)
  BY <1>5, FS_CardinalityType, FS_Intersection
<1>8. Cardinality(A \cap B) \in Nat
  BY <1>7, FS_CardinalityType
<1>9. /\ IsFiniteSet(A \cup B)
      /\ Cardinality(A \cup B) = Cardinality(A) + Cardinality(B) - Cardinality(A \cap B)
  BY <1>5, FS_Union
<1>10. Cardinality(A \cup B) <= 2 * n
  BY <1>1, <1>5, <1>7, <1>8, <1>9
<1>11. IsFiniteSet(GraphTables(g)) /\ Cardinality(GraphTables(g)) <= 2 * n
       /\ Cardinality(GraphTables(g)) \in Nat
  BY <1>6, <1>9, <1>10, FS_CardinalityType
<1>12. White(g, s) \in SUBSET GraphTables(g) /\ Ahead(g, s) \in SUBSET (1 .. n)
  BY <1>1 DEF White, Ahead
<1>13. /\ IsFiniteSet(White(g, s)) /\ Cardinality(White(g, s)) <= Cardinality(GraphTables(g))
       /\ Cardinality(White(g, s)) \in Nat
  BY <1>11, <1>12, FS_Subset, FS_CardinalityType
<1>14. /\ IsFiniteSet(Ahead(g, s)) /\ Cardinality(Ahead(g, s)) <= Cardinality(1 .. n)
       /\ Cardinality(Ahead(g, s)) \in Nat
  BY <1>4, <1>12, FS_Subset, FS_CardinalityType
<1>15. Len(s.stack) \in Nat
  BY SeqFacts DEF WalkOk
<1>16. Cardinality(White(g, s)) + Cardinality(Ahead(g, s)) <= 3 * n
  BY <1>1, <1>4, <1>11, <1>13, <1>14
<1>17. ToDo(g, s) \in Nat
  BY <1>13, <1>14, <1>15 DEF ToDo
<1> QED
  BY <1>11, <1>13, <1>14, <1>15, <1>16, <1>17

\* The edges of a white table are ahead, and no more than its places.
LEMMA AheadOfTable ==
  ASSUME NEW g, GraphOk(g), NEW s, WalkOk(g, s), NEW node \in White(g, s), NEW t,
         White(g, t) = White(g, s) \ {node}
  PROVE  /\ Cardinality(White(g, t)) = Cardinality(White(g, s)) - 1
         /\ Cardinality(Ahead(g, t)) \in Nat /\ Len(Places(g, node)) \in Nat
         /\ Cardinality(Ahead(g, t)) + Len(Places(g, node)) <= Cardinality(Ahead(g, s))
<1> DEFINE places == Places(g, node)
           n == Len(places)
           B == {i \in DOMAIN g.edges : g.edges[i].from = node}
<1>1. /\ IsSeq(places)
      /\ \A k \in DOMAIN places : places[k] \in DOMAIN g.edges /\ g.edges[places[k]].from = node
      /\ \A k, l \in DOMAIN places : places[k] = places[l] => k = l
  BY PlacesAre
<1>2. n \in Nat /\ DOMAIN places = 1 .. n /\ places = [k \in 1 .. n |-> places[k]]
  BY <1>1, SeqFacts
<1> HIDE DEF places
<1>3. /\ IsFiniteSet(White(g, s)) /\ IsFiniteSet(Ahead(g, s))
      /\ Cardinality(White(g, s)) \in Nat /\ Cardinality(Ahead(g, s)) \in Nat
  BY ToDoFacts
<1>4. Cardinality(White(g, t)) = Cardinality(White(g, s)) - 1
  BY <1>3, FS_RemoveElement
<1>5. /\ Ahead(g, t) = Ahead(g, s) \ B /\ Ahead(g, s) \cap B = B
  BY DEF Ahead
<1>6. IsFiniteSet(B)
  <2>1. B \in SUBSET Ahead(g, s)
    BY DEF Ahead
  <2> QED
    BY <1>3, <2>1, FS_Subset
<1> HIDE DEF B
<1>7. Cardinality(B) \in Nat
  BY <1>6, FS_CardinalityType
<1>8. /\ IsFiniteSet(Ahead(g, t))
      /\ Cardinality(Ahead(g, t)) = Cardinality(Ahead(g, s)) - Cardinality(B)
  <2> DEFINE F == Ahead(g, s)
  <2> HIDE DEF F
  <2>1. IsFiniteSet(F) /\ F \cap B = B
    BY <1>3, <1>5 DEF F
  <2>2. IsFiniteSet(F \ B) /\ Cardinality(F \ B) = Cardinality(F) - Cardinality(F \cap B)
    BY <2>1, FS_Difference
  <2> QED
    BY <1>5, <2>1, <2>2 DEF F
<1>9. Cardinality(Ahead(g, t)) \in Nat
  BY <1>8, FS_CardinalityType
<1>10. n <= Cardinality(B)
  <2> SUFFICES ASSUME ~ (n <= Cardinality(B)) PROVE FALSE
    OBVIOUS
  <2>1. PICK m \in Int : m = n
    BY <1>2
  <2>2. IsFiniteSet(1 .. m) /\ Cardinality(1 .. m) = IF 1 > m THEN 0 ELSE m - 1 + 1
    BY FS_Interval
  <2>3. IsFiniteSet(1 .. n) /\ Cardinality(B) < Cardinality(1 .. n)
    BY <1>2, <1>7, <2>1, <2>2
  <2>4. places \in [1 .. n -> B]
    <3>1. \A k \in 1 .. n : places[k] \in B
      BY <1>1, <1>2 DEF B
    <3> QED
      BY <1>2, <3>1
  <2>5. \E k, l \in 1 .. n : k # l /\ places[k] = places[l]
    BY <1>6, <2>3, <2>4, FS_PigeonHole
  <2> QED
    BY <1>1, <1>2, <2>5
<1>11. Cardinality(Ahead(g, t)) + n <= Cardinality(Ahead(g, s))
  BY <1>2, <1>3, <1>7, <1>8, <1>10
<1> QED
  BY <1>2, <1>4, <1>9, <1>11 DEF places

\* No more is ahead when no more tables are white.
LEMMA AheadOfFewer ==
  ASSUME NEW g, GraphOk(g), NEW s, WalkOk(g, s), NEW t, WalkOk(g, t),
         White(g, t) \subseteq White(g, s), Len(t.stack) = Len(s.stack) - 1
  PROVE  ToDo(g, t) < ToDo(g, s)
<1>1. /\ IsFiniteSet(White(g, s)) /\ IsFiniteSet(Ahead(g, s))
      /\ Cardinality(White(g, s)) \in Nat /\ Cardinality(Ahead(g, s)) \in Nat
      /\ Len(s.stack) \in Nat
  BY ToDoFacts
<1>2. Cardinality(White(g, t)) \in Nat /\ Cardinality(Ahead(g, t)) \in Nat
  BY ToDoFacts
<1>3. White(g, t) \in SUBSET White(g, s) /\ Ahead(g, t) \in SUBSET Ahead(g, s)
  BY DEF Ahead
<1>4. /\ Cardinality(White(g, t)) <= Cardinality(White(g, s))
      /\ Cardinality(Ahead(g, t)) <= Cardinality(Ahead(g, s))
  BY <1>1, <1>3, FS_Subset
<1> QED
  BY <1>1, <1>2, <1>4 DEF ToDo

\* A step of the walk reports no cycle where there is none, and leaves less to do.
LEMMA WalkStepKeeps ==
  ASSUME NEW g, GraphOk(g), ~ Cyclic(g.edges), NEW s, WalkOk(g, s)
  PROVE  /\ WalkOk(g, WalkStep(g, s))
         /\ s.stack # <<>> => ToDo(g, WalkStep(g, s)) < ToDo(g, s)
         /\ s.stack = <<>> => WalkStep(g, s) = s
<1> DEFINE top == Last(s.stack)
           rest == Front(s.stack)
           node == top.node
           after == WalkStep(g, s)
<1>0. s = [stack |-> s.stack, path |-> s.path, cycles |-> s.cycles, color |-> s.color]
  BY DEF WalkOk
<1>1. CASE s.stack = <<>>
  BY <1>1 DEF WalkStep
<1>2. CASE s.stack # <<>> /\ ~ top.entering
  <2>1. after = [s EXCEPT !.stack = rest, !.path = Front(@), !.color = [@ EXCEPT ![node] = "Black"]]
    BY <1>2 DEF WalkStep
  <2> DEFINE path == Front(s.path)
             color == [s.color EXCEPT ![node] = "Black"]
  <2>2. after = [s EXCEPT !.stack = rest, !.path = path, !.color = color]
    BY <2>1
  <2> HIDE DEF after, rest, path, color
  <2>3. /\ after.stack = rest /\ after.path = path /\ after.cycles = s.cycles /\ after.color = color
    BY <1>0, <2>2
  <2>4. after = [stack |-> after.stack, path |-> after.path,
                 cycles |-> after.cycles, color |-> after.color]
    BY <1>0, <2>2
  <2>5. /\ WalkOk(g, after) /\ White(g, after) \subseteq White(g, s)
        /\ Len(after.stack) = Len(s.stack) - 1
    BY <1>2, <2>3, <2>4, LeaveKeeps DEF rest, path, color
  <2> QED
    BY <1>2, <2>5, AheadOfFewer DEF after
<1>3. CASE s.stack # <<>> /\ top.entering
  <2>1. /\ node \in GraphTables(g) /\ s.color[node] # "Gray"
        /\ Len(s.path) # 0 => Leads(g, s.path[Len(s.path)], node)
    BY <1>3, NothingGrayAhead DEF GraphOk
  <2> DEFINE dropped == [s EXCEPT !.stack = rest]
  <2>2. /\ WalkOk(g, dropped) /\ dropped.color = s.color /\ dropped.path = s.path
        /\ Len(s.stack) \in Nat \ {0} /\ Len(dropped.stack) = Len(s.stack) - 1
        /\ dropped.stack = rest
    <3>1. /\ WalkOk(g, dropped) /\ dropped.color = s.color /\ dropped.path = s.path
          /\ Len(s.stack) \in Nat \ {0} /\ Len(dropped.stack) = Len(s.stack) - 1
      BY <1>3, StackDropKeeps
    <3>2. s = [stack |-> s.stack, path |-> s.path, cycles |-> s.cycles, color |-> s.color]
      BY DEF WalkOk
    <3> QED
      BY <3>1, <3>2
  <2>3. CASE s.color[node] = "Black"
    <3>1. after = dropped
      BY <1>3, <2>3 DEF WalkStep
    <3>2. White(g, dropped) = White(g, s)
      BY <2>2 DEF White
    <3> HIDE DEF dropped
    <3> QED
      BY <1>3, <2>2, <3>1, <3>2, AheadOfFewer
  <2>4. CASE s.color[node] = "White"
    <3> DEFINE entered == [s EXCEPT !.color = [@ EXCEPT ![node] = "Gray"], !.path = Append(@, node),
                                    !.stack = Append(rest, [entering |-> FALSE, node |-> node])]
               places == Places(g, node)
               color == [s.color EXCEPT ![node] = "Gray"]
               path == Append(s.path, node)
               stack == Append(rest, [entering |-> FALSE, node |-> node])
    <3>1. after = Opening(g, entered, places)
      BY <1>3, <2>4 DEF WalkStep
    <3>2. entered = [s EXCEPT !.color = color, !.path = path, !.stack = stack]
      OBVIOUS
    <3> HIDE DEF entered, dropped, color, path, stack
    <3>a. /\ entered.stack = stack /\ entered.path = path /\ entered.color = color
          /\ entered.cycles = s.cycles
      BY <1>0, <3>2
    <3>b. entered = [stack |-> entered.stack, path |-> entered.path,
                     cycles |-> entered.cycles, color |-> entered.color]
      BY <1>0, <3>2
    <3>c. s.cycles = dropped.cycles
      BY <2>2 DEF WalkOk
    <3>3. /\ WalkOk(g, entered)
          /\ Len(dropped.stack) \in Nat /\ Len(entered.stack) = Len(dropped.stack) + 1
          /\ Len(entered.path) # 0 /\ entered.path[Len(entered.path)] = node
      <4>1. /\ dropped.color[node] = "White"
            /\ Len(dropped.path) # 0 => Leads(g, dropped.path[Len(dropped.path)], node)
        BY <2>1, <2>2, <2>4
      <4>2. /\ entered.stack = Append(dropped.stack, [entering |-> FALSE, node |-> node])
            /\ entered.path = Append(dropped.path, node) /\ entered.cycles = dropped.cycles
            /\ entered.color = [dropped.color EXCEPT ![node] = "Gray"]
        BY <2>2, <3>a, <3>c DEF stack, path, color
      <4>3. WalkOk(g, dropped) /\ node \in GraphTables(g)
        BY <2>1, <2>2
      <4> HIDE DEF node
      <4>4. WalkOk(g, entered)
        BY <3>b, <4>1, <4>2, <4>3, EnterKeeps
      <4>5. Len(dropped.stack) \in Nat /\ Len(entered.stack) = Len(dropped.stack) + 1
        BY <3>b, <4>1, <4>2, <4>3, EnterKeeps
      <4>6. Len(entered.path) # 0 /\ entered.path[Len(entered.path)] = node
        BY <3>b, <4>1, <4>2, <4>3, EnterKeeps
      <4> QED
        BY <4>4, <4>5, <4>6
    <3>4. /\ WalkOk(g, after) /\ after.color = entered.color
          /\ Len(after.stack) \in Nat /\ Len(entered.stack) \in Nat /\ Len(places) \in Nat
          /\ Len(after.stack) <= Len(entered.stack) + Len(places)
      <4>1. places = Places(g, entered.path[Len(entered.path)])
        BY <3>3
      <4> HIDE DEF places, after, node
      <4>2. WalkOk(g, after) /\ after.color = entered.color
        BY <3>1, <3>3, <4>1, OpeningKeeps
      <4>3. Len(after.stack) \in Nat /\ Len(entered.stack) \in Nat /\ Len(places) \in Nat
        BY <3>1, <3>3, <4>1, OpeningKeeps
      <4>4. Len(after.stack) <= Len(entered.stack) + Len(places)
        BY <3>1, <3>3, <4>1, OpeningKeeps
      <4> QED
        BY <4>2, <4>3, <4>4
    <3> HIDE DEF after
    <3>5. /\ White(g, after) = White(g, s) \ {node} /\ node \in White(g, s)
      <4>1. s.color \in [GraphTables(g) -> {"White", "Gray", "Black"}]
        BY DEF WalkOk
      <4>2. after.color = [s.color EXCEPT ![node] = "Gray"]
        BY <3>4, <3>a DEF color
      <4> HIDE DEF node
      <4>3. \A t \in GraphTables(g) : after.color[t] = IF t = node THEN "Gray" ELSE s.color[t]
        BY <4>1, <4>2
      <4> QED
        BY <2>1, <2>4, <4>3 DEF White
    <3>6. /\ Cardinality(White(g, after)) = Cardinality(White(g, s)) - 1
          /\ Cardinality(Ahead(g, after)) \in Nat
          /\ Cardinality(Ahead(g, after)) + Len(places) <= Cardinality(Ahead(g, s))
      BY <3>5, AheadOfTable
    <3> HIDE DEF places
    <3>7. Cardinality(White(g, s)) \in Nat /\ Cardinality(Ahead(g, s)) \in Nat
      BY ToDoFacts
    <3>8. ToDo(g, after) < ToDo(g, s)
      <4>1. PICK a, e, p, d \in Nat : /\ a = Len(after.stack) /\ e = Len(entered.stack)
                                      /\ p = Len(places) /\ d = Len(dropped.stack)
        BY <3>3, <3>4
      <4>2. a <= e + p /\ e = d + 1 /\ d = Len(s.stack) - 1
        BY <2>2, <3>3, <3>4, <4>1
      <4>3. PICK w, v, x, y \in Int :
              /\ w = Cardinality(White(g, after)) /\ v = Cardinality(White(g, s))
              /\ x = Cardinality(Ahead(g, after)) /\ y = Cardinality(Ahead(g, s))
        BY <3>6, <3>7
      <4>4. w = v - 1 /\ x + p <= y
        BY <3>6, <4>1, <4>3
      <4>5. PICK l \in Nat : l = Len(s.stack)
        BY <2>2
      <4>6. a + w + x < l + v + y
        BY <4>2, <4>4, <4>5
      <4> QED
        BY <4>1, <4>3, <4>5, <4>6 DEF ToDo
    <3> QED
      BY <1>3, <3>4, <3>8 DEF after
  <2>5. s.color[node] \in {"White", "Gray", "Black"}
    BY <2>1 DEF WalkOk
  <2> QED
    BY <2>1, <2>3, <2>4, <2>5
<1>4. top.entering \in BOOLEAN \/ s.stack = <<>>
  <2> SUFFICES ASSUME s.stack # <<>> PROVE top.entering \in BOOLEAN
    OBVIOUS
  <2>1. PICK d : Depth(g, s.stack, s.path, d)
    BY DEF WalkOk
  <2>2. Len(s.stack) \in 1 .. Len(s.stack) /\ top = s.stack[Len(s.stack)]
    BY FrontIs DEF WalkOk
  <2> QED
    BY <2>1, <2>2 DEF Depth
<1> QED
  BY <1>1, <1>2, <1>3, <1>4

\* The walk from one table: one step after another.
LEMMA WalkLoop ==
  ASSUME NEW g, GraphOk(g), NEW base
  PROVE  \E c, items : /\ IsSeq(items) /\ Len(items) = 3 * Len(g.edges) + 1
                       /\ LoopRounds(<<"walk", g>>, c, base, items)
                       /\ Walk(g, base) = c[Len(items)]
<1> DEFINE items == [step \in 1 .. (3 * Len(g.edges)) + 1 |-> step]
           P(f) == f = [s \in SUBSET (DOMAIN items) |->
                          IF s = {} THEN base ELSE WalkStep(g, f[s \ {Max(s)}])]
           F == CHOOSE f : P(f)
<1>1. PICK m \in Nat : m = 3 * Len(g.edges) + 1
  BY SeqFacts DEF GraphOk
<1>2. IsSeq(items) /\ Len(items) = m
  <2>1. items = [i \in 1 .. m |-> items[i]]
    BY <1>1
  <2> HIDE DEF items
  <2> QED
    BY <2>1, SeqIntro
<1>3. Len(items) \in Nat /\ DOMAIN items = 1 .. Len(items)
  BY <1>1, <1>2
<1>5. Walk(g, base) = F[DOMAIN items]
  BY DEF Walk, FoldLeft, MapThenFoldSet
<1> HIDE DEF items
<1>4. \A f : P(f) <=> LoopOver(<<"walk", g>>, f, base, items, Len(items))
  BY <1>3 DEF LoopOver, LoopBody
<1>6. \E f : P(f)
  BY <1>3, <1>4, LoopExists
<1>7. P(F)
  BY <1>6
<1> HIDE DEF F
<1>8. LoopOver(<<"walk", g>>, F, base, items, Len(items))
  BY <1>4, <1>7
<1>9. \E c : LoopRounds(<<"walk", g>>, c, base, items) /\ c[Len(items)] = F[1 .. Len(items)]
  BY <1>3, <1>8, LoopHasRounds
<1> QED
  BY <1>1, <1>2, <1>3, <1>5, <1>9

\* A walk from one table ends, and has reported no cycle where there is none.
LEMMA WalkEnds ==
  ASSUME NEW g, GraphOk(g), ~ Cyclic(g.edges), NEW s, WalkOk(g, s), Len(s.stack) = 1
  PROVE  WalkOk(g, Walk(g, s)) /\ Walk(g, s).stack = <<>>
<1>1. PICK c, items : /\ IsSeq(items) /\ Len(items) = 3 * Len(g.edges) + 1
                      /\ LoopRounds(<<"walk", g>>, c, s, items)
                      /\ Walk(g, s) = c[Len(items)]
  BY WalkLoop
<1>2. PICK n \in Nat : n = Len(items)
  BY <1>1, SeqFacts
<1> DEFINE G == {k \in 0 .. n : /\ WalkOk(g, c[k])
                                /\ c[k].stack # <<>> => ToDo(g, c[k]) <= n - k}
<1>3. 0 \in G
  <2>1. c[0] = s
    BY <1>1 DEF LoopRounds
  <2>2. ToDo(g, s) <= n
    <3>1. /\ Cardinality(White(g, s)) \in Nat /\ Cardinality(Ahead(g, s)) \in Nat
          /\ Cardinality(White(g, s)) + Cardinality(Ahead(g, s)) <= 3 * Len(g.edges)
      BY ToDoFacts
    <3>2. PICK w, a \in Nat : w = Cardinality(White(g, s)) /\ a = Cardinality(Ahead(g, s))
      BY <3>1
    <3>3. Len(g.edges) \in Nat
      BY SeqFacts DEF GraphOk
    <3> QED
      BY <1>1, <1>2, <3>1, <3>2, <3>3 DEF ToDo
  <2>3. n - 0 = n /\ 0 \in 0 .. n
    OBVIOUS
  <2> QED
    BY <2>1, <2>2, <2>3
<1>4. ASSUME NEW k \in 1 .. n, k - 1 \in G PROVE k \in G
  <2>1. c[k] = WalkStep(g, c[k - 1])
    BY <1>1, <1>2 DEF LoopRounds, LoopBody
  <2>2. WalkOk(g, c[k - 1]) /\ (c[k - 1].stack # <<>> => ToDo(g, c[k - 1]) <= n - (k - 1))
    BY <1>4
  <2>3. /\ WalkOk(g, c[k])
        /\ c[k - 1].stack # <<>> => ToDo(g, c[k]) < ToDo(g, c[k - 1])
        /\ c[k - 1].stack = <<>> => c[k] = c[k - 1]
    BY <2>1, <2>2, WalkStepKeeps
  <2>4. ToDo(g, c[k]) \in Nat /\ ToDo(g, c[k - 1]) \in Nat
    BY <2>2, <2>3, ToDoFacts
  <2>5. c[k].stack # <<>> => ToDo(g, c[k]) <= n - k
    BY <2>2, <2>3, <2>4
  <2>6. k \in 0 .. n
    OBVIOUS
  <2> QED
    BY <2>3, <2>5, <2>6
<1> HIDE DEF G
<1>5. \A k \in 0 .. n : k \in G
  BY <1>3, <1>4, UpTo
<1>6. n \in G /\ n - n = 0
  BY <1>5
<1>7. WalkOk(g, c[n]) /\ (c[n].stack # <<>> => ToDo(g, c[n]) <= 0)
  BY <1>6 DEF G
<1>8. ASSUME c[n].stack # <<>> PROVE FALSE
  <2>1. Len(c[n].stack) \in Nat \ {0}
    BY <1>7, <1>8, FrontIs DEF WalkOk
  <2>2. Cardinality(White(g, c[n])) \in Nat /\ Cardinality(Ahead(g, c[n])) \in Nat
    BY <1>7, ToDoFacts
  <2>3. ToDo(g, c[n]) > 0
    BY <2>1, <2>2 DEF ToDo
  <2>4. ToDo(g, c[n]) \in Nat
    BY <1>7, ToDoFacts
  <2> QED
    BY <1>7, <1>8, <2>3, <2>4
<1> QED
  BY <1>1, <1>2, <1>7, <1>8

\* The next table to walk from, when all walks before it have ended.
LEMMA WalkFromEnds ==
  ASSUME NEW g, GraphOk(g), ~ Cyclic(g.edges), NEW s, WalkOk(g, s), s.stack = <<>>,
         NEW start \in GraphTables(g)
  PROVE  WalkOk(g, WalkFrom(g, s, start)) /\ WalkFrom(g, s, start).stack = <<>>
<1>1. CASE s.color[start] # "White"
  BY <1>1 DEF WalkFrom
<1>2. CASE s.color[start] = "White"
  <2> DEFINE top == [entering |-> TRUE, node |-> start]
             stack == <<top>>
             b == [s EXCEPT !.stack = stack]
  <2>1. WalkFrom(g, s, start) = Walk(g, b)
    BY <1>2 DEF WalkFrom
  <2>2. s = [stack |-> s.stack, path |-> s.path, cycles |-> s.cycles, color |-> s.color]
    BY DEF WalkOk
  <2>3. Append(<<>>, top) = stack
    OBVIOUS
  <2>4. IsSeq(stack) /\ Len(stack) = 1
    <3>1. IsSeq(<<>>) /\ Len(<<>>) = 0
      BY DEF IsSeq
    <3>2. IsSeq(Append(<<>>, top)) /\ Len(Append(<<>>, top)) = Len(<<>>) + 1
      BY <3>1, SeqLonger
    <3> QED
      BY <2>3, <3>1, <3>2, Zenon
  <2>5. \E e : Depth(g, stack, s.path, e)
    <3>1. PICK d : Depth(g, <<>>, s.path, d)
      BY DEF WalkOk
    <3>2. IsSeq(<<>>) /\ Len(<<>>) = 0 /\ IsSeq(s.path)
      BY DEF IsSeq, WalkOk
    <3>3. Len(s.path) = 0
      BY <3>1, <3>2 DEF Depth
    <3>4. \E e : Depth(g, Append(<<>>, [entering |-> TRUE, node |-> start]), s.path, e)
      BY <3>1, <3>2, <3>3, DepthPush
    <3> QED
      BY <2>3, <3>4
  <2> HIDE DEF stack
  <2>6. /\ b.stack = stack /\ b.path = s.path /\ b.cycles = s.cycles /\ b.color = s.color
        /\ b = [stack |-> b.stack, path |-> b.path, cycles |-> b.cycles, color |-> b.color]
    BY <2>2
  <2> HIDE DEF b
  <2>7. WalkOk(g, b)
    BY <2>4, <2>5, <2>6 DEF WalkOk
  <2> QED
    BY <2>1, <2>4, <2>6, <2>7, WalkEnds
<1> QED
  BY <1>1, <1>2

\* Before the first walk.
LEMMA FreshWalk ==
  ASSUME NEW g
  PROVE  WalkOk(g, [stack |-> <<>>, path |-> <<>>, cycles |-> <<>>,
                    color |-> [t \in GraphTables(g) |-> "White"]])
<1> DEFINE d == [j \in 0 .. 0 |-> 0]
<1>1. IsSeq(<<>>) /\ Len(<<>>) = 0 /\ DOMAIN <<>> = {}
  BY DEF IsSeq
<1>2. Depth(g, <<>>, <<>>, d)
  BY <1>1 DEF Depth
<1> QED
  BY <1>1, <1>2 DEF WalkOk

\* The walks from every table, one after another.
LEMMA StartLoop ==
  ASSUME NEW g, NEW items, IsSeq(items)
  PROVE  \E c : /\ LoopRounds(<<"start", g>>, c,
                      [stack |-> <<>>, path |-> <<>>, cycles |-> <<>>,
                       color |-> [t \in GraphTables(g) |-> "White"]], items)
                /\ DetectCycles(g, items) = c[Len(items)].cycles
<1> DEFINE base == [stack |-> <<>>, path |-> <<>>, cycles |-> <<>>,
                    color |-> [t \in GraphTables(g) |-> "White"]]
           P(f) == f = [s \in SUBSET (DOMAIN items) |->
                          IF s = {} THEN base ELSE WalkFrom(g, f[s \ {Max(s)}], items[Max(s)])]
           F == CHOOSE f : P(f)
<1>1. Len(items) \in Nat /\ DOMAIN items = 1 .. Len(items)
  BY SeqFacts
<1>5. DetectCycles(g, items) = F[DOMAIN items].cycles
  BY DEF DetectCycles, FoldLeft, MapThenFoldSet
<1> HIDE DEF base
<1>2. \A f : P(f) <=> LoopOver(<<"start", g>>, f, base, items, Len(items))
  BY <1>1 DEF LoopOver, LoopBody
<1>3. \E f : P(f)
  BY <1>1, <1>2, LoopExists
<1>4. P(F)
  BY <1>3
<1> HIDE DEF F
<1>6. LoopOver(<<"start", g>>, F, base, items, Len(items))
  BY <1>2, <1>4
<1>7. \E c : LoopRounds(<<"start", g>>, c, base, items) /\ c[Len(items)] = F[1 .. Len(items)]
  BY <1>1, <1>6, LoopHasRounds
<1> QED
  BY <1>1, <1>5, <1>7 DEF base

\* detect_cycles reports nothing for a graph without a cycle, whatever the order
\* in which it takes the tables.
THEOREM NoFalseCycle ==
  ASSUME NEW g, GraphOk(g), ~ Cyclic(g.edges), NEW order, IsSeq(order),
         \A k \in DOMAIN order : order[k] \in GraphTables(g)
  PROVE  DetectCycles(g, order) = <<>>
<1> DEFINE base == [stack |-> <<>>, path |-> <<>>, cycles |-> <<>>,
                    color |-> [t \in GraphTables(g) |-> "White"]]
<1>1. PICK c : /\ LoopRounds(<<"start", g>>, c, base, order)
               /\ DetectCycles(g, order) = c[Len(order)].cycles
  BY StartLoop
<1>2. PICK n \in Nat : n = Len(order) /\ DOMAIN order = 1 .. n
  BY SeqFacts
<1>3. WalkOk(g, base) /\ base.stack = <<>>
  BY FreshWalk
<1> HIDE DEF base
<1> DEFINE G == {k \in 0 .. n : WalkOk(g, c[k]) /\ c[k].stack = <<>>}
<1>4. 0 \in G
  BY <1>1, <1>3 DEF LoopRounds
<1>5. ASSUME NEW k \in 1 .. n, k - 1 \in G PROVE k \in G
  <2>1. c[k] = WalkFrom(g, c[k - 1], order[k]) /\ order[k] \in GraphTables(g)
    BY <1>1, <1>2 DEF LoopRounds, LoopBody
  <2>2. WalkOk(g, c[k]) /\ c[k].stack = <<>>
    BY <1>5, <2>1, WalkFromEnds
  <2> QED
    BY <2>2
<1> HIDE DEF G
<1>6. \A k \in 0 .. n : k \in G
  BY <1>4, <1>5, UpTo
<1>7. n \in G
  BY <1>6
<1> QED
  BY <1>1, <1>2, <1>7 DEF G, WalkOk

\* And so for the order that AnyOrder names.
LEMMA NoFalseCycleAnyOrder ==
  ASSUME NEW g, GraphOk(g), ~ Cyclic(g.edges)
  PROVE  DetectCycles(g, AnyOrder(g)) = <<>>
<1> DEFINE S == GraphTables(g)
           n == Cardinality(S)
           order == AnyOrder(g)
<1>1. IsFiniteSet(S)
  <2>1. \E s : WalkOk(g, s)
    BY FreshWalk
  <2> QED
    BY <2>1, ToDoFacts
<1>2. /\ n \in Nat
      /\ \E f \in [1 .. n -> S] : \A i, j \in 1 .. n : f[i] = f[j] => i = j
  BY <1>1, EnumerationExists
<1>4. PICK f \in [1 .. n -> S] : \A i, j \in 1 .. n : f[i] = f[j] => i = j
  BY <1>2
<1>5. f \in SetToSeqs(S)
  BY <1>4 DEF SetToSeqs
<1>6. order \in SetToSeqs(S)
  BY <1>5 DEF AnyOrder
<1> HIDE DEF order
<1>7. order \in [1 .. n -> S]
  BY <1>6 DEF SetToSeqs
<1> HIDE DEF S, n
<1>8. IsSeq(order)
  BY <1>2, <1>7, SeqIntro
<1>9. \A k \in DOMAIN order : order[k] \in S
  BY <1>7
<1>10. DetectCycles(g, order) = <<>>
  BY <1>8, <1>9, NoFalseCycle DEF S
<1> QED
  BY <1>10 DEF order

-----------------------------------------------------------------------------
(* The registry                                                            *)

RegistryOk(r) ==
  /\ r = [tables |-> r.tables, graph |-> r.graph, frozen |-> r.frozen,
          mods |-> r.mods, migrated |-> r.migrated]
  /\ IsFiniteSet(DOMAIN r.tables)
  /\ SoundGraph(r.graph)

\* What may become of the tables of a registry while the engine owns it: more of
\* them, and the relations as they are.
Extends(r, old) ==
  /\ r.graph = old.graph /\ DOMAIN old.tables \subseteq DOMAIN r.tables
  /\ \A t \in DOMAIN old.tables : r.tables[t] = old.tables[t]

\* A registry of a new process.
LEMMA NewRegistryOk == RegistryOk(NewRegistry)
<1> DEFINE g == EmptyGraph
<1>1. IsSeq(<<>>) /\ DOMAIN <<>> = {}
  BY DEF IsSeq
<1>2. g.edges = <<>> /\ g.adjacency = <<>>
  BY DEF EmptyGraph
<1>3. GraphOk(g)
  BY <1>1, <1>2 DEF GraphOk
<1>4. Distinct(g.edges) /\ ~ Cyclic(g.edges)
  BY <1>1, <1>2 DEF Distinct, Cyclic
<1>5. NewRegistry.graph = g /\ NewRegistry.tables = <<>>
  BY DEF NewRegistry
<1>6. NewRegistry = [tables |-> NewRegistry.tables, graph |-> NewRegistry.graph,
                     frozen |-> NewRegistry.frozen,
                     mods |-> NewRegistry.mods, migrated |-> NewRegistry.migrated]
  BY DEF NewRegistry
<1>7. IsFiniteSet(DOMAIN <<>>)
  BY <1>1, FS_EmptySet
<1> QED
  BY <1>3, <1>4, <1>5, <1>6, <1>7 DEF RegistryOk, SoundGraph

\* register: the table is added, or nothing happens.
LEMMA RegisterKeeps ==
  ASSUME NEW r, NEW n, NEW spec, RegistryOk(r)
  PROVE  LET done == Register(r, n, spec).it IN
           RegistryOk(done) /\ Extends(done, r)
<1> DEFINE done == Register(r, n, spec).it
<1>1. CASE r.frozen \/ n \in DOMAIN r.tables
  BY <1>1 DEF Register, Fails, Extends
<1>2. CASE ~ (r.frozen \/ n \in DOMAIN r.tables)
  <2> DEFINE added == [t \in DOMAIN r.tables \cup {n} |-> IF t = n THEN spec ELSE r.tables[t]]
  <2>1. done = [r EXCEPT !.tables = added]
    BY <1>2 DEF Register, Succeeds
  <2>2. /\ DOMAIN added = DOMAIN r.tables \cup {n}
        /\ \A t \in DOMAIN r.tables : added[t] = r.tables[t]
    BY <1>2
  <2> HIDE DEF done, added
  <2>3. r = [tables |-> r.tables, graph |-> r.graph, frozen |-> r.frozen,
             mods |-> r.mods, migrated |-> r.migrated]
    BY DEF RegistryOk
  <2>4. done.tables = added /\ done.graph = r.graph
    BY <2>1, <2>3
  <2>5. done = [tables |-> done.tables, graph |-> done.graph, frozen |-> done.frozen,
                mods |-> done.mods, migrated |-> done.migrated]
    BY <2>1, <2>3
  <2>6. IsFiniteSet(DOMAIN added)
    BY <2>2, FS_AddElement DEF RegistryOk
  <2> QED
    BY <2>2, <2>4, <2>5, <2>6 DEF RegistryOk, Extends, done
<1> QED
  BY <1>1, <1>2

\* The other methods keep what makes a registry sound.
LEMMA RemoveTableKeeps ==
  ASSUME NEW r, NEW n, RegistryOk(r)
  PROVE  RegistryOk(RemoveTable(r, n).it)
<1> DEFINE done == RemoveTable(r, n).it
<1>1. CASE r.frozen \/ n \notin DOMAIN r.tables
  BY <1>1 DEF RemoveTable, Fails
<1>2. CASE ~ (r.frozen \/ n \notin DOMAIN r.tables)
  <2> DEFINE added == [t \in DOMAIN r.tables \ {n} |-> r.tables[t]]
  <2>1. done = [r EXCEPT !.tables = added]
    BY <1>2 DEF RemoveTable, Succeeds
  <2>2. DOMAIN added = DOMAIN r.tables \ {n}
    OBVIOUS
  <2> HIDE DEF done, added
  <2>3. r = [tables |-> r.tables, graph |-> r.graph, frozen |-> r.frozen,
             mods |-> r.mods, migrated |-> r.migrated]
    BY DEF RegistryOk
  <2>4. done.tables = added /\ done.graph = r.graph
    BY <2>1, <2>3
  <2>5. done = [tables |-> done.tables, graph |-> done.graph, frozen |-> done.frozen,
                mods |-> done.mods, migrated |-> done.migrated]
    BY <2>1, <2>3
  <2>6. IsFiniteSet(DOMAIN added)
    BY <2>2, FS_RemoveElement DEF RegistryOk
  <2> QED
    BY <2>4, <2>5, <2>6 DEF RegistryOk, done
<1> QED
  BY <1>1, <1>2

\* get_mut: another spec for a table that is there.
LEMMA ReplaceSpecKeeps ==
  ASSUME NEW r, NEW n, NEW spec, RegistryOk(r)
  PROVE  RegistryOk(ReplaceSpec(r, n, spec).it)
<1> DEFINE done == ReplaceSpec(r, n, spec).it
<1>1. CASE r.frozen \/ n \notin DOMAIN r.tables
  BY <1>1 DEF ReplaceSpec, Fails
<1>2. CASE ~ (r.frozen \/ n \notin DOMAIN r.tables)
  <2> DEFINE new == [t \in DOMAIN r.tables |-> IF t = n THEN spec ELSE r.tables[t]]
  <2>1. done = [r EXCEPT !.tables = new]
    BY <1>2 DEF ReplaceSpec, Succeeds
  <2>2. DOMAIN new = DOMAIN r.tables
    OBVIOUS
  <2> HIDE DEF done, new
  <2>3. r = [tables |-> r.tables, graph |-> r.graph, frozen |-> r.frozen,
             mods |-> r.mods, migrated |-> r.migrated]
    BY DEF RegistryOk
  <2>4. done.tables = new /\ done.graph = r.graph
    BY <2>1, <2>3
  <2>5. done = [tables |-> done.tables, graph |-> done.graph, frozen |-> done.frozen,
                mods |-> done.mods, migrated |-> done.migrated]
    BY <2>1, <2>3
  <2> QED
    BY <2>2, <2>4, <2>5 DEF RegistryOk, done
<1> QED
  BY <1>1, <1>2

\* A registry with another graph, or with nothing but its labels changed.
LEMMA WithGraph ==
  ASSUME NEW r, RegistryOk(r), NEW g, SoundGraph(g)
  PROVE  LET done == [r EXCEPT !.graph = g] IN
           RegistryOk(done) /\ done.tables = r.tables /\ done.graph = g
                            /\ done.frozen = r.frozen /\ done.mods = r.mods
<1> DEFINE done == [r EXCEPT !.graph = g]
<1>1. r = [tables |-> r.tables, graph |-> r.graph, frozen |-> r.frozen,
           mods |-> r.mods, migrated |-> r.migrated]
  BY DEF RegistryOk
<1>2. /\ done.tables = r.tables /\ done.graph = g
      /\ done.frozen = r.frozen /\ done.mods = r.mods
  BY <1>1
<1>3. done = [tables |-> done.tables, graph |-> done.graph, frozen |-> done.frozen,
              mods |-> done.mods, migrated |-> done.migrated]
  BY <1>1
<1> HIDE DEF done
<1>4. RegistryOk(done)
  BY <1>2, <1>3 DEF RegistryOk
<1> QED
  BY <1>2, <1>4 DEF done

\* What the labels are does not matter.
LEMMA Relabelled ==
  ASSUME NEW r, RegistryOk(r), NEW done,
         done = [tables |-> done.tables, graph |-> done.graph, frozen |-> done.frozen,
                 mods |-> done.mods, migrated |-> done.migrated],
         done.tables = r.tables, done.graph = r.graph
  PROVE  RegistryOk(done)
  BY DEF RegistryOk

\* add_relation and remove_relation.
LEMMA AddRelationKeeps ==
  ASSUME NEW r, NEW e, RegistryOk(r)
  PROVE  RegistryOk(AddRelation(r, e).it)
<1>1. CASE r.frozen \/ {e.from, e.to} \ DOMAIN r.tables # {}
  BY <1>1 DEF AddRelation, Fails
<1>2. CASE ~ (r.frozen \/ {e.from, e.to} \ DOMAIN r.tables # {})
  <2>1. AddRelation(r, e).it = [r EXCEPT !.graph = AddEdge(r.graph, e).it]
    BY <1>2 DEF AddRelation
  <2>2. SoundGraph(AddEdge(r.graph, e).it)
    BY AddEdgeKeeps DEF RegistryOk
  <2> QED
    BY <2>1, <2>2, WithGraph
<1> QED
  BY <1>1, <1>2

\* relation_graph_mut: the graph checks the edge, whatever tables there are.
LEMMA AddToGraphKeeps ==
  ASSUME NEW r, NEW e, RegistryOk(r)
  PROVE  RegistryOk(AddToGraph(r, e).it)
<1>1. CASE r.frozen
  BY <1>1 DEF AddToGraph, Fails
<1>2. CASE ~ r.frozen
  <2>1. AddToGraph(r, e).it = [r EXCEPT !.graph = AddEdge(r.graph, e).it]
    BY <1>2 DEF AddToGraph
  <2>2. SoundGraph(AddEdge(r.graph, e).it)
    BY AddEdgeKeeps DEF RegistryOk
  <2> QED
    BY <2>1, <2>2, WithGraph
<1> QED
  BY <1>1, <1>2

\* remove_relation: fewer edges close no cycle.
LEMMA RemoveRelationKeeps ==
  ASSUME NEW r, NEW from, NEW to, RegistryOk(r)
  PROVE  RegistryOk(RemoveRelation(r, from, to).it)
<1>1. CASE r.frozen
  BY <1>1 DEF RemoveRelation, Fails
<1>2. CASE ~ r.frozen
  <2>1. RemoveRelation(r, from, to).it = [r EXCEPT !.graph = RemoveEdge(r.graph, from, to).it]
    BY <1>2 DEF RemoveRelation
  <2>2. SoundGraph(RemoveEdge(r.graph, from, to).it)
    BY RemoveEdgeKeeps DEF RegistryOk
  <2> QED
    BY <2>1, <2>2, WithGraph
<1> QED
  BY <1>1, <1>2

\* freeze, store_mod_fingerprints and set_migrated_manifest touch no table and
\* no relation.
LEMMA LabelsKeep ==
  ASSUME NEW r, NEW mods, NEW m, RegistryOk(r)
  PROVE  /\ RegistryOk(Freeze(r)) /\ Extends(Freeze(r), r)
         /\ RegistryOk(StoreModFingerprints(r, mods).it)
         /\ RegistryOk(SetMigratedManifest(r, m).it)
<1>0. r = [tables |-> r.tables, graph |-> r.graph, frozen |-> r.frozen,
           mods |-> r.mods, migrated |-> r.migrated]
  BY DEF RegistryOk
<1>1. RegistryOk(Freeze(r)) /\ Extends(Freeze(r), r)
  <2>0. PICK yes : yes = TRUE
    OBVIOUS
  <2> DEFINE done == [r EXCEPT !.frozen = yes]
  <2>1. done.tables = r.tables /\ done.graph = r.graph
    BY <1>0
  <2>2. done = [tables |-> done.tables, graph |-> done.graph, frozen |-> done.frozen,
                mods |-> done.mods, migrated |-> done.migrated]
    BY <1>0
  <2> HIDE DEF done
  <2>3. RegistryOk(done) /\ Extends(done, r)
    BY <2>1, <2>2, Relabelled DEF Extends
  <2> QED
    BY <2>0, <2>3 DEF Freeze, done
<1>2. RegistryOk(StoreModFingerprints(r, mods).it)
  <2> DEFINE done == [r EXCEPT !.mods = mods]
  <2>1. done.tables = r.tables /\ done.graph = r.graph
    BY <1>0
  <2>2. done = [tables |-> done.tables, graph |-> done.graph, frozen |-> done.frozen,
                mods |-> done.mods, migrated |-> done.migrated]
    BY <1>0
  <2> HIDE DEF done
  <2>3. RegistryOk(done)
    BY <2>1, <2>2, Relabelled
  <2> QED
    BY <2>3 DEF StoreModFingerprints, Succeeds, Fails, done
<1>3. RegistryOk(SetMigratedManifest(r, m).it)
  <2> DEFINE done == [r EXCEPT !.migrated = {m}]
  <2>1. done.tables = r.tables /\ done.graph = r.graph
    BY <1>0
  <2>2. done = [tables |-> done.tables, graph |-> done.graph, frozen |-> done.frozen,
                mods |-> done.mods, migrated |-> done.migrated]
    BY <1>0
  <2> HIDE DEF done
  <2>3. RegistryOk(done)
    BY <2>1, <2>2, Relabelled
  <2> QED
    BY <2>3 DEF SetMigratedManifest, Succeeds, Fails, done
<1> QED
  BY <1>1, <1>2, <1>3

\* The tables of a manifest: one after another, until one fails.
LEMMA TableLoop ==
  ASSUME NEW base, NEW items, IsSeq(items)
  PROVE  \E c : /\ LoopRounds(<<"table">>, c, Succeeds(base), items)
                /\ RegisterEach(base, items) = c[Len(items)]
<1> DEFINE start == Succeeds(base)
           Round(done, x) == IF done.ok THEN Register(done.it, x.name, x.spec) ELSE done
           P(f) == f = [s \in SUBSET (DOMAIN items) |->
                          IF s = {} THEN start ELSE Round(f[s \ {Max(s)}], items[Max(s)])]
           F == CHOOSE f : P(f)
<1>1. Len(items) \in Nat /\ DOMAIN items = 1 .. Len(items)
  BY SeqFacts
<1>2. RegisterEach(base, items) = F[DOMAIN items]
  BY DEF RegisterEach, Each, FoldLeft, MapThenFoldSet
<1> HIDE DEF start
<1>3. \A f : P(f) <=> LoopOver(<<"table">>, f, start, items, Len(items))
  BY <1>1 DEF LoopOver, LoopBody
<1>4. \E f : P(f)
  BY <1>1, <1>3, LoopExists
<1>5. P(F)
  BY <1>4
<1> HIDE DEF F
<1>6. LoopOver(<<"table">>, F, start, items, Len(items))
  BY <1>3, <1>5
<1>7. \E c : LoopRounds(<<"table">>, c, start, items) /\ c[Len(items)] = F[1 .. Len(items)]
  BY <1>1, <1>6, LoopHasRounds
<1> QED
  BY <1>1, <1>2, <1>7 DEF start

\* The relations of a manifest: one after another, until one fails.
LEMMA RelationLoop ==
  ASSUME NEW base, NEW items, IsSeq(items)
  PROVE  \E c : /\ LoopRounds(<<"relation">>, c, Succeeds(base), items)
                /\ Each(AddRelation, base, items) = c[Len(items)]
<1> DEFINE start == Succeeds(base)
           Round(done, x) == IF done.ok THEN AddRelation(done.it, x) ELSE done
           P(f) == f = [s \in SUBSET (DOMAIN items) |->
                          IF s = {} THEN start ELSE Round(f[s \ {Max(s)}], items[Max(s)])]
           F == CHOOSE f : P(f)
<1>1. Len(items) \in Nat /\ DOMAIN items = 1 .. Len(items)
  BY SeqFacts
<1>2. Each(AddRelation, base, items) = F[DOMAIN items]
  BY DEF Each, FoldLeft, MapThenFoldSet
<1> HIDE DEF start
<1>3. \A f : P(f) <=> LoopOver(<<"relation">>, f, start, items, Len(items))
  BY <1>1 DEF LoopOver, LoopBody
<1>4. \E f : P(f)
  BY <1>1, <1>3, LoopExists
<1>5. P(F)
  BY <1>4
<1> HIDE DEF F
<1>6. LoopOver(<<"relation">>, F, start, items, Len(items))
  BY <1>3, <1>5
<1>7. \E c : LoopRounds(<<"relation">>, c, start, items) /\ c[Len(items)] = F[1 .. Len(items)]
  BY <1>1, <1>6, LoopHasRounds
<1> QED
  BY <1>1, <1>2, <1>7 DEF start

\* The definitions of the content: one after another, until one fails.
LEMMA DefinitionLoop ==
  ASSUME NEW base, NEW items, IsSeq(items)
  PROVE  \E c : /\ LoopRounds(<<"definition">>, c, Succeeds(base), items)
                /\ Each(CompileTable, base, items) = c[Len(items)]
<1> DEFINE start == Succeeds(base)
           Round(done, x) == IF done.ok THEN CompileTable(done.it, x) ELSE done
           P(f) == f = [s \in SUBSET (DOMAIN items) |->
                          IF s = {} THEN start ELSE Round(f[s \ {Max(s)}], items[Max(s)])]
           F == CHOOSE f : P(f)
<1>1. Len(items) \in Nat /\ DOMAIN items = 1 .. Len(items)
  BY SeqFacts
<1>2. Each(CompileTable, base, items) = F[DOMAIN items]
  BY DEF Each, FoldLeft, MapThenFoldSet
<1> HIDE DEF start
<1>3. \A f : P(f) <=> LoopOver(<<"definition">>, f, start, items, Len(items))
  BY <1>1 DEF LoopOver, LoopBody
<1>4. \E f : P(f)
  BY <1>1, <1>3, LoopExists
<1>5. P(F)
  BY <1>4
<1> HIDE DEF F
<1>6. LoopOver(<<"definition">>, F, start, items, Len(items))
  BY <1>3, <1>5
<1>7. \E c : LoopRounds(<<"definition">>, c, start, items) /\ c[Len(items)] = F[1 .. Len(items)]
  BY <1>1, <1>6, LoopHasRounds
<1> QED
  BY <1>1, <1>2, <1>7 DEF start

\* The tiers of the compiled tables: one after another, until one fails.
LEMMA TierLoop ==
  ASSUME NEW base, NEW items, IsSeq(items)
  PROVE  \E c : /\ LoopRounds(<<"tier">>, c, Succeeds(base), items)
                /\ Each(RegisterTier, base, items) = c[Len(items)]
<1> DEFINE start == Succeeds(base)
           Round(done, x) == IF done.ok THEN RegisterTier(done.it, x) ELSE done
           P(f) == f = [s \in SUBSET (DOMAIN items) |->
                          IF s = {} THEN start ELSE Round(f[s \ {Max(s)}], items[Max(s)])]
           F == CHOOSE f : P(f)
<1>1. Len(items) \in Nat /\ DOMAIN items = 1 .. Len(items)
  BY SeqFacts
<1>2. Each(RegisterTier, base, items) = F[DOMAIN items]
  BY DEF Each, FoldLeft, MapThenFoldSet
<1> HIDE DEF start
<1>3. \A f : P(f) <=> LoopOver(<<"tier">>, f, start, items, Len(items))
  BY <1>1 DEF LoopOver, LoopBody
<1>4. \E f : P(f)
  BY <1>1, <1>3, LoopExists
<1>5. P(F)
  BY <1>4
<1> HIDE DEF F
<1>6. LoopOver(<<"tier">>, F, start, items, Len(items))
  BY <1>3, <1>5
<1>7. \E c : LoopRounds(<<"tier">>, c, start, items) /\ c[Len(items)] = F[1 .. Len(items)]
  BY <1>1, <1>6, LoopHasRounds
<1> QED
  BY <1>1, <1>2, <1>7 DEF start

\* The tables of a manifest leave the registry sound, and so, whichever of them
\* fails, do its relations.
LEMMA RegisterEachKeeps ==
  ASSUME NEW base, RegistryOk(base), NEW items, IsSeq(items)
  PROVE  RegistryOk(RegisterEach(base, items).it)
<1>1. PICK c : /\ LoopRounds(<<"table">>, c, Succeeds(base), items)
               /\ RegisterEach(base, items) = c[Len(items)]
  BY TableLoop
<1>2. PICK n \in Nat : n = Len(items)
  BY SeqFacts
<1> DEFINE G == {k \in 0 .. n : RegistryOk(c[k].it)}
<1>3. 0 \in G
  <2>1. c[0] = Succeeds(base)
    BY <1>1 DEF LoopRounds
  <2>2. c[0].it = base
    BY <2>1 DEF Succeeds
  <2> QED
    BY <2>2
<1>4. ASSUME NEW k \in 1 .. n, k - 1 \in G PROVE k \in G
  <2>1. c[k] = IF c[k - 1].ok THEN Register(c[k - 1].it, items[k].name, items[k].spec) ELSE c[k - 1]
    BY <1>1, <1>2 DEF LoopRounds, LoopBody
  <2>2. RegistryOk(c[k - 1].it)
    BY <1>4
  <2>3. RegistryOk(c[k].it)
    BY <2>1, <2>2, RegisterKeeps
  <2> QED
    BY <2>3
<1> HIDE DEF G
<1>5. \A k \in 0 .. n : k \in G
  BY <1>3, <1>4, UpTo
<1>6. n \in G
  BY <1>5
<1> QED
  BY <1>1, <1>2, <1>6 DEF G

\* The relations of a manifest leave the registry sound.
LEMMA AddEachKeeps ==
  ASSUME NEW base, RegistryOk(base), NEW items, IsSeq(items)
  PROVE  RegistryOk(Each(AddRelation, base, items).it)
<1>1. PICK c : /\ LoopRounds(<<"relation">>, c, Succeeds(base), items)
               /\ Each(AddRelation, base, items) = c[Len(items)]
  BY RelationLoop
<1>2. PICK n \in Nat : n = Len(items)
  BY SeqFacts
<1> DEFINE G == {k \in 0 .. n : RegistryOk(c[k].it)}
<1>3. 0 \in G
  <2>1. c[0] = Succeeds(base)
    BY <1>1 DEF LoopRounds
  <2>2. c[0].it = base
    BY <2>1 DEF Succeeds
  <2> QED
    BY <2>2
<1>4. ASSUME NEW k \in 1 .. n, k - 1 \in G PROVE k \in G
  <2>1. c[k] = IF c[k - 1].ok THEN AddRelation(c[k - 1].it, items[k]) ELSE c[k - 1]
    BY <1>1, <1>2 DEF LoopRounds, LoopBody
  <2>2. RegistryOk(c[k - 1].it)
    BY <1>4
  <2>3. RegistryOk(c[k].it)
    BY <2>1, <2>2, AddRelationKeeps
  <2> QED
    BY <2>3
<1> HIDE DEF G
<1>5. \A k \in 0 .. n : k \in G
  BY <1>3, <1>4, UpTo
<1>6. n \in G
  BY <1>5
<1> QED
  BY <1>1, <1>2, <1>6 DEF G

\* What the compiler has so far.
CompilerOk(out) ==
  /\ out = [registry |-> out.registry, store |-> out.store, tiers |-> out.tiers]
  /\ RegistryOk(out.registry)

\* A definition becomes a table of the registry and of the store, or neither.
LEMMA CompileTableKeeps ==
  ASSUME NEW out, CompilerOk(out), NEW def
  PROVE  CompilerOk(CompileTable(out, def).it)
<1> DEFINE registered == Register(out.registry, def.name, def.spec)
           batches == BuildBatches(def)
<1>1. CASE ~registered.ok \/ def.name \in DOMAIN out.store \/ ~batches.ok
  BY <1>1 DEF CompileTable, Fails
<1>2. CASE ~ (~registered.ok \/ def.name \in DOMAIN out.store \/ ~batches.ok)
  <2> DEFINE reg == registered.it
             store == Put(out.store, def.name, batches.it)
             done == [out EXCEPT !.registry = reg, !.store = store]
  <2>1. CompileTable(out, def).it = done
    BY <1>2 DEF CompileTable, Succeeds
  <2>2. RegistryOk(reg)
    BY RegisterKeeps DEF CompilerOk
  <2>3. out = [registry |-> out.registry, store |-> out.store, tiers |-> out.tiers]
    BY DEF CompilerOk
  <2>6. done = [out EXCEPT !.registry = reg, !.store = store]
    OBVIOUS
  <2> HIDE DEF reg, store, done
  <2>4. done.registry = reg
    BY <2>3, <2>6
  <2>5. done = [registry |-> done.registry, store |-> done.store, tiers |-> done.tiers]
    BY <2>3, <2>6
  <2> QED
    BY <2>1, <2>2, <2>4, <2>5 DEF CompilerOk
<1> QED
  BY <1>1, <1>2

\* A tier is registered, or it is not.
LEMMA RegisterTierKeeps ==
  ASSUME NEW out, CompilerOk(out), NEW def
  PROVE  CompilerOk(RegisterTier(out, def).it)
<1>1. CASE def.spec.tier # "Authority" \/ def.name \in DOMAIN out.tiers
  BY <1>1 DEF RegisterTier, Fails
<1>2. CASE ~ (def.spec.tier # "Authority" \/ def.name \in DOMAIN out.tiers)
  <2> DEFINE tiers == Put(out.tiers, def.name, "Authority")
             done == [out EXCEPT !.tiers = tiers]
  <2>1. RegisterTier(out, def).it = done
    BY <1>2 DEF RegisterTier, Succeeds
  <2>2. out = [registry |-> out.registry, store |-> out.store, tiers |-> out.tiers]
    BY DEF CompilerOk
  <2> HIDE DEF tiers
  <2>3. done.registry = out.registry
    BY <2>2
  <2>4. done = [registry |-> done.registry, store |-> done.store, tiers |-> done.tiers]
    BY <2>2
  <2> HIDE DEF done
  <2> QED
    BY <2>1, <2>3, <2>4 DEF CompilerOk
<1> QED
  BY <1>1, <1>2

\* All definitions.
LEMMA CompileEachKeeps ==
  ASSUME NEW base, CompilerOk(base), NEW items, IsSeq(items)
  PROVE  CompilerOk(Each(CompileTable, base, items).it)
<1>1. PICK c : /\ LoopRounds(<<"definition">>, c, Succeeds(base), items)
               /\ Each(CompileTable, base, items) = c[Len(items)]
  BY DefinitionLoop
<1>2. PICK n \in Nat : n = Len(items)
  BY SeqFacts
<1> DEFINE G == {k \in 0 .. n : CompilerOk(c[k].it)}
<1>3. 0 \in G
  <2>1. c[0] = Succeeds(base)
    BY <1>1 DEF LoopRounds
  <2>2. c[0].it = base
    BY <2>1 DEF Succeeds
  <2> QED
    BY <2>2
<1>4. ASSUME NEW k \in 1 .. n, k - 1 \in G PROVE k \in G
  <2>1. c[k] = IF c[k - 1].ok THEN CompileTable(c[k - 1].it, items[k]) ELSE c[k - 1]
    BY <1>1, <1>2 DEF LoopRounds, LoopBody
  <2>2. CompilerOk(c[k - 1].it)
    BY <1>4
  <2>3. CompilerOk(c[k].it)
    BY <2>1, <2>2, CompileTableKeeps
  <2> QED
    BY <2>3
<1> HIDE DEF G
<1>5. \A k \in 0 .. n : k \in G
  BY <1>3, <1>4, UpTo
<1>6. n \in G
  BY <1>5
<1> QED
  BY <1>1, <1>2, <1>6 DEF G

\* All tiers.
LEMMA TierEachKeeps ==
  ASSUME NEW base, CompilerOk(base), NEW items, IsSeq(items)
  PROVE  CompilerOk(Each(RegisterTier, base, items).it)
<1>1. PICK c : /\ LoopRounds(<<"tier">>, c, Succeeds(base), items)
               /\ Each(RegisterTier, base, items) = c[Len(items)]
  BY TierLoop
<1>2. PICK n \in Nat : n = Len(items)
  BY SeqFacts
<1> DEFINE G == {k \in 0 .. n : CompilerOk(c[k].it)}
<1>3. 0 \in G
  <2>1. c[0] = Succeeds(base)
    BY <1>1 DEF LoopRounds
  <2>2. c[0].it = base
    BY <2>1 DEF Succeeds
  <2> QED
    BY <2>2
<1>4. ASSUME NEW k \in 1 .. n, k - 1 \in G PROVE k \in G
  <2>1. c[k] = IF c[k - 1].ok THEN RegisterTier(c[k - 1].it, items[k]) ELSE c[k - 1]
    BY <1>1, <1>2 DEF LoopRounds, LoopBody
  <2>2. CompilerOk(c[k - 1].it)
    BY <1>4
  <2>3. CompilerOk(c[k].it)
    BY <2>1, <2>2, RegisterTierKeeps
  <2> QED
    BY <2>3
<1> HIDE DEF G
<1>5. \A k \in 0 .. n : k \in G
  BY <1>3, <1>4, UpTo
<1>6. n \in G
  BY <1>5
<1> QED
  BY <1>1, <1>2, <1>6 DEF G

\* A manifest as export_manifest writes it.
ManifestOk(m) ==
  /\ IsSeq(m.tables) /\ IsSeq(m.relations)
  /\ \A i, j \in DOMAIN m.tables : m.tables[i].name = m.tables[j].name => i = j
  /\ Distinct(m.relations) /\ ~ Cyclic(m.relations)

\* A registry whose labels load_from_manifest has set.
LEMMA LoadingStarts ==
  ASSUME NEW r, RegistryOk(r), NEW m
  PROVE  LET start == [r EXCEPT !.migrated = {m}, !.mods = m.mods] IN
           /\ RegistryOk(start) /\ start.tables = r.tables /\ start.graph = r.graph
           /\ start.frozen = r.frozen /\ start.mods = m.mods
<1> DEFINE start == [r EXCEPT !.migrated = {m}, !.mods = m.mods]
<1>1. r = [tables |-> r.tables, graph |-> r.graph, frozen |-> r.frozen,
           mods |-> r.mods, migrated |-> r.migrated]
  BY DEF RegistryOk
<1>2. start = [r EXCEPT !.migrated = {m}, !.mods = m.mods]
  OBVIOUS
<1>3. /\ start.tables = r.tables /\ start.graph = r.graph
      /\ start.frozen = r.frozen /\ start.mods = m.mods
  BY <1>1
<1> HIDE DEF start
<1>4. start = [tables |-> start.tables, graph |-> start.graph, frozen |-> start.frozen,
               mods |-> start.mods, migrated |-> start.migrated]
  BY <1>1, <1>2
<1>5. RegistryOk(start)
  BY <1>3, <1>4, Relabelled
<1> QED
  BY <1>3, <1>5 DEF start

\* load_from_manifest leaves a sound registry, also when it fails half way.
LEMMA ManifestLoadKeeps ==
  ASSUME NEW r, RegistryOk(r), NEW m, ManifestOk(m)
  PROVE  RegistryOk(LoadFromManifest(r, m).it)
<1> DEFINE start == [r EXCEPT !.migrated = {m}, !.mods = m.mods]
           tabled == RegisterEach(start, m.tables)
           related == IF tabled.ok THEN Each(AddRelation, tabled.it, m.relations) ELSE tabled
<1>1. CASE r.frozen
  BY <1>1 DEF LoadFromManifest, Fails
<1>2. CASE ~ r.frozen
  <2>1. LoadFromManifest(r, m).it = related.it
    BY <1>2 DEF LoadFromManifest, Fails
  <2>2. RegistryOk(start)
    BY LoadingStarts
  <2> HIDE DEF start
  <2>3. RegistryOk(tabled.it)
    BY <2>2, RegisterEachKeeps DEF ManifestOk
  <2> HIDE DEF tabled
  <2>4. RegistryOk(related.it)
    <3>1. RegistryOk(Each(AddRelation, tabled.it, m.relations).it)
      BY <2>3, AddEachKeeps DEF ManifestOk
    <3> QED
      BY <2>3, <3>1
  <2> QED
    BY <2>1, <2>4
<1> QED
  BY <1>1, <1>2

\* What the manifest adds to the compiled tables.
LEMMA WithManifestKeeps ==
  ASSUME NEW out, CompilerOk(out), NEW defs, NEW m, ManifestOk(m)
  PROVE  CompilerOk(WithManifest(out, defs, m).it)
<1> DEFINE kept == SetMigratedManifest(out.registry, m).it
           related == Each(AddRelation, kept, m.relations)
           graph == related.it.graph
           named == {[name |-> defs[i].name, spec |-> defs[i].spec] : i \in DOMAIN defs}
           mods == {[mod EXCEPT !.hash = ComputeHash(mod, named)] : mod \in m.mods}
           last == StoreModFingerprints(related.it, mods).it
           done == [out EXCEPT !.registry = last]
<1>1. WithManifest(out, defs, m).it = out \/ WithManifest(out, defs, m).it = done
  BY DEF WithManifest, Fails, Succeeds
<1>2. RegistryOk(kept)
  BY LabelsKeep DEF CompilerOk
<1> HIDE DEF kept
<1>3. RegistryOk(related.it)
  BY <1>2, AddEachKeeps DEF ManifestOk
<1> HIDE DEF related, mods
<1>4. RegistryOk(last)
  BY <1>3, LabelsKeep
<1> HIDE DEF last
<1>5. out = [registry |-> out.registry, store |-> out.store, tiers |-> out.tiers]
  BY DEF CompilerOk
<1>6. done.registry = last
  BY <1>5
<1>7. done = [registry |-> done.registry, store |-> done.store, tiers |-> done.tiers]
  BY <1>5
<1> HIDE DEF done
<1>8. CompilerOk(done)
  BY <1>4, <1>6, <1>7 DEF CompilerOk
<1> QED
  BY <1>1, <1>8

\* What the compiler makes of the content is a sound registry.
LEMMA CompileKeeps ==
  ASSUME NEW defs, IsSeq(defs), NEW manifests, \A m \in manifests : ManifestOk(m)
  PROVE  RegistryOk(Compile(defs, manifests).it.registry)
<1> DEFINE start == [registry |-> NewRegistry, store |-> <<>>, tiers |-> <<>>]
           compiled == Each(CompileTable, start, defs)
           chosen == CHOOSE m \in manifests : TRUE
           extended == IF compiled.ok /\ manifests # {}
                         THEN WithManifest(compiled.it, defs, chosen) ELSE compiled
           tiered == IF extended.ok THEN Each(RegisterTier, extended.it, defs) ELSE extended
           done == Compile(defs, manifests)
<1>1. CompilerOk(start)
  BY NewRegistryOk DEF CompilerOk
<1>2. done.it = [tiered.it EXCEPT !.registry = IF tiered.ok THEN Freeze(@) ELSE @]
  BY DEF Compile
<1> HIDE DEF start
<1>3. CompilerOk(compiled.it)
  BY <1>1, CompileEachKeeps
<1> HIDE DEF compiled
<1>4. CompilerOk(extended.it)
  <2>1. CASE compiled.ok /\ manifests # {}
    <3>1. ManifestOk(chosen)
      BY <2>1
    <3> HIDE DEF chosen
    <3> QED
      BY <1>3, <2>1, <3>1, WithManifestKeeps
  <2>2. CASE ~ (compiled.ok /\ manifests # {})
    BY <1>3, <2>2
  <2> QED
    BY <2>1, <2>2
<1> HIDE DEF extended
<1>5. CompilerOk(tiered.it)
  <2>1. CompilerOk(Each(RegisterTier, extended.it, defs).it)
    BY <1>4, TierEachKeeps
  <2> QED
    BY <1>4, <2>1
<1> HIDE DEF tiered, done
<1>6. tiered.it = [registry |-> tiered.it.registry, store |-> tiered.it.store,
                   tiers |-> tiered.it.tiers]
  BY <1>5 DEF CompilerOk
<1>7. done.it.registry = IF tiered.ok THEN Freeze(tiered.it.registry) ELSE tiered.it.registry
  BY <1>2, <1>6
<1>8. RegistryOk(tiered.it.registry) /\ RegistryOk(Freeze(tiered.it.registry))
  BY <1>5, LabelsKeep DEF CompilerOk
<1> QED
  BY <1>7, <1>8 DEF done

\* export_manifest names every table once, and the relations of the graph.
LEMMA ExportIs ==
  ASSUME NEW r, RegistryOk(r), NEW version, NEW order \in SetToSeqs(DOMAIN r.tables)
  PROVE  ManifestOk(ExportManifest(r, version, order))
<1> DEFINE m == ExportManifest(r, version, order)
           n == Cardinality(DOMAIN r.tables)
<1>1. n \in Nat
  BY FS_CardinalityType DEF RegistryOk
<1>2. DOMAIN order = 1 .. n /\ \A i, j \in 1 .. n : i # j => order[i] # order[j]
  BY DEF SetToSeqs
<1>3. /\ m.relations = r.graph.edges
      /\ m.tables = [i \in DOMAIN order |-> [name |-> order[i], spec |-> r.tables[order[i]]]]
  BY DEF ExportManifest
<1> HIDE DEF m
<1>4. /\ m.tables = [i \in 1 .. n |-> m.tables[i]]
      /\ \A i \in 1 .. n : m.tables[i].name = order[i]
  BY <1>2, <1>3
<1> HIDE DEF n
<1>5. IsSeq(m.tables) /\ DOMAIN m.tables = 1 .. n
  BY <1>1, <1>4, SeqIntro
<1>6. IsSeq(m.relations) /\ Distinct(m.relations) /\ ~ Cyclic(m.relations)
  BY <1>3 DEF RegistryOk, SoundGraph, GraphOk
<1>7. \A i, j \in DOMAIN m.tables : m.tables[i].name = m.tables[j].name => i = j
  BY <1>2, <1>4, <1>5
<1> QED
  BY <1>5, <1>6, <1>7 DEF ManifestOk, m

\* A path that is valid stays so when tables are added.
LEMMA ValidStaysValid ==
  ASSUME NEW r, NEW old, Extends(r, old), NEW paths, Validate(old, paths) = {}
  PROVE  Validate(r, paths) = {}
<1> SUFFICES ASSUME NEW p \in Validate(r, paths) PROVE FALSE
  OBVIOUS
<1>1. p \in paths /\ p \notin Validate(old, paths)
  BY DEF Validate
<1>2. /\ p.table \in DOMAIN old.tables
      /\ \A c \in p.columns : ColumnByName(old.tables[p.table], c) # {}
      /\ \A e \in p.relations : FindEdge(old.graph, e.from, e.to) # {}
  BY <1>1 DEF Validate
<1>3. /\ p.table \in DOMAIN r.tables /\ r.tables[p.table] = old.tables[p.table]
      /\ r.graph = old.graph
  BY <1>2 DEF Extends
<1> QED
  BY <1>2, <1>3 DEF Validate

\* The inductive invariant of the schema: nothing is validated before an engine
\* owns the registry, so that what the loader removes was nobody's.
SchemaInv ==
  /\ RegistryOk(registry)
  /\ \A m \in saved : ManifestOk(m)
  /\ ~ owned => validated = {}
  /\ Validate(registry, validated) = {}

\* It holds at first.
LEMMA SchemaInvInit == ServicesInit => SchemaInv
<1> SUFFICES ASSUME ServicesInit PROVE SchemaInv
  OBVIOUS
<1>1. registry = NewRegistry /\ saved = {} /\ validated = {}
  BY DEF ServicesInit
<1>2. Validate(registry, {}) = {}
  BY DEF Validate
<1> QED
  BY <1>1, <1>2, NewRegistryOk DEF SchemaInv

\* The loader has the registry to itself.
LEMMA LoadingKeeps ==
  ASSUME SchemaInv, NEW result, Loading(result), RegistryOk(result.it)
  PROVE  SchemaInv'
<1>1. ~ owned /\ registry' = result.it /\ UNCHANGED <<saved, owned, validated>>
  BY DEF Loading
<1>2. validated' = {}
  BY <1>1 DEF SchemaInv
<1>3. Validate(registry, validated)' = {}
  BY <1>2 DEF Validate
<1>4. RegistryOk(registry)'
  BY <1>1
<1>5. (\A m \in saved : ManifestOk(m))' /\ (~ owned => validated = {})'
  BY <1>1, <1>2 DEF SchemaInv
<1> QED
  BY <1>3, <1>4, <1>5 DEF SchemaInv

\* Every step keeps the invariant of the schema.
LEMMA SchemaInvNext == SchemaInv /\ [ServicesNext]_servicesVars => SchemaInv'
<1> SUFFICES ASSUME SchemaInv, [ServicesNext]_servicesVars PROVE SchemaInv'
  OBVIOUS
<1>0. RegistryOk(registry) /\ \A m \in saved : ManifestOk(m)
  BY DEF SchemaInv
<1>1. ASSUME UNCHANGED schema PROVE SchemaInv'
  <2>1. UNCHANGED <<registry, saved, owned, validated>>
    BY <1>1 DEF schema
  <2> QED
    BY <2>1 DEF SchemaInv, Validate
<1>2. ASSUME NEW n \in Table, NEW spec \in Spec, RegisterTable(n, spec) PROVE SchemaInv'
  <2>1. RegistryOk(Register(registry, n, spec).it)
    BY <1>0, RegisterKeeps
  <2> QED
    BY <1>2, <2>1, LoadingKeeps DEF RegisterTable
<1>3. ASSUME NEW n \in Table, RemoveSpec(n) PROVE SchemaInv'
  <2>1. RegistryOk(RemoveTable(registry, n).it)
    BY <1>0, RemoveTableKeeps
  <2> QED
    BY <1>3, <2>1, LoadingKeeps DEF RemoveSpec
<1>4. ASSUME NEW e \in Edge, AddARelation(e) PROVE SchemaInv'
  <2>1. RegistryOk(AddRelation(registry, e).it)
    BY <1>0, AddRelationKeeps
  <2> QED
    BY <1>4, <2>1, LoadingKeeps DEF AddARelation
<1>20. ASSUME NEW e \in Edge, AddAnEdge(e) PROVE SchemaInv'
  <2>1. RegistryOk(AddToGraph(registry, e).it)
    BY <1>0, AddToGraphKeeps
  <2> QED
    BY <1>20, <2>1, LoadingKeeps DEF AddAnEdge
<1>21. ASSUME NEW n \in Table, NEW spec \in Spec, ReplaceASpec(n, spec) PROVE SchemaInv'
  <2>1. RegistryOk(ReplaceSpec(registry, n, spec).it)
    BY <1>0, ReplaceSpecKeeps
  <2> QED
    BY <1>21, <2>1, LoadingKeeps DEF ReplaceASpec
<1>5. ASSUME NEW e \in Edge, RemoveARelation(e) PROVE SchemaInv'
  <2>1. RegistryOk(RemoveRelation(registry, e.from, e.to).it)
    BY <1>0, RemoveRelationKeeps
  <2> QED
    BY <1>5, <2>1, LoadingKeeps DEF RemoveARelation
<1>6. ASSUME NEW mods \in ModSets, StoreMods(mods) PROVE SchemaInv'
  <2>1. RegistryOk(StoreModFingerprints(registry, mods).it)
    BY <1>0, LabelsKeep
  <2> QED
    BY <1>6, <2>1, LoadingKeeps DEF StoreMods
<1>7. ASSUME FreezeRegistry PROVE SchemaInv'
  <2>1. Succeeds(Freeze(registry)).it = Freeze(registry)
    BY DEF Succeeds
  <2>2. RegistryOk(Succeeds(Freeze(registry)).it)
    BY <1>0, <2>1, LabelsKeep
  <2> QED
    BY <1>7, <2>2, LoadingKeeps DEF FreezeRegistry
<1>8. ASSUME LoadManifest PROVE SchemaInv'
  <2>1. PICK m \in saved : Loading(LoadFromManifest(registry, m))
    BY <1>8 DEF LoadManifest
  <2>2. RegistryOk(LoadFromManifest(registry, m).it)
    BY <1>0, ManifestLoadKeeps
  <2> QED
    BY <2>1, <2>2, LoadingKeeps
<1>9. ASSUME NewProcess PROVE SchemaInv'
  <2>1. Succeeds(NewRegistry).it = NewRegistry
    BY DEF Succeeds
  <2>2. RegistryOk(Succeeds(NewRegistry).it)
    BY <2>1, NewRegistryOk
  <2> QED
    BY <1>9, <2>2, LoadingKeeps DEF NewProcess
<1>10. ASSUME NEW defs \in Content, CompileContent(defs) PROVE SchemaInv'
  <2> DEFINE new == Compile(defs, saved).it.registry
  <2>1. Loading(Succeeds(new))
    BY <1>10 DEF CompileContent
  <2>2. IsSeq(defs)
    BY ServicesAssumption DEF IsSeq
  <2>3. RegistryOk(new)
    BY <1>0, <2>2, CompileKeeps
  <2> HIDE DEF new
  <2>4. RegistryOk(Succeeds(new).it)
    BY <2>3 DEF Succeeds
  <2> QED
    BY <2>1, <2>4, LoadingKeeps
<1>11. ASSUME Export PROVE SchemaInv'
  <2>1. PICK order \in SetToSeqs(DOMAIN registry.tables) :
          saved' = {ExportManifest(registry, "v1", order)}
    BY <1>11 DEF Export
  <2>2. ManifestOk(ExportManifest(registry, "v1", order))
    BY <1>0, ExportIs
  <2>3. UNCHANGED <<registry, owned, validated>>
    BY <1>11 DEF Export
  <2> QED
    BY <2>1, <2>2, <2>3 DEF SchemaInv, Validate
<1>12. ASSUME NewEngine PROVE SchemaInv'
  <2>1. owned' = TRUE /\ UNCHANGED <<registry, saved, validated>>
    BY <1>12 DEF NewEngine
  <2> QED
    BY <2>1 DEF SchemaInv, Validate
<1>13. ASSUME owned, UNCHANGED <<saved, owned, validated>>,
              RegistryOk(registry'), Extends(registry', registry)
       PROVE  SchemaInv'
  <2>1. Validate(registry', validated) = {}
    BY <1>13, ValidStaysValid DEF SchemaInv
  <2> QED
    BY <1>13, <2>1 DEF SchemaInv, Validate
<1>14. ASSUME NEW n \in Table, NEW spec \in Spec, RegisterTableSchema(n, spec) PROVE SchemaInv'
  <2>1. owned /\ registry' = Register(registry, n, spec).it /\ UNCHANGED <<saved, owned, validated>>
    BY <1>14 DEF RegisterTableSchema
  <2>2. RegistryOk(registry') /\ Extends(registry', registry)
    BY <1>0, <2>1, RegisterKeeps
  <2> QED
    BY <1>13, <2>1, <2>2
<1>15. ASSUME FreezeSchemaRegistry PROVE SchemaInv'
  <2>1. owned /\ registry' = Freeze(registry) /\ UNCHANGED <<saved, owned, validated>>
    BY <1>15 DEF FreezeSchemaRegistry
  <2>2. RegistryOk(registry') /\ Extends(registry', registry)
    BY <1>0, <2>1, LabelsKeep
  <2> QED
    BY <1>13, <2>1, <2>2
<1>16. ASSUME ValidatePaths PROVE SchemaInv'
  <2>1. /\ owned /\ validated' = Paths \ Validate(registry, Paths)
        /\ UNCHANGED <<registry, saved, owned>>
    BY <1>16 DEF ValidatePaths
  <2>2. Validate(registry, Paths \ Validate(registry, Paths)) = {}
    BY DEF Validate
  <2>3. Validate(registry, validated)' = {}
    BY <2>1, <2>2 DEF Validate
  <2> QED
    BY <2>1, <2>3 DEF SchemaInv
<1>17. ASSUME LoadStep PROVE SchemaInv'
  <2>1. \/ \E n \in Table :
             RemoveSpec(n) \/ \E spec \in Spec : RegisterTable(n, spec) \/ ReplaceASpec(n, spec)
        \/ \E e \in Edge : AddARelation(e) \/ AddAnEdge(e) \/ RemoveARelation(e)
        \/ \E mods \in ModSets : StoreMods(mods)
        \/ FreezeRegistry \/ LoadManifest \/ NewProcess \/ Export
        \/ \E defs \in Content : CompileContent(defs)
        \/ UNCHANGED schema
    BY <1>17 DEF LoadStep, RegisterAName, ResolveAName, SyncNames
  <2> QED
    BY <1>1, <1>2, <1>3, <1>4, <1>5, <1>6, <1>7, <1>8, <1>9, <1>10, <1>11, <1>20, <1>21, <2>1
<1>18. ASSUME EngineStep PROVE SchemaInv'
  <2>1. \/ NewEngine \/ FreezeSchemaRegistry \/ ValidatePaths
        \/ \E n \in Table, spec \in Spec : RegisterTableSchema(n, spec)
        \/ UNCHANGED schema
    BY <1>18 DEF EngineStep, ClearOps, ClearSqlLog, RegisterSqlTable, UnregisterSqlTable,
       ExecuteSqlWrite, ExecuteSql, SetEnabled, SetLegacyEnabled, PushDiffSummaries
  <2> QED
    BY <1>1, <1>12, <1>14, <1>15, <1>16, <2>1
<1>19. ASSUME UNCHANGED servicesVars PROVE SchemaInv'
  BY <1>1, <1>19 DEF servicesVars
<1> QED
  BY <1>17, <1>18, <1>19 DEF ServicesNext

\* GraphSound (relation.rs: add_edge, remove_edge, rebuild_adjacency and
\* detect_cycles under every call of the registry): the adjacency lists are the
\* edges, no relation is there twice or closes a cycle, the walk of the loader
\* finds none, and what the engine found valid stays valid.
THEOREM GraphStaysSound == ServicesSpec => []GraphSound
<1>1. SchemaInv => GraphSound
  <2> SUFFICES ASSUME SchemaInv PROVE GraphSound
    OBVIOUS
  <2> DEFINE g == registry.graph
  <2>1. GraphOk(g) /\ Distinct(g.edges) /\ ~ Cyclic(g.edges)
    BY DEF SchemaInv, RegistryOk, SoundGraph
  <2>2. Validate(registry, validated) = {}
    BY DEF SchemaInv
  <2> HIDE DEF g
  <2>3. \A t \in DOMAIN g.adjacency : \A k \in DOMAIN g.adjacency[t] :
          g.adjacency[t][k] \in DOMAIN g.edges /\ g.edges[g.adjacency[t][k]].from = t
    BY <2>1 DEF GraphOk
  <2>4. ASSUME NEW i \in DOMAIN g.edges
        PROVE  /\ g.edges[i].from \in DOMAIN g.adjacency
               /\ Cardinality({k \in DOMAIN g.adjacency[g.edges[i].from] :
                                 g.adjacency[g.edges[i].from][k] = i}) = 1
               /\ \A j \in DOMAIN g.edges : g.edges[i] = g.edges[j] => i = j
    <3> DEFINE list == g.adjacency[g.edges[i].from]
               K == {k \in DOMAIN list : list[k] = i}
    <3>1. g.edges[i].from \in DOMAIN g.adjacency
      BY <2>1 DEF GraphOk
    <3>2. PICK k \in DOMAIN list : list[k] = i
      BY <2>1 DEF GraphOk
    <3>3. \A l \in DOMAIN list : list[l] = list[k] => l = k
      BY <2>1, <3>1 DEF GraphOk
    <3>4. K = {k}
      BY <3>2, <3>3
    <3>5. Cardinality(K) = 1
      BY <3>4, FS_Singleton
    <3>6. \A j \in DOMAIN g.edges : g.edges[i] = g.edges[j] => i = j
      BY <2>1 DEF Distinct
    <3> QED
      BY <3>1, <3>5, <3>6
  <2>5. DetectCycles(g, AnyOrder(g)) = <<>>
    BY <2>1, NoFalseCycleAnyOrder
  <2> QED
    BY <2>1, <2>2, <2>3, <2>4, <2>5, Zenon DEF GraphSound, g
<1> QED
  BY <1>1, SchemaInvInit, SchemaInvNext, PTL DEF ServicesSpec

-----------------------------------------------------------------------------
(* Loading what was exported                                               *)

\* An edge that would_create_cycle refuses does close a cycle.
LEMMA RefusedIsCyclic ==
  ASSUME NEW g, GraphOk(g), NEW e, WouldCreateCycle(g, e.from, e.to)
  PROVE  Cyclic(Append(g.edges, e))
<1> DEFINE n == Len(g.edges)
           more == Append(g.edges, e)
           T == Reached(Adjacent(g), e.to)
<1>1. n \in Nat /\ DOMAIN g.edges = 1 .. n /\ IsSeq(g.edges)
  BY SeqFacts DEF GraphOk
<1>2. /\ DOMAIN more = 1 .. n + 1 /\ more[n + 1] = e
      /\ \A i \in 1 .. n : more[i] = g.edges[i]
  <2>1. /\ IsSeq(more) /\ Len(more) = n + 1 /\ more[n + 1] = e
        /\ \A i \in 1 .. n : more[i] = g.edges[i]
    BY <1>1, SeqLonger
  <2> HIDE DEF more
  <2> QED
    BY <2>1, SeqFacts
<1>3. e.from \in T
  BY DEF WouldCreateCycle
<1>4. IsFiniteSet(Adjacent(g)) /\ \A d \in Adjacent(g) :
        \E i \in DOMAIN g.edges : d = <<g.edges[i].from, g.edges[i].to>>
  BY AdjacentIs
<1>5. \A x \in T : x = e.to \/ \E d \in Adjacent(g) : d[2] = x /\ d[1] \in T
  BY <1>4, ReachedFromReached
<1> HIDE DEF T, more
<1>6. ASSUME NEW x \in T
      PROVE  \E i \in DOMAIN more : more[i].to = x /\ more[i].from \in T
  <2>1. CASE x = e.to
    <3>1. n + 1 \in DOMAIN more
      BY <1>1, <1>2
    <3> QED
      BY <1>2, <1>3, <2>1, <3>1
  <2>2. CASE x # e.to
    <3>1. PICK d \in Adjacent(g) : d[2] = x /\ d[1] \in T
      BY <1>5, <2>2
    <3>2. PICK i \in DOMAIN g.edges : d = <<g.edges[i].from, g.edges[i].to>>
      BY <1>4
    <3>3. i \in DOMAIN more /\ more[i] = g.edges[i]
      BY <1>1, <1>2
    <3> QED
      BY <3>1, <3>2, <3>3
  <2> QED
    BY <2>1, <2>2
<1>7. T \in SUBSET {more[i].to : i \in DOMAIN more}
  BY <1>6
<1>8. Cyclic(more)
  BY <1>3, <1>6, <1>7 DEF Cyclic
<1> QED
  BY <1>8 DEF more

\* Some of the edges close no cycle when all of them close none.
LEMMA FewerAcyclic ==
  ASSUME NEW edges, NEW k \in Nat, ~ Cyclic(edges), \A i \in 1 .. k : i \in DOMAIN edges
  PROVE  ~ Cyclic([i \in 1 .. k |-> edges[i]])
<1> DEFINE f == [i \in 1 .. k |-> edges[i]]
<1>1. DOMAIN f = 1 .. k /\ \A i \in 1 .. k : f[i] = edges[i]
  OBVIOUS
<1> HIDE DEF f
<1> SUFFICES ASSUME Cyclic(f) PROVE FALSE
  BY DEF f
<1>2. PICK T : T # {} /\ \A t \in T : \E i \in DOMAIN f : f[i].to = t /\ f[i].from \in T
  BY DEF Cyclic
<1>3. \A t \in T : \E i \in DOMAIN edges : edges[i].to = t /\ edges[i].from \in T
  BY <1>1, <1>2
<1>4. T \in SUBSET {edges[i].to : i \in DOMAIN edges}
  BY <1>3
<1> QED
  BY <1>2, <1>3, <1>4 DEF Cyclic

\* The tables of a manifest load into a registry that has none.
LEMMA TablesLoad ==
  ASSUME NEW r, RegistryOk(r), ~ r.frozen, DOMAIN r.tables = {},
         NEW items, IsSeq(items),
         \A i, j \in DOMAIN items : items[i].name = items[j].name => i = j
  PROVE  LET done == RegisterEach(r, items) IN
           /\ done.ok /\ RegistryOk(done.it)
           /\ done.it.graph = r.graph /\ done.it.mods = r.mods /\ ~ done.it.frozen
           /\ DOMAIN done.it.tables = {items[i].name : i \in DOMAIN items}
           /\ \A i \in DOMAIN items : done.it.tables[items[i].name] = items[i].spec
<1>1. PICK c : /\ LoopRounds(<<"table">>, c, Succeeds(r), items)
               /\ RegisterEach(r, items) = c[Len(items)]
  BY TableLoop
<1>2. PICK n \in Nat : n = Len(items) /\ DOMAIN items = 1 .. n
  BY SeqFacts
<1> DEFINE Loaded(k) ==
             /\ c[k].ok /\ RegistryOk(c[k].it)
             /\ c[k].it.graph = r.graph /\ c[k].it.mods = r.mods /\ ~ c[k].it.frozen
             /\ DOMAIN c[k].it.tables = {items[i].name : i \in 1 .. k}
             /\ \A i \in 1 .. k : c[k].it.tables[items[i].name] = items[i].spec
           G == {k \in 0 .. n : Loaded(k)}
<1>3. 0 \in G
  <2>1. c[0].ok /\ c[0].it = r
    BY <1>1 DEF LoopRounds, Succeeds
  <2>2. 1 .. 0 = {}
    OBVIOUS
  <2> QED
    BY <2>1, <2>2
<1>4. ASSUME NEW k \in 1 .. n, k - 1 \in G PROVE k \in G
  <2>0. Loaded(k - 1)
    BY <1>4
  <2> DEFINE b == c[k - 1].it
             a == c[k].it
             name == items[k].name
             spec == items[k].spec
             added == [t \in DOMAIN b.tables \cup {name} |-> IF t = name THEN spec ELSE b.tables[t]]
  <2>1. c[k] = Register(b, name, spec)
    BY <1>1, <1>2, <2>0 DEF LoopRounds, LoopBody
  <2>2. /\ k \in 1 .. n /\ \A i \in 1 .. k - 1 : i \in 1 .. n /\ i # k
        /\ \A i \in 1 .. k : i = k \/ i \in 1 .. k - 1
        /\ \A i \in 1 .. k - 1 : i \in 1 .. k
        /\ k \in 1 .. k
    OBVIOUS
  <2>3. \A i \in 1 .. k - 1 : items[i].name # name
    BY <1>2, <2>2
  <2>4. name \notin DOMAIN b.tables /\ ~ b.frozen
    BY <2>0, <2>3
  <2>5. c[k].ok /\ a = [b EXCEPT !.tables = added]
    BY <2>1, <2>4 DEF Register, Succeeds
  <2>6. b = [tables |-> b.tables, graph |-> b.graph, frozen |-> b.frozen,
             mods |-> b.mods, migrated |-> b.migrated]
    BY <2>0 DEF RegistryOk
  <2>7. RegistryOk(a)
    BY <2>0, <2>1, RegisterKeeps
  <2>8. /\ DOMAIN added = DOMAIN b.tables \cup {name} /\ added[name] = spec
        /\ \A t \in DOMAIN b.tables : t # name => added[t] = b.tables[t]
    OBVIOUS
  <2> HIDE DEF added, a
  <2>9. a.tables = added /\ a.graph = b.graph /\ a.mods = b.mods /\ a.frozen = b.frozen
    <3> HIDE DEF b
    <3> QED
      BY <2>5, <2>6
  <2>10. DOMAIN a.tables = {items[i].name : i \in 1 .. k}
    BY <2>0, <2>2, <2>8, <2>9
  <2>11. ASSUME NEW i \in 1 .. k PROVE a.tables[items[i].name] = items[i].spec
    <3>1. CASE i = k
      BY <2>8, <2>9, <3>1
    <3>2. CASE i \in 1 .. k - 1
      <4>1. items[i].name \in DOMAIN b.tables /\ b.tables[items[i].name] = items[i].spec
        BY <2>0, <3>2
      <4> QED
        BY <2>3, <2>8, <2>9, <3>2, <4>1
    <3> QED
      BY <2>2, <3>1, <3>2
  <2>12. a.graph = r.graph /\ a.mods = r.mods /\ ~ a.frozen
    BY <2>0, <2>9
  <2>13. Loaded(k)
    BY <2>5, <2>7, <2>10, <2>11, <2>12 DEF a
  <2>14. k \in 0 .. n
    OBVIOUS
  <2> HIDE DEF Loaded
  <2> QED
    BY <2>13, <2>14
<1> HIDE DEF G
<1>5. \A k \in 0 .. n : k \in G
  BY <1>3, <1>4, UpTo
<1>6. n \in G
  BY <1>5
<1>7. Loaded(n)
  BY <1>6 DEF G
<1> QED
  BY <1>1, <1>2, <1>7

\* add_relation takes the next relation of a manifest, when the graph has the
\* ones before it and both tables are there.
LEMMA RelationTaken ==
  ASSUME NEW r, RegistryOk(r), ~ r.frozen, NEW items, IsSeq(items),
         Distinct(items), ~ Cyclic(items), NEW k \in 1 .. Len(items),
         r.graph.edges = [i \in 1 .. k - 1 |-> items[i]],
         {items[k].from, items[k].to} \subseteq DOMAIN r.tables
  PROVE  LET done == AddRelation(r, items[k]) IN
           /\ done.ok /\ RegistryOk(done.it)
           /\ done.it.tables = r.tables /\ done.it.mods = r.mods /\ ~ done.it.frozen
           /\ done.it.graph.edges = [i \in 1 .. k |-> items[i]]
<1> DEFINE First(j) == [i \in 1 .. j |-> items[i]]
           e == items[k]
           g == r.graph
<1>1. /\ DOMAIN items = 1 .. Len(items) /\ k \in DOMAIN items /\ k \in Nat
      /\ \A i \in 1 .. k : i \in DOMAIN items
      /\ \A i \in 1 .. k - 1 : i \in DOMAIN items /\ i # k
  BY SeqFacts
<1>2. g.edges = First(k - 1) /\ First(k) = Append(First(k - 1), e)
  BY FirstElements
<1>3. ~ Cyclic(First(k))
  BY <1>1, FewerAcyclic
<1>4. SoundGraph(g)
  BY DEF RegistryOk
<1>5. FindEdge(g, e.from, e.to) = {}
  <2> SUFFICES ASSUME NEW i \in DOMAIN g.edges, g.edges[i].from = e.from, g.edges[i].to = e.to
               PROVE  FALSE
    BY DEF FindEdge
  <2>1. i \in 1 .. k - 1 /\ g.edges[i] = items[i]
    BY <1>2
  <2> QED
    BY <1>1, <2>1 DEF Distinct
<1> HIDE DEF First
<1>6. ~ WouldCreateCycle(g, e.from, e.to)
  BY <1>2, <1>3, <1>4, RefusedIsCyclic DEF SoundGraph
<1> DEFINE after == Pushed(g, e)
           done == [r EXCEPT !.graph = after]
<1>7. AddEdge(g, e) = Succeeds(after)
  BY <1>5, <1>6 DEF AddEdge
<1>8. SoundGraph(after) /\ after.edges = First(k)
  <2>1. after.edges = Append(g.edges, e)
    BY <1>4, PushedKeeps DEF SoundGraph
  <2>2. SoundGraph(AddEdge(g, e).it)
    BY <1>4, AddEdgeKeeps
  <2>3. AddEdge(g, e).it = after
    BY <1>7 DEF Succeeds
  <2> QED
    BY <1>2, <2>1, <2>2, <2>3
<1>9. AddRelation(r, e).ok /\ AddRelation(r, e).it = done
  <2>1. ~ (r.frozen \/ {e.from, e.to} \ DOMAIN r.tables # {})
    OBVIOUS
  <2>2. AddRelation(r, e) = [ok |-> AddEdge(g, e).ok, it |-> [r EXCEPT !.graph = AddEdge(g, e).it]]
    BY <2>1 DEF AddRelation
  <2>3. AddEdge(g, e).ok /\ AddEdge(g, e).it = after
    BY <1>7 DEF Succeeds
  <2> HIDE DEF after
  <2> QED
    BY <2>2, <2>3
<1> HIDE DEF after
<1>10. /\ RegistryOk(done) /\ done.tables = r.tables /\ done.graph = after
       /\ done.frozen = r.frozen /\ done.mods = r.mods
  BY <1>8, WithGraph
<1> HIDE DEF done
<1> QED
  BY <1>8, <1>9, <1>10 DEF First

\* The relations of a manifest load when the tables are there.
LEMMA RelationsLoad ==
  ASSUME NEW r, RegistryOk(r), ~ r.frozen, r.graph.edges = <<>>,
         NEW items, IsSeq(items), Distinct(items), ~ Cyclic(items),
         \A i \in DOMAIN items : {items[i].from, items[i].to} \subseteq DOMAIN r.tables
  PROVE  LET done == Each(AddRelation, r, items) IN
           /\ done.ok /\ RegistryOk(done.it)
           /\ done.it.tables = r.tables /\ done.it.mods = r.mods
           /\ done.it.graph.edges = items
<1>1. PICK c : /\ LoopRounds(<<"relation">>, c, Succeeds(r), items)
               /\ Each(AddRelation, r, items) = c[Len(items)]
  BY RelationLoop
<1>2. PICK n \in Nat : n = Len(items) /\ DOMAIN items = 1 .. n /\ items = [i \in 1 .. n |-> items[i]]
  BY SeqFacts
<1> DEFINE First(j) == [i \in 1 .. j |-> items[i]]
           Loaded(k) ==
             /\ c[k].ok /\ RegistryOk(c[k].it)
             /\ c[k].it.tables = r.tables /\ c[k].it.mods = r.mods /\ ~ c[k].it.frozen
             /\ c[k].it.graph.edges = First(k)
           G == {k \in 0 .. n : Loaded(k)}
<1>3. 0 \in G
  <2>1. c[0].ok /\ c[0].it = r
    BY <1>1 DEF LoopRounds, Succeeds
  <2>2. First(0) = <<>>
    OBVIOUS
  <2> HIDE DEF First
  <2> QED
    BY <2>1, <2>2
<1>4. ASSUME NEW k \in 1 .. n, k - 1 \in G PROVE k \in G
  <2>0. Loaded(k - 1)
    BY <1>4
  <2> DEFINE b == c[k - 1].it
             done == AddRelation(b, items[k])
  <2>1. c[k] = done
    BY <1>1, <1>2, <2>0 DEF LoopRounds, LoopBody
  <2>2. /\ RegistryOk(b) /\ ~ b.frozen /\ b.graph.edges = [i \in 1 .. k - 1 |-> items[i]]
        /\ {items[k].from, items[k].to} \subseteq DOMAIN b.tables
        /\ b.tables = r.tables /\ b.mods = r.mods /\ k \in 1 .. Len(items)
    BY <1>2, <2>0
  <2> HIDE DEF b
  <2>3. /\ done.ok /\ RegistryOk(done.it)
        /\ done.it.tables = b.tables /\ done.it.mods = b.mods /\ ~ done.it.frozen
        /\ done.it.graph.edges = First(k)
    BY <2>2, RelationTaken
  <2> HIDE DEF done, First
  <2>4. Loaded(k)
    BY <2>1, <2>2, <2>3
  <2>5. k \in 0 .. n
    OBVIOUS
  <2> HIDE DEF Loaded
  <2> QED
    BY <2>4, <2>5
<1> HIDE DEF G
<1>5. \A k \in 0 .. n : k \in G
  BY <1>3, <1>4, UpTo
<1>6. n \in G
  BY <1>5
<1>7. Loaded(n)
  BY <1>6 DEF G
<1> QED
  BY <1>1, <1>2, <1>7

\* A relation of a table that is not there is refused, and the loop ends.
LEMMA RelationsRefused ==
  ASSUME NEW r, RegistryOk(r), NEW items, IsSeq(items), NEW p \in DOMAIN items,
         ~ ({items[p].from, items[p].to} \subseteq DOMAIN r.tables)
  PROVE  ~ Each(AddRelation, r, items).ok
<1>1. PICK c : /\ LoopRounds(<<"relation">>, c, Succeeds(r), items)
               /\ Each(AddRelation, r, items) = c[Len(items)]
  BY RelationLoop
<1>2. PICK n \in Nat : n = Len(items) /\ DOMAIN items = 1 .. n
  BY SeqFacts
<1> DEFINE G == {k \in 0 .. n : /\ RegistryOk(c[k].it) /\ c[k].it.tables = r.tables
                                /\ k >= p => ~ c[k].ok}
<1>3. 0 \in G
  <2>1. c[0].it = r
    BY <1>1 DEF LoopRounds, Succeeds
  <2>2. ~ (0 >= p)
    BY <1>2
  <2> QED
    BY <2>1, <2>2
<1>4. ASSUME NEW k \in 1 .. n, k - 1 \in G PROVE k \in G
  <2> DEFINE b == c[k - 1].it
             e == items[k]
  <2>1. /\ RegistryOk(b) /\ b.tables = r.tables /\ (k - 1 >= p => ~ c[k - 1].ok)
    BY <1>4
  <2>2. c[k] = IF c[k - 1].ok THEN AddRelation(b, e) ELSE c[k - 1]
    BY <1>1, <1>2 DEF LoopRounds, LoopBody
  <2>3. RegistryOk(c[k].it)
    BY <2>1, <2>2, AddRelationKeeps
  <2>4. AddRelation(b, e).it.tables = b.tables
    <3>1. CASE b.frozen \/ {e.from, e.to} \ DOMAIN b.tables # {}
      BY <3>1 DEF AddRelation, Fails
    <3>2. CASE ~ (b.frozen \/ {e.from, e.to} \ DOMAIN b.tables # {})
      <4>1. AddRelation(b, e).it = [b EXCEPT !.graph = AddEdge(b.graph, e).it]
        BY <3>2 DEF AddRelation
      <4>2. SoundGraph(AddEdge(b.graph, e).it)
        BY <2>1, AddEdgeKeeps DEF RegistryOk
      <4> QED
        BY <2>1, <4>1, <4>2, WithGraph
    <3> QED
      BY <3>1, <3>2
  <2>5. c[k].it.tables = r.tables
    BY <2>1, <2>2, <2>4
  <2>6. ASSUME k >= p PROVE ~ c[k].ok
    <3>1. CASE k = p
      <4>1. {e.from, e.to} \ DOMAIN b.tables # {}
        BY <2>1, <3>1
      <4>2. ~ AddRelation(b, e).ok
        BY <4>1 DEF AddRelation, Fails
      <4> QED
        BY <2>2, <4>2
    <3>2. CASE k # p
      <4>1. k - 1 >= p
        BY <1>2, <2>6, <3>2
      <4> QED
        BY <2>1, <2>2, <4>1
    <3> QED
      BY <3>1, <3>2
  <2>7. k \in 0 .. n
    OBVIOUS
  <2> QED
    BY <2>3, <2>5, <2>6, <2>7
<1> HIDE DEF G
<1>5. \A k \in 0 .. n : k \in G
  BY <1>3, <1>4, UpTo
<1>6. n \in G /\ n >= p
  BY <1>2, <1>5
<1> QED
  BY <1>1, <1>2, <1>6 DEF G

\* What load_from_manifest makes of a manifest in a registry of a new process.
LEMMA ManifestLoads ==
  ASSUME NEW m, ManifestOk(m)
  PROVE  LET listed == {m.tables[i].name : i \in DOMAIN m.tables}
             loaded == LoadFromManifest(NewRegistry, m)
             whole == \A i \in DOMAIN m.relations :
                        {m.relations[i].from, m.relations[i].to} \subseteq listed
         IN  /\ loaded.ok <=> whole
             /\ whole => /\ DOMAIN loaded.it.tables = listed
                         /\ \A i \in DOMAIN m.tables :
                              loaded.it.tables[m.tables[i].name] = m.tables[i].spec
                         /\ loaded.it.graph.edges = m.relations /\ loaded.it.mods = m.mods
<1> DEFINE listed == {m.tables[i].name : i \in DOMAIN m.tables}
           loaded == LoadFromManifest(NewRegistry, m)
           whole == \A i \in DOMAIN m.relations :
                      {m.relations[i].from, m.relations[i].to} \subseteq listed
           start == [NewRegistry EXCEPT !.migrated = {m}, !.mods = m.mods]
           tabled == RegisterEach(start, m.tables)
           related == IF tabled.ok THEN Each(AddRelation, tabled.it, m.relations) ELSE tabled
<1>1. ~ NewRegistry.frozen /\ NewRegistry.tables = <<>> /\ NewRegistry.graph.edges = <<>>
  BY DEF NewRegistry, EmptyGraph
<1>2. /\ RegistryOk(start) /\ start.tables = NewRegistry.tables
      /\ start.graph = NewRegistry.graph /\ start.frozen = NewRegistry.frozen
      /\ start.mods = m.mods
  BY NewRegistryOk, LoadingStarts
<1>3. loaded = IF related.ok /\ DetectCycles(related.it.graph, AnyOrder(related.it.graph)) # <<>>
                 THEN Fails(related.it) ELSE related
  BY <1>1 DEF LoadFromManifest
<1> HIDE DEF start
<1>4. /\ tabled.ok /\ RegistryOk(tabled.it)
      /\ tabled.it.graph = start.graph /\ tabled.it.mods = start.mods /\ ~ tabled.it.frozen
      /\ DOMAIN tabled.it.tables = listed
      /\ \A i \in DOMAIN m.tables : tabled.it.tables[m.tables[i].name] = m.tables[i].spec
  <2>1. DOMAIN start.tables = {} /\ ~ start.frozen
    BY <1>1, <1>2
  <2> QED
    BY <1>2, <2>1, TablesLoad DEF ManifestOk
<1> HIDE DEF tabled, listed
<1>5. related = Each(AddRelation, tabled.it, m.relations)
  BY <1>4
<1>6. IsSeq(m.relations) /\ Distinct(m.relations) /\ ~ Cyclic(m.relations)
  BY DEF ManifestOk
<1> HIDE DEF related, loaded
<1>7. CASE ~ whole
  <2>1. PICK p \in DOMAIN m.relations :
          ~ ({m.relations[p].from, m.relations[p].to} \subseteq DOMAIN tabled.it.tables)
    BY <1>4, <1>7
  <2>2. ~ related.ok
    BY <1>4, <1>5, <1>6, <2>1, RelationsRefused
  <2>3. ~ loaded.ok
    BY <1>3, <2>2
  <2> QED
    BY <1>7, <2>3 DEF listed, loaded
<1>8. CASE whole
  <2>1. \A i \in DOMAIN m.relations :
          {m.relations[i].from, m.relations[i].to} \subseteq DOMAIN tabled.it.tables
    BY <1>4, <1>8
  <2>2. tabled.it.graph.edges = <<>>
    BY <1>1, <1>2, <1>4
  <2>3. /\ related.ok /\ RegistryOk(related.it)
        /\ related.it.tables = tabled.it.tables /\ related.it.mods = tabled.it.mods
        /\ related.it.graph.edges = m.relations
    BY <1>4, <1>5, <1>6, <2>1, <2>2, RelationsLoad
  <2>4. DetectCycles(related.it.graph, AnyOrder(related.it.graph)) = <<>>
    BY <2>3, NoFalseCycleAnyOrder DEF RegistryOk, SoundGraph
  <2>5. loaded = related
    BY <1>3, <2>4
  <2>6. loaded.ok /\ DOMAIN loaded.it.tables = listed
        /\ loaded.it.graph.edges = m.relations /\ loaded.it.mods = m.mods
    BY <1>2, <1>4, <2>3, <2>5
  <2>7. \A i \in DOMAIN m.tables : loaded.it.tables[m.tables[i].name] = m.tables[i].spec
    BY <1>4, <2>3, <2>5
  <2> QED
    BY <1>8, <2>6, <2>7 DEF listed, loaded
<1> QED
  BY <1>7, <1>8

\* ManifestReloads (schema/src/registry.rs: export_manifest, load_from_manifest):
\* what was exported loads into a registry of a new process and gives the same
\* tables, relations and mods, unless a relation has lost one of its tables.
THEOREM ManifestsReload == ServicesSpec => []ManifestReloads
<1>1. SchemaInv => ManifestReloads
  <2> SUFFICES ASSUME SchemaInv, NEW m \in saved
               PROVE  LET listed == {m.tables[i].name : i \in DOMAIN m.tables}
                          loaded == LoadFromManifest(NewRegistry, m)
                          whole == \A i \in DOMAIN m.relations :
                                     {m.relations[i].from, m.relations[i].to} \subseteq listed
                      IN  /\ loaded.ok <=> whole
                          /\ whole => /\ DOMAIN loaded.it.tables = listed
                                      /\ \A i \in DOMAIN m.tables :
                                           loaded.it.tables[m.tables[i].name] = m.tables[i].spec
                                      /\ loaded.it.graph.edges = m.relations
                                      /\ loaded.it.mods = m.mods
    BY Zenon DEF ManifestReloads
  <2>1. ManifestOk(m)
    BY DEF SchemaInv
  <2> QED
    BY <2>1, ManifestLoads, Zenon
<1> QED
  BY <1>1, SchemaInvInit, SchemaInvNext, PTL DEF ServicesSpec

=============================================================================
