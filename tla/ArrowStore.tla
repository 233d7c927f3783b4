----------------------------- MODULE ArrowStore -----------------------------
(***************************************************************************)
(* The ArrowStore as a whole (scharnhorst_arrow_store/src/store.rs,        *)
(* store_guard.rs, index.rs, partition.rs, snapshot.rs): the catalogue of  *)
(* tables and their ids, the two phases of its life, what may be done in   *)
(* each, the indices, the partitions, the snapshots and the checkpoint     *)
(* directories.  ArrowTable has the rows of one table and the diffs.       *)
(*                                                                         *)
(* Every method that changes the store holds the read lock of the          *)
(* lifecycle for as long as it runs, so the switch to Simulation happens   *)
(* between methods.  A checkpoint is written from an Arc of a snapshot     *)
(* without any lock, one file per table: other calls, and a crash, come in *)
(* between.                                                                *)
(***************************************************************************)
EXTENDS ArrowTable, ArrowArrays, SequencesExt

CONSTANTS
  Name,        \* table names
  Region,      \* region ids of partitions
  BatchInput,  \* what the callers append or rebuild with: a set of sequences of batches
  DiffLists,   \* what the journal applies: a set of sequences of diffs
  CustomTypes, \* what register_type may be called with: a set of [name, arrow]
  Modes,       \* what set_mutation_mode may be called with
  MaxTables, MaxData, MaxChores, MaxSnapshots, MaxWrites, MaxRestarts   \* bounds

\* RowIds are u64 and number the rows of a rebuilt table.
ASSUME StoreAssumption ==
  /\ RowId \subseteq Nat
  /\ BatchInput \subseteq Batches
  /\ DiffLists \subseteq Seq(DiffsOn(Name))

VARIABLES
  tables,      \* name |-> table, for the tables that exist
  ids,         \* table_id_map: id |-> name
  nextId,      \* next_table_id
  snapshots,   \* tick |-> [tables, parts]
  generated,   \* generation
  types,       \* type_registry
  phase,       \* "Initialization", "Simulation"
  disk,        \* checkpoint_<tick> directories: tick |-> (name |-> file)
  writing,     \* the checkpoint being written, {} or {[tick, todo, open, view]}
  complete,    \* history: what the last finished write of a checkpoint put there
  lastLoad,    \* history: the last load_checkpoint, {} or {[tick, view]}
  restored,    \* history: tables that load_checkpoint created
  data, chores, writes, restarts   \* counters for the bounds

memory == <<tables, ids, nextId, snapshots, generated, types, phase, restored>>
files == <<disk, writing, complete, lastLoad>>
counters == <<data, chores, writes, restarts>>
storeVars == <<memory, files, counters>>

Extend(f, x, y) == [z \in DOMAIN f \cup {x} |-> IF z = x THEN y ELSE f[z]]
Omit(f, S) == [z \in DOMAIN f \ S |-> f[z]]

Keys == RowId \cup Cell
EmptyIndex == [latest |-> [k \in Keys |-> NoEntry], history |-> [k \in Keys |-> {}]]

\* pkHistory is the cold layer of the primary-key index; data.pkLatest the hot one.
NewTable(mode, spec) ==
  [rows |-> EmptyTable, mode |-> mode, spec |-> spec,
   pkHistory |-> [r \in RowId |-> {}], fks |-> <<>>, parts |-> <<>>]

Fresh ==
  /\ tables = <<>> /\ ids = <<>> /\ nextId = 0 /\ snapshots = <<>> /\ generated = 0
  /\ types = BuiltinTypes /\ phase = "Initialization" /\ restored = {}

StoreInit ==
  /\ Fresh
  /\ disk = <<>> /\ writing = {} /\ complete = <<>> /\ lastLoad = {}
  /\ data = 0 /\ chores = 0 /\ writes = 0 /\ restarts = 0

Initializing == phase = "Initialization"
Simulating == phase = "Simulation"

Data == data < MaxData /\ data' = data + 1 /\ UNCHANGED <<chores, writes, restarts>>
Chore == chores < MaxChores /\ chores' = chores + 1 /\ UNCHANGED <<data, writes, restarts>>

-----------------------------------------------------------------------------
(* Initialization.                                                         *)

RegisterType(name, arrow) ==
  /\ Initializing /\ Chore
  /\ types' = Registered(types, name, arrow)
  /\ UNCHANGED <<tables, ids, nextId, snapshots, generated, phase, restored, files>>

CreateTable(n, mode) ==
  /\ Initializing /\ n \notin DOMAIN tables /\ nextId < MaxTables
  /\ tables' = Extend(tables, n, NewTable(mode, "declared"))
  /\ ids' = Extend(ids, nextId, n) /\ nextId' = nextId + 1
  /\ UNCHANGED <<snapshots, generated, types, phase, restored, files, counters>>

\* Mutant: the id of the table outlives it.
DropTableKeepsId(n) ==
  /\ Initializing /\ n \in DOMAIN tables /\ Chore
  /\ tables' = Omit(tables, {n}) /\ restored' = restored \ {n}
  /\ UNCHANGED <<ids, nextId, snapshots, generated, types, phase, files>>

DropTable(n) ==
  /\ Initializing /\ n \in DOMAIN tables /\ Chore
  /\ ids' = Omit(ids, {i \in DOMAIN ids : ids[i] = n})
  /\ tables' = Omit(tables, {n}) /\ restored' = restored \ {n}
  /\ UNCHANGED <<nextId, snapshots, generated, types, phase, files>>

\* What a method does to the table it has the write lock of.
OnTable(n, table) ==
  /\ tables' = [tables EXCEPT ![n] = table]
  /\ UNCHANGED <<ids, nextId, snapshots, generated, types, phase, restored, files>>

SetMutationMode(n, mode) ==
  /\ Initializing /\ n \in DOMAIN tables /\ Chore
  /\ OnTable(n, [tables[n] EXCEPT !.mode = mode])

\* append_batches leaves the position map alone.
AppendBatches(n, tick, batches) ==
  /\ Initializing /\ n \in DOMAIN tables /\ Data
  /\ OnTable(n, [tables[n] EXCEPT !.rows.versions[tick] = @ \o batches])

\* rebuild_table numbers the rows from zero, across its batches.
RowsBefore(batches, b) == Len(FlattenSeq(SubSeq(batches, 1, b - 1)))

RebuiltPositions(batches) ==
  [r \in RowId |->
     LET here == {b \in DOMAIN batches : /\ RowsBefore(batches, b) <= r
                                         /\ r < RowsBefore(batches, b) + Len(batches[b])}
     IN  IF here = {} THEN NoPosition
         ELSE LET b == CHOOSE b \in here : TRUE
              IN  [batch |-> b, offset |-> r - RowsBefore(batches, b) + 1]]

RebuildTable(n, tick, batches) ==
  /\ Initializing /\ n \in DOMAIN tables /\ Data
  /\ OnTable(n, [tables[n] EXCEPT !.rows.versions[tick] = batches,
                                  !.rows.positions = RebuiltPositions(batches)])

\* PrimaryKeyIndex::insert and ForeignKeyIndex::insert, both layers.
\* Mutant: whatever comes last is the latest.
IndexedLast(index, key, entry) ==
  [latest  |-> [index.latest EXCEPT ![key] = entry],
   history |-> [index.history EXCEPT ![key] = @ \cup {entry}]]

Indexed(index, key, entry) ==
  [latest  |-> IndexInsert(index.latest, key, entry),
   history |-> [index.history EXCEPT ![key] = @ \cup {entry}]]

\* The entries of one tick in the order of its batches, and an index built
\* from the ticks in the order in which the HashMap happens to yield them.
EntriesOf(versions, tick, column) ==
  FlattenSeq([b \in DOMAIN versions[tick] |->
    [o \in DOMAIN versions[tick][b] |->
       [key |-> versions[tick][b][o][column],
        entry |-> [tick |-> tick, batch |-> b, offset |-> o]]]])

BuiltIndex(versions, order, column) ==
  FoldLeft(LAMBDA index, e : Indexed(index, e.key, e.entry), EmptyIndex,
           FlattenSeq([i \in DOMAIN order |-> EntriesOf(versions, order[i], column)]))

\* A table that came out of a checkpoint has no primary-key column.
BuildPrimaryKeyIndex(n) ==
  /\ Initializing /\ n \in DOMAIN tables /\ tables[n].spec = "declared" /\ Chore
  /\ \E order \in SetToSeqs(Ticks) :
       LET index == BuiltIndex(tables[n].rows.versions, order, "id")
       IN  OnTable(n, [tables[n] EXCEPT !.rows.pkLatest = [r \in RowId |-> index.latest[r]],
                                        !.pkHistory = [r \in RowId |-> index.history[r]]])

BuildForeignKeyIndex(n) ==
  /\ Initializing /\ n \in DOMAIN tables /\ Chore
  /\ \E order \in SetToSeqs(Ticks) :
       OnTable(n, [tables[n] EXCEPT !.fks =
         Append(@, BuiltIndex(tables[n].rows.versions, order, "val"))])

\* partition_map_mut with get_or_create(region).add_batch(batch), and remove.
AddToPartition(n, region, batch) ==
  /\ Initializing /\ n \in DOMAIN tables /\ Chore
  /\ OnTable(n, [tables[n] EXCEPT !.parts =
       Extend(@, region, Append(IF region \in DOMAIN @ THEN @[region] ELSE <<>>, batch))])

RemovePartition(n, region) ==
  /\ Initializing /\ n \in DOMAIN tables /\ region \in DOMAIN tables[n].parts
  /\ OnTable(n, [tables[n] EXCEPT !.parts = Omit(@, {region})])
  /\ UNCHANGED counters

IntoSimulation ==
  /\ Initializing /\ phase' = "Simulation"
  /\ UNCHANGED <<tables, ids, nextId, snapshots, generated, types, restored, files, counters>>

-----------------------------------------------------------------------------
(* Simulation.                                                             *)

\* resolve_table_schema: every storage type of the spec must be registered.
\* load_checkpoint writes Arrow type names into the specs it makes up.
StorageTypes(spec) == IF spec = "declared" THEN {"u64", "i64"} ELSE {"UInt64", "Int64"}
SchemaResolves(spec) == \A name \in StorageTypes(spec) : ResolveDataType(types, name) # {}

\* A table without a primary-key column numbers replaced rows by position and
\* has no primary-key index to maintain; an id that is missing or no u64 is a
\* cell that does not convert, like any other.
ApplyKeyless(rows, tick, d) ==
  IF d.kind # "ReplaceTable"
    THEN [ApplyDiff(rows, tick, d) EXCEPT !.table.pkLatest = rows.pkLatest]
  ELSE IF d.rows = <<>> THEN Failed(rows)
  ELSE LET fault == {i \in DOMAIN d.rows : Bad \in {d.rows[i].id, d.rows[i].val}}
           filled == [rows EXCEPT !.positions =
             [r \in RowId |-> IF r + 1 \in DOMAIN d.rows /\ \A i \in fault : r + 1 <= i
                                THEN [batch |-> r + 1, offset |-> 1] ELSE NoPosition]]
       IN  IF fault # {} THEN Failed(filled)
           ELSE Done([filled EXCEPT !.versions[tick] = [i \in DOMAIN d.rows |-> <<d.rows[i]>>]])

ApplyTo(table, tick, d) ==
  IF d.kind \in {"Insert", "ReplaceTable"} /\ ~SchemaResolves(table.spec) THEN Failed(table.rows)
  ELSE IF table.spec = "declared" THEN ApplyDiff(table.rows, tick, d)
  ELSE ApplyKeyless(table.rows, tick, d)

\* apply_insert_to_table ends with PrimaryKeyIndex::insert: the cold layer
\* gets the entry of the new row whether or not the hot layer takes it.
Logged(table, tick, d, outcome) ==
  IF outcome.ok /\ d.kind = "Insert" /\ table.spec = "declared"
    THEN [table.pkHistory EXCEPT ![d.row] = @ \cup
            {[tick |-> tick, batch |-> Len(outcome.table.versions[tick]), offset |-> 1]}]
    ELSE table.pkHistory

WithOutcome(table, tick, d, outcome) ==
  [table EXCEPT !.rows = outcome.table, !.pkHistory = Logged(table, tick, d, outcome)]

\* One diff: nothing is applied after a failure, and an unknown table is one.
ApplyNext(done, tick, d) ==
  IF ~done.ok THEN done
  ELSE IF d.table \notin DOMAIN done.tables THEN [done EXCEPT !.ok = FALSE]
  ELSE LET outcome == ApplyTo(done.tables[d.table], tick, d)
       IN  [ok |-> outcome.ok,
            tables |-> [done.tables EXCEPT ![d.table] = WithOutcome(@, tick, d, outcome)]]

Applied(tick, diffs) ==
  FoldLeft(LAMBDA done, d : ApplyNext(done, tick, d), [ok |-> TRUE, tables |-> tables], diffs)

\* A failing diff takes the batches of the touched tables back, and only those.
ApplyDiffs(tick, diffs) ==
  /\ Simulating /\ Data
  /\ LET done == Applied(tick, diffs)
         touched == {diffs[i].table : i \in DOMAIN diffs}
     IN  tables' = IF done.ok THEN done.tables
                   ELSE [n \in DOMAIN tables |->
                           IF n \in touched
                             THEN [done.tables[n] EXCEPT !.rows.versions = tables[n].rows.versions]
                             ELSE done.tables[n]]
  /\ UNCHANGED <<ids, nextId, snapshots, generated, types, phase, restored, files>>

\* patch_rows with one location: out of range is passed over.
PatchRows(n, tick, location, cell) ==
  /\ Simulating /\ n \in DOMAIN tables /\ tables[n].rows.versions[tick] # <<>> /\ Data
  /\ LET batches == tables[n].rows.versions[tick] IN
       /\ location.batch \in DOMAIN batches
       /\ location.offset \in DOMAIN batches[location.batch]
       /\ OnTable(n, [tables[n] EXCEPT
            !.rows.versions[tick][location.batch][location.offset].val = cell])

\* do_generate_snapshot clones every table and every partition.
Snapshot(tbls) == [tables |-> [n \in DOMAIN tbls |-> tbls[n].rows.versions],
                   parts  |-> [n \in DOMAIN tbls |-> tbls[n].parts]]

GenerateSnapshot(tick) ==
  /\ Simulating /\ generated < MaxSnapshots
  /\ generated' = generated + 1 /\ snapshots' = Extend(snapshots, tick, Snapshot(tables))
  /\ UNCHANGED <<tables, ids, nextId, types, phase, restored, files, counters>>

TruncateBefore(tick) ==
  /\ Simulating /\ Chore
  /\ snapshots' = Omit(snapshots, {t \in DOMAIN snapshots : t < tick})
  /\ tables' = [n \in DOMAIN tables |->
       [tables[n] EXCEPT !.rows.versions = [t \in Ticks |-> IF t < tick THEN <<>> ELSE @[t]]]]
  /\ UNCHANGED <<ids, nextId, generated, types, phase, restored, files>>

-----------------------------------------------------------------------------
(* Checkpoint directories.  A file that is being written is torn.          *)

Torn == [whole |-> FALSE, batches |-> <<>>]
Whole(batches) == [whole |-> TRUE, batches |-> batches]

\* What a reader is shown of a snapshot: WorldSnapshot::table_batches.
View(snapshot, tick) == [n \in DOMAIN snapshot.tables |-> snapshot.tables[n][tick]]
NonEmpty(view) == {n \in DOMAIN view : view[n] # <<>>}

\* The snapshot of the tick, or of the latest tick there is.
SnapshotFor(tick) ==
  IF tick \in DOMAIN snapshots THEN tick
  ELSE CHOOSE t \in DOMAIN snapshots : \A u \in DOMAIN snapshots : u <= t

\* write_checkpoint is open to both phases through their own handles.  The
\* directory may be there already, with files of an earlier write in it.
BeginWrite(tick) ==
  /\ writing = {} /\ snapshots # <<>> /\ writes < MaxWrites
  /\ LET at == SnapshotFor(tick) view == View(snapshots[at], at)
     IN  writing' = {[tick |-> tick, todo |-> NonEmpty(view), view |-> view]}
  /\ disk' = IF tick \in DOMAIN disk THEN disk ELSE Extend(disk, tick, <<>>)
  /\ complete' = Omit(complete, {tick}) /\ lastLoad' = {}
  /\ writes' = writes + 1
  /\ UNCHANGED <<memory, data, chores, restarts>>

CreateFile(n) ==
  /\ \E w \in writing : /\ n \in w.todo
                        /\ n \in DOMAIN disk[w.tick] => disk[w.tick][n] # Torn
                        /\ disk' = [disk EXCEPT ![w.tick] = Extend(@, n, Torn)]
  /\ UNCHANGED <<memory, writing, complete, lastLoad, counters>>

FinishFile(n) ==
  /\ \E w \in writing :
       /\ n \in w.todo /\ n \in DOMAIN disk[w.tick] /\ disk[w.tick][n] = Torn
       /\ disk' = [disk EXCEPT ![w.tick][n] = Whole(w.view[n])]
       /\ writing' = {[w EXCEPT !.todo = @ \ {n}]}
  /\ UNCHANGED <<memory, complete, lastLoad, counters>>

EndWrite ==
  /\ \E w \in writing :
       /\ w.todo = {}
       /\ complete' = Extend(complete, w.tick, [n \in NonEmpty(w.view) |-> w.view[n]])
  /\ writing' = {} /\ lastLoad' = {}
  /\ UNCHANGED <<memory, disk, counters>>

\* Mutant: the loaded batches are added to the ones that are there.
LoadedVersionsAdded(rows, tick, batches) == [rows EXCEPT !.versions[tick] = @ \o batches]

LoadedVersions(rows, tick, batches) == [rows EXCEPT !.versions[tick] = batches]

\* load_checkpoint reads every file before it touches the store.  A table that
\* was not there gets an id, the mode AppendOnly and a spec made up from the
\* batches; the positions and indices of the tables stay as they are.
LoadCheckpoint(tick) ==
  /\ Initializing /\ tick \in DOMAIN disk /\ disk[tick] # <<>>
  /\ \A n \in DOMAIN disk[tick] : disk[tick][n].whole
  /\ LET names == DOMAIN disk[tick]
         new == names \ DOMAIN tables
         Table(n) == IF n \in new THEN NewTable("AppendOnly", "arrow") ELSE tables[n]
     IN  /\ nextId + Cardinality(new) <= MaxTables
         /\ \E order \in SetToSeqs(new) :
              ids' = [i \in DOMAIN ids \cup (nextId .. nextId + Len(order) - 1) |->
                        IF i < nextId THEN ids[i] ELSE order[i - nextId + 1]]
         /\ nextId' = nextId + Cardinality(new)
         /\ tables' = [n \in DOMAIN tables \cup names |->
              IF n \notin names THEN tables[n]
              ELSE [Table(n) EXCEPT !.rows = LoadedVersions(@, tick, disk[tick][n].batches)]]
         /\ restored' = restored \cup new
  /\ generated < MaxSnapshots /\ generated' = generated + 1
  /\ snapshots' = Extend(snapshots, tick, Snapshot(tables'))
  /\ lastLoad' = {[tick |-> tick, view |-> View(snapshots'[tick], tick)]}
  /\ UNCHANGED <<types, phase, disk, writing, complete, counters>>

\* The process ends, or crashes, and a new one starts with an empty store.
Restart ==
  /\ restarts < MaxRestarts /\ restarts' = restarts + 1
  /\ tables' = <<>> /\ ids' = <<>> /\ nextId' = 0 /\ snapshots' = <<>> /\ generated' = 0
  /\ types' = BuiltinTypes /\ phase' = "Initialization" /\ restored' = {}
  /\ writing' = {} /\ lastLoad' = {}
  /\ UNCHANGED <<disk, complete, data, chores, writes>>

-----------------------------------------------------------------------------
InitStep ==
  \/ \E type \in CustomTypes : RegisterType(type.name, type.arrow)
  \/ \E n \in Name :
       \/ \E mode \in Modes : SetMutationMode(n, mode)
       \/ CreateTable(n, "Patchable") \/ DropTable(n)
       \/ BuildPrimaryKeyIndex(n) \/ BuildForeignKeyIndex(n)
       \/ \E tick \in Ticks, batches \in BatchInput :
            AppendBatches(n, tick, batches) \/ RebuildTable(n, tick, batches)
       \/ \E region \in Region :
            \/ RemovePartition(n, region)
            \/ \E batches \in BatchInput : AddToPartition(n, region, batches[1])
  \/ IntoSimulation

CommitStep ==
  \E tick \in Ticks :
    \/ GenerateSnapshot(tick) \/ TruncateBefore(tick)
    \/ \E diffs \in DiffLists : ApplyDiffs(tick, diffs)
    \/ \E n \in Name, cell \in Cell, b \in {1, 2} :
         PatchRows(n, tick, [batch |-> b, offset |-> 1], cell)

DiskStep ==
  \/ \E tick \in Ticks : BeginWrite(tick) \/ LoadCheckpoint(tick)
  \/ \E n \in Name : CreateFile(n) \/ FinishFile(n)
  \/ EndWrite \/ Restart

StoreNext == InitStep \/ CommitStep \/ DiskStep

StoreSpec == StoreInit /\ [][StoreNext]_storeVars

-----------------------------------------------------------------------------
\* The catalogue: every table has exactly one id, every id in table_id_map
\* names a table that exists, and no id is given twice, whichever of
\* create_table, drop_table and load_checkpoint came in which order.
CatalogConsistent ==
  /\ \A i \in DOMAIN ids : i < nextId /\ ids[i] \in DOMAIN tables
  /\ \A n \in DOMAIN tables : Cardinality({i \in DOMAIN ids : ids[i] = n}) = 1

\* The documented invariants of the two index layers (index.rs:14-20): the
\* same keys in both, and the hot entry of a key is of its newest tick,
\* although the ticks are visited in no particular order when it is built.
LayersAgree(latest, history) ==
  \A k \in DOMAIN latest :
    /\ (latest[k] = NoEntry) <=> (history[k] = {})
    /\ latest[k] # NoEntry => /\ latest[k] \in history[k]
                              /\ \A e \in history[k] : e.tick <= latest[k].tick

IndexLayersAgree ==
  \A n \in DOMAIN tables :
    /\ LayersAgree(tables[n].rows.pkLatest, tables[n].pkHistory)
    /\ \A i \in DOMAIN tables[n].fks :
         LayersAgree(tables[n].fks[i].latest, tables[n].fks[i].history)

\* After load_checkpoint the readers are shown, of every table that the last
\* complete write of that checkpoint had rows for, the rows it had then,
\* after a restart and into a store that holds other data as well.
CheckpointRestores ==
  \A load \in lastLoad :
    load.tick \in DOMAIN complete =>
      \A n \in DOMAIN complete[load.tick] :
        n \in DOMAIN load.view /\ load.view[n] = complete[load.tick][n]

\* spec.md of arrow-store says that a table which load_checkpoint created is
\* indistinguishable from one that create_table made: so rows can be inserted
\* into it, as into the table it is a copy of.
LoadedLikeCreated ==
  \A n \in restored : SchemaResolves(tables[n].spec)
=============================================================================
