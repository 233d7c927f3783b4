# Scharnhorst: TLA+ specifications

Scharnhorst is a deterministic grand-strategy simulation engine in Rust. World
state lives in versioned Arrow tables; simulation systems propose diffs; once
per tick a journal applies them, publishes the result to readers and records it
for saving. This directory specifies the engine: the commit cycle and what
concurrent readers see of it, the scheduler that drives it, the store under it,
saving and loading with crashes, the bridge to the user interface, the rule
engine, and the schema, content and debug services around them.

## The system

| Component | State | Operations | Interacts with | Hard behaviours | What makes it correct |
|---|---|---|---|---|---|
| Journal (`scharnhorst_journal`) | open tick, pending diffs and commands, phase, bounded history | submit_command, submit_diff, clear_pending, commit | store, query engine, save journal (calls) | six places where a commit can fail, each after different side effects | a commit happens completely or not at all; the journal always returns to Open |
| Arrow store (`scharnhorst_arrow_store`) | per table: batches by tick, position map, key index; snapshots by tick; lifecycle guard | apply_diffs, save/restore_table_versions, generate_snapshot, rebuild, patch, truncate, checkpoints | called by the journal; read through snapshots | rollback of a half-applied batch of diffs; positions across ticks | after a failure, the state of the last commit; positions lead to their rows |
| Query engine (`scharnhorst_query`) | view cache, latest snapshot, latest tick, pending ingest | begin/ingest/store snapshot, rollback, read, lookup_row, clear_cache | written by the journal, read by every thread | three values published in three steps; readers load two of them in two steps | a response is of one commit, committed, and of the tick asked for |
| Save journal and checkpoints (`scharnhorst_save`) | records, entries since the last checkpoint, snapshot files, journal file | append, auto-checkpoint, write_checkpoint_snapshot, retention, truncation | called by commit | append fails after it has pushed; crashes between file operations | every committed tick can be recovered |
| Scheduler (`scharnhorst_scheduler`) | systems, command queue, tick, generation, refresh bus | register/unregister, initialize, enqueue_command, tick | journal (mutex), query engine, consumers (callbacks) | commands enqueued while a tick runs; failed ticks retried; consumers that fail after the commit | each command takes effect once, in order; each tick is one pass over the systems |
| Load (`load_reconstruction.rs`, `lifecycle.rs`) | current phase, completed phases, manifest, mods, tables, tiers | six phases, skip_to_phase, replay_diffs | persistence, schema, store | every phase moves the lifecycle before it works; a load is tried again on a store with tables | the simulation starts only on a complete world that the mods on disk match |
| Bridge (`scharnhorst_bevy`) | input buffer with its own tick, view model and its generation, dirty marks, entity registry | push, prepare_for_tick, drain, refresh, sync, materialize | scheduler queue, refresh bus, query engine | stamps that are stale when drained; refresh against sync; two systems on one registry | commands are handed over once, the view is that of the last commit, entities and registry agree |
| Schema registry (`scharnhorst_schema`) | table specs, relation graph with adjacency lists, mods, frozen flag | register, remove, relate, freeze, export, load, migrate | loader, then owned by the query engine | removals and reloads between additions | the graph is acyclic and its indexes true; an exported manifest loads |
| Content loader (`scharnhorst_content`) | name resolvers with a shared counter, overlays, tiers | resolve, overlay, fingerprint, compile | schema registry, store | a counter copied into resolvers; order of mods | ids stay with their names; the result depends on priorities alone |
| Rule engine (`scharnhorst_rules`), fixed point (`scharnhorst_core`) | scope stack, variables, modifiers, prefetch cache | jump, evaluate, aggregate, prefetch, submit effects | query engine, journal, refresh signal | cache across a refresh; errors half-way through a jump; arithmetic edges | values of the current tick; no silent overflow |
| Debug SQL, inspector | debug journals, ring of diff summaries, SQL tables | execute_sql, execute_sql_write, pages, summaries | journal (submits diffs) | recording before submission; rings at their limit | the trail holds the newest operations; a statement means what it says or is refused |
| Telemetry, RNG | counters; none | | | | |

`PROJECT.json` lists every component with its status, every hazard at its line
and the properties aimed at it, and the source lines behind every definition.

## Modules

| Module | Contents |
|---|---|
| `ArrowTable` | one `VersionedTable` and the effect of the four kinds of diff on it, as operators |
| `AtomicJournal` | abstract specification: a commit is one step, or no step |
| `Journal` | extends `ArrowTable`; the commit cycle with the store, the query engine's staged ingest and the save journal; refines `AtomicJournal` |
| `QueryReaders` | extends `Journal` with threads that read the query engine meanwhile |
| `Scheduler` | tick(), the command queue, phases and the refresh bus, over a journal whose commit is atomic as `AtomicJournal` promises |
| `SaveSystem` | snapshot files, retention, the journal file and the save journal, one step per file operation, with crashes and I/O errors |
| `LoadReconstruction` | the six phases, mod tolerance, migration pipeline, relation check, tiers |
| `SaveLoad` | extends both: play, crash, load, play on |
| `InputBuffer` | the command buffer between frames and ticks |
| `BevyBridge` | extends `InputBuffer`: simulation thread, frame and concurrent systems on view model, dirty marks and entity registry |
| `FixedPoint`, `RuleExpr` | checked decimal arithmetic at a given width; modifiers and the expression evaluator |
| `RuleEngine` | scope, variables, modifiers, effects and the prefetch cache as a state machine, for any evaluation of expressions |
| `RuleSemantics` | extends `RuleEngine` and `RuleExpr`: the engine with its expressions, and the laws of both |
| `ArrowArrays` | storage types, JSON conversion and the patching of arrays |
| `ArrowStore` | extends `ArrowTable` and `ArrowArrays`: tables, indexes, partitions, snapshots, checkpoints, lifecycle |
| `QueryViews` | position maps, cursors, slices, read sources, inspector pages, as operators |
| `RelationReach` | the worklist search over relations that the registry and the load share |
| `SchemaRegistry`, `ContentLoader`, `DebugSql` | the operators of those components, with their reference definitions |
| `SchemaMigrations`, `ModOverlays`, `SqlText` | migration paths, overlays of mods and SQL as text: recursive operators without state |
| `EngineServices` | extends the registry, the loader and the debug SQL: a registry from loading to the engine that owns it, names, debug journals, SQL tables |
| `ArrowTableProofs`, `JournalProofs`, `SchedulerProofs`, `SaveLoadProofs`, `BridgeProofs`, `RulesProofs`, `EngineProofs` | theorems; `JournalProofs` is about `Journal` and `QueryReaders`, `EngineProofs` about `ArrowStore` and `EngineServices` |
| `WellOrder` | lemmas the proofs share: a set of naturals has a least member, a bounded one a greatest, an injection between finite sets of one size is onto, a search reaches what a closed set must hold |
| `MC...` | constants for TLC |

### ArrowTable

A table has a key column and one nullable data column; a batch is a sequence of
rows; `versions`, `positions` and `pkLatest` are the fields of `VersionedTable`
that diffs change. Each `Apply...` operator returns whether the code returns Ok
and the table it leaves, because a failing `ReplaceTable` has already emptied the
position map. A JSON value that does not convert to its column's type is the
model value `Bad`. Left out: updates of the key column, tables without a key or
without a spec, the cold layer of the key index, foreign keys and partitions.
Values are only compared, so which of them a conversion yields does not matter.

### Journal

`pc` says which step of `commit()` is next; "idle" is phase Open, everything
else is Committing. The locals of `commit()` are variables (`txn`, `nextDiff`,
`saved`, `undo`). An error path is one action when nothing can look in between
(restore, give back the queues, reopen: `Reopen`) and several when something can
(`RollbackCache`, `RollbackSnapshot`, `RollbackTick`, `RestoreStore`). Tables of
a snapshot are ingested in any order, as the code iterates a `HashMap`. Tables
may lack a schema in the query engine, which fails the ingest (`UnknownSchema`),
and be registered later. `AppendFails` is the auto-checkpoint's I/O error, which
can only happen once the threshold is reached. `generation` counts the snapshots
the store has generated, failed commits included.

Not modelled: poisoned locks; the state hash; a journal without a query engine
or save journal; the debug-build diff summaries.

### QueryReaders

A read is three steps: choose a tick (`StartRead`, or `StartLookup` for the
latest), load `latest_tick`, lock the cache and answer. The commit's own steps
interleave freely, an append that fails after publication included. A response
holds all tables, as `read` does for its list. Two history variables name the
readers that such a rollback deceives: `lostTick` those that had loaded the tick it
takes back, `lostViews` those that hold its views; `LoseReads` adds to them at the
rollback's last step, and a reader leaves them with its next read.

### Scheduler

One thread calls `tick()`; commands are enqueued, systems unregistered and
consumers registered or unregistered by others at any step. `SystemsLocked` is
the lock `run_phase` holds for a phase. A command is its number in enqueue
order, and its envelope carries the scheduler's tick at that moment - the most
favourable stamp a caller can choose. The diffs of an execution are represented
by the system; systems are assumed to write only the tables they declare, which
nothing in the code enforces. `setting`, chosen once, says whether commands are
enqueued while `tick()` runs and which callbacks may fail.

### SaveSystem, LoadReconstruction, SaveLoad

A snapshot file is absent, torn or whole. `write_snapshot` writes under the
final name (torn, then whole); `save_snapshot` writes a temporary file and
renames it. A call in progress (`call`) is a step and the files still to delete,
so that `Crash` and `CallFails` fall between any two file operations. `writer`
says which of the two APIs a deployment saves with. The journal file is written
by the deployment: `src/` only removes it. Each phase of a load first advances
the lifecycle, so a call out of turn or one that fails has moved it; the model
keeps that, and the application, which is not in `src/`, is represented by two
constants: it stops at the first error or goes on, and it uses skip_to_phase or
not. Phases 2 and 3 take their manifest from the caller (`PassedOn`): what phase
1 returned or, if it returned nothing, any manifest at all, so that a load which
skips phase 1 can finish; `skipped` remembers the skip. The second attempt of a
load may find the tables of the first.

### InputBuffer, BevyBridge

Every mutex is held for one step. The simulation thread prepares, drains,
commits, advances and broadcasts: a consumer that fails may come before the
handler or after it, and then tick() returns an error (`tickOk`). The frame
pushes commands, reads the tick and sets it in two steps, marks and syncs. The
view is refreshed by the handler's callback, by a frame that polls the signal,
or by both (`scenario.refresh`); refresh_snapshot() is three steps
(`ReadGeneration`, `RefreshView`, `ClearSignal`) on a snapshot taken before them,
with the simulation in between. sync_all holds its two locks throughout, but the
tick it reads at and the read itself are two steps, so a commit in between makes
the read fail; it clears every mark all the same, and `marked` and `reported`
tell what became of each. The systems of one frame share the entity registry,
whose lookup and registration are separate locks. `Scenarios` keeps one of the
parts busy in a behaviour: they share no variable but the simulation's own, so
their interleavings are independent.

### FixedPoint, RuleExpr, RuleEngine, RuleSemantics

Numbers are raw value and scale in `Bits` bits, with overflow where the code
checks for it. A string is its rank. `RuleEngine` has one action per call that a
system makes, between commits that publish another world; the refresh that tells
the evaluator may come later or not at all. jump_to is two steps, because it
gives the engine's lock back after it has found its target (`JumpResolves`) and
takes it again to pin the row (`JumpTo`): a commit in between makes that second
read fail after the frame has been pushed. How an expression evaluates is a
parameter of `RuleEngine` (`EvaluateExpr`, `EvalValueToJson`): the cache and the
scope do not depend on it, and `MCRules.cfg` gives it the evaluator of `RuleExpr`.
Left out: float columns, map literals.

### ArrowArrays, ArrowStore, QueryViews

`ArrowStore` has one action per public method that changes the store, guarded by
the lifecycle as `InitStore` and `CommitStore` are. A checkpoint is written file
by file; `Restart` may come in between. Indexes are built over the ticks in any
order, as the code iterates a `HashMap`. `ArrowArrays` keeps a column as values
and validity bits, because patching works on both, and a column of a sliced batch
starts inside its validity buffer; a number has `Wide` or `Narrow` bits, and a
float is counted in halves and rounded to `Mantissa` bits when it stands for an
integer. A patch that puts a null into a column without nulls fails, as
RecordBatch::try_new does. `QueryViews` is what a reader makes of batches; it is
used by `MCStore` only.

### SchemaRegistry, ContentLoader, DebugSql, EngineServices and what they use

Each algorithm is translated as it runs (the walk of detect_cycles, the queue of
find_migration_path, the tokenizer's consumption of tokens) and compared with a
declarative reference in its module (`CycleDetectionExact`,
`MigrationPathShortest`, `OverlayOrderIrrelevant`, `CompiledWhole`,
`StatementsExact`, `TextExact`); `MCServices` conjoins them as `AlgorithmsExact`.
A statement is a sequence of tokens; only string literals, numbers and the
statement check, whose errors are lexical, are sequences of characters.
`EngineServices` holds the state: the loader owns the registry until an engine
is made of it, and may change a spec or add an edge behind the registry's methods
(`ReplaceASpec` is get_mut, `AddAnEdge` relation_graph_mut). Names are registered through
namespace(), which leaves the common counter behind until sync_next_id
(`SyncNames`) is called, if it is; `behind` remembers that a name was assigned
before. `unlogged` holds the diffs that execute_sql_write submitted
while its debug journal was off. An overlay's sum wraps at `MaxI64` as a release
build's does (a debug build panics). A loop that goes through a list is a fold, and the walk of
detect_cycles a fold of as many steps as it can take at most, three per relation
and one: when its stack is empty a step does nothing. `Budgets` bounds the calls of each kind in a behaviour.

## Runs

| Run | Bounds | Shows |
|---|---|---|
| `journal` | 2 tables and one missing, 4 diffs (two apply, one fails half-way, one names the missing table), 2 diffs and 1 command per commit, 2 ticks, 3 snapshots, history of 1, threshold 2 | invariants, the refinement and termination of the commit cycle |
| `readers` | 2 tables, insert/update/delete, 3 ticks, 4 snapshots, one reader, threshold 2, so that an append can fail | what a response can hold while commits publish, finish or are taken back |
| `scheduler` | 4 systems in 2 phases (two conflict, two share a phase), 2 consumers, 3 commands, 2 ticks; serial and reliable, or concurrent with failing consumers | order, single execution, nothing lost when serial, clean slate, acknowledgement |
| `save_load` | 3 ticks, 2 snapshots retained, 1 torn file at a time, threshold 2; manifests at, below and beyond the target version and one with a relation cycle; 4 sets of mods; an application that stops at errors and may skip | recovery from a crash anywhere; complete loads; replay of a clean save journal |
| `rules` | 9-bit numbers with up to 2 decimals, 2 rows cached, 2 ticks, one jump deep, one modifier | cache, scope, arithmetic and evaluation laws |
| `bridge` | 2 ticks, 3 commands, 2 rows, 2 systems, 2 configurations, 3 entities; views refreshed by the callback or by the frame | delivery, views, marks, registry |
| `store` | 2 tables, 2 ticks, 2 rows, 2 data operations and 1 other, 2 snapshots, 2 checkpoint writes, 1 restart; integers of 6 and 3 bits, floats of 4; batches of up to 2 rows in tables of up to 3 batches | catalogue, indexes, checkpoints, cells, views |
| `services` | 3 tables, 2 specs, 7 calls of the registry, 6 of the names or 4 of the debug tools per behaviour, rings of 2, overlays up to 99 | graph, manifests, names, trails, algorithms |

Why these bounds reach the cases that matter: a failed commit needs one good and
one bad diff in one batch, on different tables and on the same; trimming needs
a history shorter than the number of commits; the save journal fails on the
second append, after a successful one, so there is something to roll back to;
three snapshots let two attempts at a tick fail before it commits. A second
reader adds nothing: readers share no state with one another. Three commands let
one be committed, one be in flight and one be queued. Three ticks and two
retained snapshots let retention delete one while a torn file is present. Two
rows in the rule engine's cache let a third push one out. An integer of 6 bits and
a float of 4 leave integers that no float equals on both sides of the largest. Two systems are the
fewest that race on the registry; three tables the fewest with a cycle that is
not a pair. Numbers of 9 bits overflow in every operator. Rings of two drop
their oldest entry on the third. Bounds appear only in guards and every one is a
constant.

Deadlock is not checked where a behaviour ends when its bounds are used up and
nothing waits (`bridge`, `store`, `services`).

Fairness: only `CommitTerminates` needs any. `FairSpec` asks weak fairness of
`CommitStep`: commit() runs on its caller's thread without waiting for anything
but short locks, so a step it can take it takes. Nothing is assumed of callers,
readers or I/O.

Runs that refute what the documentation says of the code:

- `lookup_after_commit`: insert a row, commit, commit again. The view of the
  second tick holds no batch for the row, and its position is out of range.
- `enqueue_during_tick`: a command enqueued while tick() runs makes the next
  tick() fail with InvalidTick and drop everything it drained.
- `torn_retention`: torn files count as snapshots, so retention can delete the
  only complete one. `save_load` has fewer torn files than snapshots to retain,
  and there nothing is lost.
- `replay_after_failed_append`: append keeps a record although it returns an
  error, and the replay hash counts it: a tick that was not committed, or one
  tick twice.

Other disagreements met while modelling, for which `PROJECT.json` has no finding.
Those that begin with a name are about a property that no run lists; TLC finds
each of these violated, in the instance named or in that of its module's run.

- `BonusApplied` (`RuleSemantics`, on `MCRules`): a modifier's factor is rescaled to
  the scale of the value it applies to (modifier.rs:50), so that 1.1 on an integer
  column is 1; rule-ir/spec.md:39 says the query applies `Mul(1.1)`.
- `PhasesInOrder` (`SaveLoad`, on `MCSaveLoad` with an application that goes on after
  an error): a phase whose predecessor returned an error runs and returns Ok, as
  every phase moves the lifecycle before it works; save-system/spec.md:47 says that
  phase N+1 shall not begin until phase N has completed successfully.
- `RefreshedAfterSignal` (`BevyBridge`, on `MCBridge` with `FrameScenarios`): a frame
  that refreshes on its own clears a signal raised meanwhile (refresh_handler.rs:43-51)
  or, beside the callback, puts an older view over a newer one; bevy-bridge/spec.md:38
  says that the bridge refreshes after receiving the signal.
- `SlicedPatchesExact` (`MCStore`): patching a column of a sliced batch copies null
  bits from the beginning of its parent's buffer (store.rs:1904-1911);
  arrow-store/spec.md:180 says that nulls in unaffected rows remain null.
- `AllWritesLogged` (`EngineServices`, on `MCServices`): execute_sql_write with its debug
  journal off submits a diff that is in no log; journal-system/spec.md:116 says that
  all debug writes are logged. `TrailsKeepNewest` claims the trail for what was
  submitted while the journal records.
- Names registered through namespace() without sync_next_id, as
  content_tests.rs:434-443 does, share ids with names assigned later, although
  content-loader/spec.md:11 calls the ids stable: the exception that `NamesStable`
  states (`behind`).
- commit() publishes before it appends (journal.rs:272). When the append fails, a
  reader in between has loaded a tick that is taken back, or keeps views of a
  commit that did not happen, while query-engine/spec.md:196 and 199 say that no
  reader observes intermediate states and that only committed views are read: the
  exceptions that `NoStaleRead` and `ReadsAreCommitted` state (`lostTick`,
  `lostViews`). They are exact: without them TLC finds both violated.
- `PositionsAtLastCommit` (`Journal`, on `MCJournal` with `MCKeyDiffs`): a rollback restores batches only
  (store.rs:1156); the position map keeps the entries of the failed diffs, while
  journal-system/spec.md:220 says that no uncommitted diffs have been applied.
- `ReadMatchesRequest` (`QueryReaders`, on `MCReaders`): read() loads the tick and then the cache
  (engine.rs:222), so a read for tick T may return views of T+1;
  query-engine/spec.md:196 says no reader observes intermediate states.
- Acknowledgement is claimed only where no consumer fails (`RefreshAcknowledged`):
  broadcast stops at the first callback that fails (refresh_signal.rs:113), and the next tick runs
  although refresh_signal.rs:19 says that consumers must acknowledge first.
- `LoadedLikeCreated` (`ArrowStore`, on `MCStore`): load_checkpoint names the storage types of
  its columns after Arrow types, with raw semantics and no key, so the table has
  no primary-key index; arrow-store/spec.md:203 says such tables are
  indistinguishable from created ones.
- Zeros of different scales compare equal and hash differently, as
  canonical_form keeps the scale of a raw 0 (fixed_point.rs:151-159); the law of
  `NumbersExact` that equal numbers hash equal says so and is about the others.
- An integer from 2^63 that the nearest float takes to 2^63 is stored as
  i64::MAX (store.rs:1620), not refused as the comment there has it;
  `ConversionsExact` states the conversion with that rounding.
- Two systems that materialize one row at once can leave an entity that no row
  names and dematerialize_all does not reach: `EntitiesMatchRegistry` claims the
  other direction always, this one only without overlap.
- A checkpoint into a directory that holds an older one overwrites it in place, so
  that a write cut short leaves neither: `CheckpointRestores` speaks of the tables
  and ticks whose write was completed.
- remove() leaves the relations of the table in the graph, and the manifest
  exported then does not load: `ManifestReloads` says exactly when it does.
- The specification of journal-system (lines 66 and 229) says that store
  mutations are not rolled back when a later step fails; the code does restore
  the batches, and `BatchesAtLastCommit` is the stronger statement.

## Theorems

`JournalProofs` proves, for every set of tables, diffs and commands and every
bound allowed by `ArrowTableAssumption` and `JournalAssumption`:

- `TypeCorrect`, and `CommitInvariant`, the inductive invariant `CommitInv`;
- from it `PublishedCorrect`, `BatchesCorrect`, `IngestCorrect`;
- `HistoryCorrect` and `SaveJournalCorrect`;
- `Refinement`: `Spec => ImplementsAtomicJournal`.

The properties speak of the idle journal, so none is inductive by itself.
`CommitInv` adds what holds in the middle of a commit: the queues are empty and
the transaction holds their content (`QueueInv`); an ingest is pending in
exactly the steps from begin to publication or rollback (`IngestInv`); the
snapshot of the tick being committed is the store's present state
(`SnapshotInv`); the rollback token is the state published by the last commit
(`RollbackInv`); which of cache, snapshot and tick are already new, per step
(`ViewInv`); and the saved versions of touched tables, with the present versions
of the others, are those of the last commit (`StoreInv`). `ArrowTableProofs`
supplies the lemmas about diffs: outcomes are well typed, and a failing diff
leaves the batches alone.

The second part is about readers that run against every step of a commit, of a rollback and of clear_cache:

- `ResponsesUniform`: types are kept and no response mixes two ticks. Needed:
  what an ingest has staged is of the open tick (`StagedInv`), and the cache, the
  one saved for a rollback and every response are each of one tick (`UniformInv`).
- `ReadsNeverStale` and `ReadsCommitted`, with failed appends and their exceptions:
  `latest_tick` is the tick of the last commit, or the open one between its
  publication and the end of its rollback, and neither the cache nor the one a
  rollback would put back is behind the last commit (`LatestInv`, `PublishedInv`);
  a tick that a reader has seen and not lost is committed or still published
  (`SeenInv`), so that the end of a commit makes it a bound on the response
  (`FreshInv`); every view served or held is committed or is the open one
  while it is published (`ViewsInv`).

`SchedulerProofs` proves the six invariants of the `scheduler` run for any
systems, phases, consumers, commands and settings: `CleanSlateHolds`,
`CommandsStayInOrder`, `SerialCommandsKept`, `RecordsAreOnePass`,
`WritersStayOrdered`, `RefreshesAcknowledged`, and `TypeCorrect`. They rest on
one invariant (`Invariance`), as what is recorded depends on what a failed
attempt leaves behind: the counters follow the journal's tick (`CounterInv`),
what is pending is of the open tick (`PendingInv`), a running tick() holds what
it drained (`SerialInv`), history, pending, consumed and queued commands are
sorted and before one another (`OrderInv`) and together hold every command
(`CoverInv`), the pending diffs are a prefix of one pass (`PassInv`), and a
consumer already signalled is at the generation (`AckInv`).

`SaveLoadProofs`, for any number of ticks, threshold, retention limit,
manifests, mods and migrations:

- `CommitsRecoverable` and `RecoveryPointKept`, if `MaxTorn < MaxSnapshots`. The
  condition is exact: the run `torn_retention` violates `Recoverable` without
  it. `ManagerReadsLatest` needs no condition, because the rename leaves no torn
  file. The invariant (`SaveInvariance`) says what each
  step of a call knows of its files (`CallInv`) and that a file the retention is
  about to delete has a complete newer one (`VictimInv`), so that a crash between
  any two steps leaves every commit covered (`CoveredInv`).
- `FinishedLoadIsComplete`, of an application that stops at errors:
  `LoadInvariance` says for every completed phase what it has established, and
  that an error or a skip is remembered. Nothing is assumed of the manifests that
  are passed on, so the first phase need not have run. That the
  relation check finds every cycle is proved by following the rounds of
  `GraphAccepts` along a closed walk.
- `CleanReplayHashMatches`, for a save journal without the records that a failed
  append leaves: with them the hash is wrong, as `replay_after_failed_append`
  shows. `ReplayInvariance` says that every commit past the newest
  complete snapshot is in the journal file and, while the process is up, in the
  save journal, also after a truncation and a restart. The two folds over
  records are then compared: addition modulo `HashMod` does not depend on the
  order (`OrderFree`), and the records up to the snapshot with those past it are
  the committed ones, once each. `RecordHash` is any function into the naturals.

`BridgeProofs`: `CommandsDeliveredOnce` (no stamp the frame holds is ahead of the
simulation's tick), `ViewsFollowCommits` (the callback alone refreshes),
`ViewsNeverGoBack` (the callback or the frame alone does; with both it is false),
`MarksAreKept` (what sync_all has read, failed to read or still to read, and what
it reports at its end) and `EntitiesStayMatched` (a row about to be spawned is
still free and an entity about to be dropped is still the one of its row, while
systems take turns).

`EngineProofs`, on the store: `CatalogStaysConsistent`, `LayersStayInAgreement` and
`CompleteCheckpointsRestored`, from `StoreInv`: every table is well typed with
its index layers in agreement (`TablesInv`), ids are below the next one
(`CatalogInv`), a snapshot's batches are those of the tables it names
(`SnapshotsInv`), and a write in progress has left the files it no longer has to
write (`FilesInv`, `WritingInv`, `CompleteInv`).

`EngineProofs`, on the services, for any tables, specs, relations, content, names,
statements, commits and capacity:

- `NamesStayStable`, until a name is assigned on an old counter (`behind`): ids are unique
  across name tables only because the tables share the counter, so the invariant
  (`NamesInv`) bounds every id by it, the ids of an unsynced table by that table's
  copy of it, and says that two tables never hold the same one.
- `TrailsAreKept`, of what is submitted while the debug journal records:
  `TrailInv` says where each submitted diff stands in the trail.
  A summary loop pushes a whole commit, so the invariant is carried through the
  rounds of the loop.
- `GraphStaysSound`: `SchemaInv` says that the adjacency lists are the edges
  (`GraphOk`), no two edges join the same tables, there is no cycle, and nothing
  is validated before an engine owns the registry, so that what the loader
  removes was nobody's. That would_create_cycle sees every cycle is proved from
  the search being closed under relations (`ReachedIsClosed`, `NewEdgeAcyclic`),
  for every loop that registers, relates or compiles.
- `NoFalseCycle`: on a graph without a cycle the depth-first walk reports nothing,
  whatever the order of the tables. Its invariant (`WalkOk`, `Depth`) ties each
  entry of the stack to a place of the path: gray tables are on the path, and the
  path is a chain of relations, so that a gray successor would close a cycle. The
  number of entries, white tables and their edges (`ToDo`) falls with every step
  of the walk, so the steps of the fold are enough.
- `ManifestsReload`: the tables of a manifest are distinct and load one after
  another; any part of an acyclic list of relations is acyclic, so no relation
  is refused in whatever state the loop has reached (`RefusedIsCyclic`).

`RulesProofs`, for any world, relations, program and evaluation of expressions:

- `CacheIsOfOneTick`, `EvictionIsLru` and `RuleTypeCorrect`, from `RuleInv`. Eviction
  compares access numbers, the property speaks of uses: the invariant says that
  an access number is the place of the key's last use and that the cache holds
  what was used since some moment (`Recency`), which a prefetch of several rows
  keeps row by row.
- `FailedCallIsUndoable`: a step that returns an error changes neither scope nor
  stack, or it is the second half of a jump_to that a commit overtook and has
  pushed one frame on the scope it started from. Until the next commit a jump in
  progress can read its target's table again (`JumpInv`), so only a commit makes
  the pin fail.
- `RescaleRoundsHalfEven` and `DivisionErrsByLessThanAUnit`: of the arithmetic, for
  every width, scale and raw value.

Assumptions on constants are named in the module that declares them and TLC
evaluates them on every run: bounds are naturals, thresholds and limits positive
(`InputAssumption`, `SaveAssumption`, `JournalAssumption`, `SchedulerAssumption`),
hashes are naturals (`HashAssumption`), inputs have the shape the code's types
give them (`SessionAssumption`, `StoreAssumption`, `ArrowTableAssumption`, `ServicesAssumption`,
`RulesAssumption`).
Every inductive invariant was also checked by TLC, on the constants of its run, and
so were the type invariants, which no run lists: the invariants contain them.

The proofs changed the models where those were wrong or depended on an arbitrary
choice: an insert into a table without a key is refused for a bad id as well as
for a bad value (`ApplyKeyless`); a resumed or truncated save journal is any
ascending sequence of its records, not the one a sorting helper picks
(`Ascending`); the hash of a record is a parameter.

Only model-checked:

- `CommitTerminates`: liveness is out of the prover's reach.
- `RuleLaws` (`RuleSemantics`): laws of the evaluator, which is recursive over
  expressions. The state machine takes it as a parameter and is proved for all.
- `AlgorithmsExact` (`MCServices`), `RowsReachable` and `CellsExact` (`MCStore`):
  what recursive definitions compute for every input takes an induction over
  data. Among them is `CycleDetectionExact`, the other half of `NoFalseCycle`: that
  detect_cycles finds a cycle in every graph that has one.

## Plan

Done: every module above, and theorems for journal, readers, scheduler, save and
load, bridge, store, services and rules. Left: the completeness of detect_cycles
(a black table leads to no cycle), and the hazard without a property, lookups
after a rollback.

## Not modelled

- Telemetry (`telemetry.rs` in three crates): counters written and never read.
- The RNG (`rng.rs`): a pure hash of system id and tick, without state of its own.
- The egui panels of `scharnhorst_inspector` and the formatting of cells and
  errors: layout and wording. The data they show comes from `QueryViews`.
- TOML and JSON of manifests, the IPC bytes of batches and the hash functions:
  serialization libraries do them; files are torn or whole.
- The execution of a SELECT: DataFusion's. What is registered with it and which
  statements reach it is modelled.
- `RelationGraph::add_edge_unchecked`, which is hidden from the documentation and
  called by tests only: it exists to make graphs that add_edge refuses.
- Poisoned locks, out-of-memory, and panics.
- The Bevy ECS and the application, which are external: an entity is a number,
  and the application is what calls the operations.
- Compile-time capability tokens and tier marker types: the type checker's.
