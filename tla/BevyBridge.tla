----------------------------- MODULE BevyBridge -----------------------------
(***************************************************************************)
(* The bridge between the simulation thread and the frames of the user     *)
(* interface (scharnhorst_bevy): commands go one way through InputBuffer,  *)
(* committed snapshots come back through the refresh callback into         *)
(* ViewModel, SyncState records which entities a frame has to refresh, and *)
(* EntityMaterializationRegistry gives rows an entity of their own.        *)
(*                                                                         *)
(* The simulation takes a tick as prepare, drain, commit, advance and      *)
(* broadcast.  The frame runs beside it, one lock or atomic access of the  *)
(* handler and of sync_all at a time, and inside a frame the systems that  *)
(* share the registry run beside each other: the registry's mutex is       *)
(* released between the lookup of a row and its registration.              *)
(***************************************************************************)
EXTENDS InputBuffer, SequencesExt

CONSTANTS
  Row,        \* the rows of the one table that is materialised: a set of naturals
  Systems,    \* the frame's systems
  Configs,    \* the registered MaterializationConfigs, a sequence of
              \* [keep: the rows its filter lets through, max: max_entities]
  Watched,    \* entities that SyncState may be told of
  MaxEntity,  \* bound on the entities ever spawned
  Scenarios   \* which parts are busy in a behaviour, a set of
              \* [pushes, systems, sync: BOOLEAN, refresh: who replaces the view:
              \*  "callback", the handler's callback on the simulation thread;
              \*  "frame", the frame when on_refresh_signal told it to; or "both"]

VARIABLES
  scenario,   \* one of Scenarios; the parts share nothing but the ticks
  simTick,    \* the tick the scheduler is in
  simPc,      \* "idle", "prepared", "drained", "published", "advanced", "refreshed"
  latest,     \* QueryEngine::latest_tick
  rows,       \* the rows committed at latest
  generation, \* the scheduler's refresh generation
  frameTick,  \* the tick the frame has read, for set_tick
  view,       \* ViewModel: [tick, generation]
  signal,     \* SnapshotRefreshHandler::signal_received
  tickOk,     \* the last tick() returned Ok: every consumer acknowledged
  refresh,    \* the frame's refresh: [at: "none", "taken", "counted" or "installed",
              \* tick: of the snapshot it holds, generation: the one it will store]
  models,     \* SyncState::view_models
  dirty,      \* SyncState::dirty_entities
  syncing,    \* the entities sync_all has still to read: {} or a set of them
  loaded,     \* the entity sync_all is reading, with the tick it asks for: {} or {<<e, tick>>}
  failed,     \* sync_all's errors: the entities it could not read
  marked,     \* history: entities marked and not yet read, cleared or unregistered
  reported,   \* history: marks that were dropped unread by a sync_all that returned Err
  registry,   \* EntityMaterializationRegistry::inner: row |-> entity
  alive,      \* the entities that exist: entity |-> the row of its ViewOf
  born,       \* entities spawned so far
  job,        \* what each system is doing
  overlap     \* history: two systems worked on the registry at the same time

simVars == <<simTick, simPc, latest, rows, generation>>
viewVars == <<view, signal, tickOk, refresh>>
syncVars == <<models, dirty, syncing, loaded, failed, marked, reported>>
entityVars == <<registry, alive, born, job, overlap>>
bridgeVars == <<scenario, frameTick, inputVars, simVars, viewVars, syncVars, entityVars>>

Idle == [at |-> "idle"]
Nothing == <<>>
NoRefresh == [at |-> "none", tick |-> 0, generation |-> 0]

BridgeInit ==
  /\ InputInit
  /\ scenario \in Scenarios
  /\ simTick = 1 /\ simPc = "idle" /\ latest = 0 /\ rows = {} /\ generation = 0
  /\ frameTick = 0
  /\ view = [tick |-> 0, generation |-> 0] /\ signal = FALSE /\ tickOk = TRUE
  /\ refresh = NoRefresh
  /\ models = {} /\ dirty = {} /\ syncing = {} /\ loaded = {} /\ failed = {}
  /\ marked = {} /\ reported = {}
  /\ registry = Nothing /\ alive = Nothing /\ born = 0
  /\ job = [s \in Systems |-> Idle] /\ overlap = FALSE

-----------------------------------------------------------------------------
(* The simulation thread.  A refused prepare or drain leaves the commands  *)
(* in the buffer and the tick goes on without them.                        *)

notInput == <<scenario, frameTick, simTick, latest, rows, generation, viewVars, syncVars,
              entityVars>>

SimPrepare ==
  /\ simPc = "idle" /\ simTick <= MaxTick
  /\ \/ Prepare(simTick) /\ simPc' = "prepared"
     \/ PrepareRefused(simTick) /\ simPc' = "drained"
  /\ UNCHANGED notInput

SimDrain ==
  /\ simPc = "prepared"
  /\ DrainCommands(simTick) \/ DrainRefused(simTick)
  /\ simPc' = "drained"
  /\ UNCHANGED notInput

SimLegacyDrain ==
  /\ simPc = "idle" /\ LegacyDrain(simTick)
  /\ UNCHANGED <<simPc, notInput>>

\* The commit publishes the tick to the query engine before any callback runs.
SimPublish ==
  /\ simPc = "drained" /\ simPc' = "published"
  /\ latest' = simTick /\ generation' = generation + 1
  /\ \E committed \in SUBSET Row : rows' = IF scenario.systems THEN committed ELSE rows
  /\ UNCHANGED <<scenario, frameTick, simTick, inputVars, viewVars, syncVars, entityVars>>

AdvanceTick ==
  /\ simPc = "published" /\ simPc' = "advanced" /\ simTick' = simTick + 1
  /\ UNCHANGED <<scenario, frameTick, latest, rows, generation, inputVars, viewVars, syncVars,
                 entityVars>>

(* The broadcast, outside every lock: the consumers are called in the      *)
(* order of a HashMap and the first error ends it and is what tick()       *)
(* returns, so a consumer that fails may come before the handler or after. *)

notBroadcast == <<scenario, frameTick, simTick, latest, rows, generation, inputVars, refresh,
                  syncVars, entityVars>>

BroadcastFails ==
  /\ simPc = "advanced" /\ simPc' = "idle" /\ tickOk' = FALSE
  /\ UNCHANGED <<view, signal, notBroadcast>>

\* Mutant: the view takes the signal's generation but keeps the snapshot it has.
CallbackKeepsSnapshot ==
  /\ scenario.refresh # "frame" /\ simPc = "advanced" /\ simPc' = "refreshed"
  /\ view' = [view EXCEPT !.generation = generation]
  /\ UNCHANGED <<signal, tickOk, notBroadcast>>

\* The handler's callback: the snapshot the query engine holds, which only the
\* simulation thread replaces, with the generation the scheduler sends.
Callback ==
  /\ scenario.refresh # "frame" /\ simPc = "advanced" /\ simPc' = "refreshed"
  /\ view' = [tick |-> latest, generation |-> generation]
  /\ UNCHANGED <<signal, tickOk, notBroadcast>>

CallbackEnds ==
  /\ simPc = "refreshed" /\ simPc' = "idle" /\ signal' = FALSE /\ tickOk' \in BOOLEAN
  /\ UNCHANGED <<view, notBroadcast>>

\* Mutant: the consumer raises the signal and refreshes the view itself.
OnRefreshSignalTwice ==
  /\ scenario.refresh = "frame" /\ simPc = "advanced" /\ simPc' = "idle"
  /\ signal' = TRUE /\ tickOk' \in BOOLEAN
  /\ view' = [tick |-> latest, generation |-> generation]
  /\ UNCHANGED notBroadcast

\* A consumer that only tells the frame.
OnRefreshSignal ==
  /\ scenario.refresh = "frame" /\ simPc = "advanced" /\ simPc' = "idle"
  /\ signal' = TRUE /\ tickOk' \in BOOLEAN
  /\ UNCHANGED <<view, notBroadcast>>

-----------------------------------------------------------------------------
(* The frame: commands, the tick they are stamped with, and the refresh.   *)
(* A frame that is told polls should_refresh() and takes a snapshot;       *)
(* refresh_snapshot() then reads the generation, replaces the view and     *)
(* clears the signal, three accesses with the simulation beside them.      *)

notFrame == <<scenario, simVars, viewVars, syncVars, entityVars>>

FramePush(source) ==
  scenario.pushes /\ Push(source) /\ UNCHANGED <<frameTick, notFrame>>

FrameClear == Clear /\ UNCHANGED <<frameTick, notFrame>>

FrameReadTick ==
  /\ scenario.pushes /\ frameTick # simTick /\ simTick <= MaxTick /\ frameTick' = simTick
  /\ UNCHANGED <<inputVars, notFrame>>

FrameSetTick ==
  /\ scenario.pushes /\ frameTick # bufferTick
  /\ SetTick(frameTick) /\ UNCHANGED <<frameTick, notFrame>>

notRefresh == <<scenario, frameTick, inputVars, simVars, tickOk, syncVars, entityVars>>

TakeSnapshot ==
  /\ scenario.refresh # "callback" /\ refresh.at = "none" /\ latest > 0
  /\ scenario.refresh = "frame" => signal
  /\ view.generation <= MaxTick          \* bound on the refreshes a frame makes unasked
  /\ refresh' = [at |-> "taken", tick |-> latest, generation |-> 0]
  /\ UNCHANGED <<view, signal, notRefresh>>

ReadGeneration ==
  /\ refresh.at = "taken"
  /\ refresh' = [refresh EXCEPT !.at = "counted", !.generation = view.generation + 1]
  /\ UNCHANGED <<view, signal, notRefresh>>

RefreshView ==
  /\ refresh.at = "counted" /\ refresh' = [refresh EXCEPT !.at = "installed"]
  /\ view' = [tick |-> refresh.tick, generation |-> refresh.generation]
  /\ UNCHANGED <<signal, notRefresh>>

ClearSignal ==
  /\ refresh.at = "installed" /\ refresh' = NoRefresh /\ signal' = FALSE
  /\ UNCHANGED <<view, notRefresh>>

-----------------------------------------------------------------------------
(* SyncState.  sync_all holds both of its locks from the copy of the dirty *)
(* set to the clear, so every other method waits for it.                   *)

notSync == <<scenario, frameTick, inputVars, simVars, viewVars, entityVars>>

Unlocked == syncing = {}

RegisterEntity(e) ==
  /\ scenario.sync /\ Unlocked /\ models' = models \cup {e}
  /\ UNCHANGED <<dirty, syncing, loaded, failed, marked, reported, notSync>>

\* The sets without, or with, some marks: the call is what becomes of them.
Unmark(entities) ==
  /\ dirty' = dirty \ entities /\ marked' = marked \ entities
  /\ reported' = reported \ entities

UnregisterEntity(e) ==
  /\ scenario.sync /\ Unlocked /\ models' = models \ {e} /\ Unmark({e})
  /\ UNCHANGED <<syncing, loaded, failed, notSync>>

MarkAll(entities) ==
  /\ scenario.sync /\ Unlocked
  /\ dirty' = dirty \cup entities /\ marked' = marked \cup entities
  /\ reported' = reported \ entities
  /\ UNCHANGED <<models, syncing, loaded, failed, notSync>>

MarkDirty(e) == MarkAll({e})
MarkAllDirty == MarkAll(models)

ClearDirty ==
  /\ scenario.sync /\ Unlocked /\ dirty # {} /\ Unmark(dirty)
  /\ UNCHANGED <<models, syncing, loaded, failed, notSync>>

SyncAll ==
  /\ scenario.sync /\ Unlocked /\ dirty # {} /\ syncing' = dirty
  /\ UNCHANGED <<models, dirty, loaded, failed, marked, reported, notSync>>

\* The next entity, with the tick of the view at this moment.
SyncLoad(e) ==
  /\ e \in syncing \cap models /\ loaded = {} /\ loaded' = {<<e, view.tick>>}
  /\ UNCHANGED <<models, dirty, syncing, failed, marked, reported, notSync>>

\* Entity e is done, and errors are those met so far.  After the last entity the
\* dirty set is cleared, errors or not, and an Err is returned if there are any.
SyncDone(e, errors) ==
  /\ syncing' = syncing \ {e} /\ loaded' = {}
  /\ IF syncing = {e}
       THEN dirty' = {} /\ failed' = {} /\ reported' = reported \cup errors
       ELSE failed' = errors /\ UNCHANGED <<dirty, reported>>

\* An entity that is not registered is skipped.
SyncSkip(e) ==
  /\ e \in syncing \ models /\ loaded = {} /\ SyncDone(e, failed)
  /\ marked' = marked \ {e}
  /\ UNCHANGED <<models, notSync>>

\* Mutant: an entity that cannot be read is left out of the errors.
SyncReadQuietly(e) ==
  /\ \E read \in loaded :
       /\ read[1] = e /\ SyncDone(e, failed)
       /\ marked' = IF read[2] = latest /\ latest > 0 THEN marked \ {e} ELSE marked
  /\ UNCHANGED <<models, notSync>>

\* The query engine serves the latest tick alone, and there is no tick to ask
\* for before the first refresh.
SyncRead(e) ==
  /\ \E read \in loaded :
       /\ read[1] = e
       /\ IF read[2] = latest /\ latest > 0
            THEN SyncDone(e, failed) /\ marked' = marked \ {e}
            ELSE SyncDone(e, failed \cup {e}) /\ UNCHANGED marked
  /\ UNCHANGED <<models, notSync>>

-----------------------------------------------------------------------------
(* The registry of materialised rows.                                      *)

notEntity == <<scenario, frameTick, inputVars, simVars, viewVars, syncVars>>

\* A system starts, and whether it now works beside another one.
Start(s, work) ==
  /\ scenario.systems /\ job[s] = Idle /\ job' = [job EXCEPT ![s] = work]
  /\ overlap' = (overlap \/ \E other \in Systems \ {s} : job[other] # Idle)

Becomes(s, work) == job' = [job EXCEPT ![s] = work] /\ UNCHANGED overlap

\* materialize() asks for the latest tick, then reads the table at that tick.
Materialize(s) ==
  /\ Start(s, [at |-> "read", config |-> 1, tick |-> latest])
  /\ UNCHANGED <<registry, alive, born, notEntity>>

\* The rows that a configuration lets through, in the order of the table.
FilteredRows(config) == SetToSortSeq(rows \cap Configs[config].keep, <)

ReadRows(s) ==
  /\ job[s].at = "read"
  /\ Becomes(s, IF job[s].tick # latest THEN Idle
                ELSE [at |-> "look", config |-> job[s].config, spawned |-> 0,
                      max |-> Configs[job[s].config].max,
                      todo |-> FilteredRows(job[s].config)])
  /\ UNCHANGED <<registry, alive, born, notEntity>>

\* materialize_entity() does for one row what materialize() does for each.
MaterializeEntity(s, row) ==
  /\ Start(s, [at |-> "look", config |-> Len(Configs), spawned |-> 0, max |-> 1,
               todo |-> <<row>>])
  /\ UNCHANGED <<registry, alive, born, notEntity>>

NextConfig(s) ==
  IF job[s].config = Len(Configs) THEN Idle
  ELSE [at |-> "read", config |-> job[s].config + 1, tick |-> latest]

LookUp(s) ==
  /\ job[s].at = "look"
  /\ Becomes(s, IF job[s].todo = <<>> \/ job[s].spawned >= job[s].max THEN NextConfig(s)
                ELSE IF Head(job[s].todo) \in DOMAIN registry
                       THEN [job[s] EXCEPT !.todo = Tail(@)]
                ELSE [job[s] EXCEPT !.at = "spawn"])
  /\ UNCHANGED <<registry, alive, born, notEntity>>

With(f, key, value) ==
  [k \in DOMAIN f \cup {key} |-> IF k = key THEN value ELSE f[k]]

Spawn(s) ==
  /\ job[s].at = "spawn" /\ born < MaxEntity
  /\ LET row == Head(job[s].todo)
     IN  registry' = With(registry, row, born + 1) /\ alive' = With(alive, born + 1, row)
  /\ born' = born + 1
  /\ Becomes(s, [job[s] EXCEPT !.at = "look", !.todo = Tail(@), !.spawned = @ + 1])
  /\ UNCHANGED notEntity

Despawned(entities) == [e \in DOMAIN alive \ entities |-> alive[e]]
Without(row) == [r \in DOMAIN registry \ {row} |-> registry[r]]

\* dematerialize() finds the row of an entity, and unregisters it later.
Dematerialize(s, e) ==
  /\ \E row \in DOMAIN registry :
       registry[row] = e /\ Start(s, [at |-> "drop", row |-> row, entity |-> e])
  /\ UNCHANGED <<registry, alive, born, notEntity>>

Drop(s) ==
  /\ job[s].at = "drop"
  /\ registry' = Without(job[s].row) /\ alive' = Despawned({job[s].entity})
  /\ Becomes(s, Idle)
  /\ UNCHANGED <<born, notEntity>>

\* Mutant: the entity is despawned and stays registered.
DematerializeEntityKept(s, row) ==
  /\ scenario.systems /\ job[s] = Idle /\ row \in DOMAIN registry
  /\ alive' = Despawned({registry[row]})
  /\ UNCHANGED <<registry, born, job, overlap, notEntity>>

\* dematerialize_entity() and dematerialize_all() take from the map and
\* despawn what they took.
DematerializeEntity(s, row) ==
  /\ scenario.systems /\ job[s] = Idle /\ row \in DOMAIN registry
  /\ registry' = Without(row) /\ alive' = Despawned({registry[row]})
  /\ UNCHANGED <<born, job, overlap, notEntity>>

DematerializeAll(s) ==
  /\ scenario.systems /\ job[s] = Idle /\ registry # Nothing
  /\ registry' = Nothing /\ alive' = Despawned({registry[r] : r \in DOMAIN registry})
  /\ UNCHANGED <<born, job, overlap, notEntity>>

-----------------------------------------------------------------------------
SimStep == \/ SimPrepare \/ SimDrain \/ SimLegacyDrain \/ SimPublish \/ AdvanceTick
           \/ BroadcastFails \/ Callback \/ CallbackEnds \/ OnRefreshSignal

FrameStep == \/ \E source \in Source : FramePush(source)
             \/ FrameClear \/ FrameReadTick \/ FrameSetTick
             \/ TakeSnapshot \/ ReadGeneration \/ RefreshView \/ ClearSignal

SyncStep == \/ \E e \in Watched : \/ RegisterEntity(e) \/ UnregisterEntity(e)
                                  \/ MarkDirty(e)
                                  \/ SyncLoad(e) \/ SyncSkip(e) \/ SyncRead(e)
            \/ MarkAllDirty \/ ClearDirty \/ SyncAll

SystemStep(s) == \/ Materialize(s) \/ ReadRows(s) \/ LookUp(s) \/ Spawn(s)
                 \/ Drop(s) \/ DematerializeAll(s)
                 \/ \E row \in Row : MaterializeEntity(s, row) \/ DematerializeEntity(s, row)
                 \/ \E e \in DOMAIN alive : Dematerialize(s, e)

BridgeNext == SimStep \/ FrameStep \/ SyncStep \/ \E s \in Systems : SystemStep(s)

BridgeSpec == BridgeInit /\ [][BridgeNext]_bridgeVars

-----------------------------------------------------------------------------
BridgeTypeOK ==
  /\ InputTypeOK
  /\ simTick \in 1 .. MaxTick + 1 /\ latest \in 0 .. MaxTick
  /\ frameTick \in 0 .. MaxTick
  /\ simPc \in {"idle", "prepared", "drained", "published", "advanced", "refreshed"}
  /\ view.tick \in 0 .. latest /\ refresh.tick \in 0 .. latest
  /\ signal \in BOOLEAN /\ tickOk \in BOOLEAN
  /\ models \cup dirty \cup syncing \cup failed \cup marked \cup reported \subseteq Watched
  /\ born \in 0 .. MaxEntity
  /\ DOMAIN registry \subseteq Row /\ DOMAIN alive \subseteq 1 .. born

\* A registered row always has a living entity, and that entity is a view of
\* that row.  As long as no two systems were at work on the registry at once
\* the converse holds as well: no entity lives on without being registered,
\* and so none is out of dematerialize_all's reach.
EntitiesMatchRegistry ==
  /\ \A row \in DOMAIN registry : /\ registry[row] \in DOMAIN alive
                                  /\ alive[registry[row]] = row
  /\ (~overlap /\ \A s \in Systems : job[s].at # "drop")
       => \A e \in DOMAIN alive : /\ alive[e] \in DOMAIN registry
                                  /\ registry[alive[e]] = e

\* From the end of a tick() to the next commit.
Between == simPc \in {"idle", "prepared", "drained"}

\* When the handler's callback is what refreshes the view, the frame sees the
\* last commit, snapshot and generation, whenever the last tick() returned Ok;
\* after an error of another consumer it may see an earlier commit, but never
\* the snapshot of one with the generation of another.
ViewFollowsCommit ==
  scenario.refresh = "callback" =>
    /\ Between /\ tickOk => view = [tick |-> latest, generation |-> generation]
    /\ view.tick = view.generation

\* With the callback or the frame as the only one that refreshes, the view never
\* goes back to an earlier tick, however long a frame sits on its snapshot.
ViewNeverOlder == [][scenario.refresh \in {"callback", "frame"} => view'.tick >= view.tick]_bridgeVars

\* After a broadcast that every consumer acknowledged the view shows the last
\* commit, or the signal is up and the frame will refresh.
RefreshedAfterSignal ==
  Between /\ tickOk /\ refresh.at = "none" => view.tick = latest \/ signal

\* An entity that was marked dirty is in the dirty set until sync_all has read it
\* or found it unregistered, it was unregistered or the set cleared; and a mark
\* that sync_all drops without reading the entity is one of a call that returned
\* SyncFailed.
MarksNotLost ==
  /\ marked \subseteq dirty \cup reported
  /\ Unlocked => reported = marked \ dirty
=============================================================================
