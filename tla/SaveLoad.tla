------------------------------ MODULE SaveLoad ------------------------------
(***************************************************************************)
(* A session: the game runs and saves (SaveSystem), crashes at any file    *)
(* operation, and is loaded again through the six phases                   *)
(* (LoadReconstruction).  The application that drives the phases is not in *)
(* src/; like the callers in the tests it gives up a load at the first     *)
(* error when StopsOnError, and otherwise calls any phase at any time.     *)
(***************************************************************************)
EXTENDS SaveSystem, LoadReconstruction

CONSTANTS
  Manifests,     \* the schema manifests found in snapshot headers
  ModSets,       \* the sets of mods found on disk
  StopsOnError,  \* the application abandons a load after an error
  MaySkip        \* the application uses skip_to_phase

\* The fields of a manifest and of a mod fingerprint; a relation is a pair.
ASSUME SessionAssumption ==
  /\ \A m \in Manifests :
       /\ m = [version |-> m.version, tables |-> m.tables,
               relations |-> m.relations, mods |-> m.mods]
       /\ m.relations \in Seq(Range(m.relations))
       /\ \A e \in Range(m.relations) : e = <<e[1], e[2]>>
  /\ \A mods \in ModSets \cup {m.mods : m \in Manifests} :
       /\ IsFiniteSet(mods)
       /\ \A f \in mods : f = [id |-> f.id, version |-> f.version]

VARIABLES
  gaveUp,  \* the load in progress met an error
  skipped  \* the load in progress used skip_to_phase

sessionVars == <<gaveUp, skipped>>
vars == <<saveVars, loadVars, sessionVars>>

Init == SaveInit /\ LoadInit /\ gaveUp = FALSE /\ skipped = FALSE

Play == SaveStep /\ UNCHANGED <<loadVars, sessionVars>>

\* The application builds a LoadReconstruction for a store without tables or,
\* to try again, for the store of the load that failed.
StartLoad ==
  /\ ~up /\ call = Idle
  /\ \E p \in Policies, pipe \in BOOLEAN, store \in {{}, tables} :
       Build(store, p, pipe)
  /\ gaveUp' = FALSE /\ skipped' = FALSE
  /\ UNCHANGED saveVars

\* Phases 2 and 3 take their manifest from the caller: the one that phase 1
\* returned or, when it returned none, one the application has from elsewhere.
PassedOn == IF manifest = NoManifest THEN Manifests ELSE {manifest}

LoadCall ==
  \/ \E m \in Manifests :
       SnapshotDeserialize(IF LatestReadable THEN m ELSE NoManifest)
  \/ \E m \in PassedOn, available \in ModSets :
       ModCoordination(m.mods, available)
  \/ \E m \in PassedOn : SchemaMigration(m)
  \/ ContentCompilation
  \/ SchemaFreeze
  \/ SimulationStart
  \/ \E p \in 1 .. LastPhase : WrongPhase(p)

Load ==
  /\ ~up /\ LastPhase \notin succeeded
  /\ StopsOnError => ~gaveUp
  /\ LoadCall
  /\ gaveUp' = (gaveUp \/ succeeded' = succeeded)
  /\ UNCHANGED <<saveVars, skipped>>

Skip ==
  /\ ~up /\ MaySkip /\ ~gaveUp /\ LastPhase \notin succeeded
  /\ \E p \in 1 .. LastPhase : SkipToPhase(p)
  /\ skipped' = TRUE
  /\ UNCHANGED <<saveVars, gaveUp>>

\* The load is complete: the game goes on and the LoadReconstruction is
\* dropped.
StartSimulation ==
  /\ IsFinished /\ ~gaveUp
  /\ Resume
  /\ Build({}, "Warn", FALSE)
  /\ skipped' = FALSE
  /\ UNCHANGED gaveUp

Next == Play \/ StartLoad \/ Load \/ Skip \/ StartSimulation

Spec == Init /\ [][Next]_vars

-----------------------------------------------------------------------------
(* Properties                                                              *)

Mods == UNION ModSets

\* The types of the save files, the save journal and the load in progress.
TypeOK ==
  /\ SaveTypeOK
  /\ current \in 0 .. LastPhase /\ completed \in Seq(1 .. LastPhase)
  /\ manifest \in Manifests \cup {NoManifest}
  /\ succeeded \subseteq 1 .. LastPhase /\ frozen \in BOOLEAN
  /\ policy \in Policies /\ pipelined \in BOOLEAN
  /\ tiers \subseteq tables /\ gaveUp \in BOOLEAN /\ skipped \in BOOLEAN

NewestWhole == IF Whole = {} THEN 0 ELSE Max(Whole)

\* Whatever file operation the process stops at, every committed tick is in
\* a complete snapshot or still in the journal file: the order of
\* write_checkpoint_snapshot (write, retention, truncation) and try_auto_
\* checkpoint, which must not truncate, never lose a commit.
Recoverable ==
  \A t \in 1 .. committed : t <= NewestWhole \/ t \in jfile

\* No step of a save, a retention, a failed call or a crash takes the newest
\* complete snapshot away: retention counts torn files too, yet deletes from
\* the oldest end.
RecoveryPointMonotone == [][NewestWhole' >= NewestWhole]_vars

\* A deployment that saves through SnapshotManager::save_snapshot (temporary
\* file and rename) can always read the snapshot that latest_snapshot names.
ManagerLatestReadable ==
  writer = "manager" => Latest = 0 \/ LatestReadable

\* When an application that stops at errors has a lifecycle with six completed
\* phases, every phase returned Ok, the first one excepted if skip_to_phase
\* was used (it marks phase 1 as current, and the next call completes it); the
\* registry is frozen, every table of the migrated manifest exists and has a
\* tier, the schema is at the target version, no table is an ancestor of
\* itself and, under Strict, the mods are those of the manifest passed on.
LoadIsComplete ==
  IsFinished /\ StopsOnError =>
    /\ succeeded = (IF skipped THEN 2 ELSE 1) .. LastPhase /\ frozen
    /\ pipelined => migrated.version = TargetVersion
    /\ Range(migrated.tables) \subseteq tables
    /\ NonAuthorityTables \subseteq Derived
    /\ LET edges == Range(migrated.relations) IN
         \A t \in Range(migrated.tables) :
           ~ \E n \in 1 .. Cardinality(edges) :
               \E walk \in [0 .. n -> Range(migrated.tables)] :
                 /\ walk[0] = t /\ walk[n] = t
                 /\ \A i \in 1 .. n : <<walk[i - 1], walk[i]>> \in edges
    /\ policy = "Strict" => finalMods \in {m.mods : m \in PassedOn}

\* "phase N+1 SHALL NOT begin until phase N has completed successfully"
\* (openspec/specs/save-system/spec.md:47): no phase returns Ok before those
\* that precede it have.
PhasesInOrder == \A p \in succeeded : 1 .. p - 1 \subseteq succeeded

\* "The final hash after replaying all diffs SHALL match the saved expected
\* hash exactly" (openspec/specs/save-system/spec.md:108): replay_diffs on the
\* latest snapshot and the save journal gives the hash of the live run.
ReplayMatchesLive ==
  up /\ call = Idle /\ LatestReadable =>
    ReplayDiffs(Latest, inner) = LiveHash(committed)

\* The same, while no append has failed after it pushed its record: every
\* record of the save journal is of a committed tick and the only one of it.
CleanReplayMatchesLive ==
  IsInjective(inner) /\ Range(inner) \subseteq 1 .. committed =>
    ReplayMatchesLive
=============================================================================
