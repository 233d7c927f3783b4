------------------------- MODULE LoadReconstruction -------------------------
(***************************************************************************)
(* LoadReconstruction (scharnhorst_save/src/load_reconstruction.rs): the   *)
(* six phases of a load, over LoadLifecycle (scharnhorst_content), the     *)
(* mod tolerance check, the migration pipeline and the relation graph.     *)
(*                                                                         *)
(* Phases are 1 .. 6 in the order of LoadPhase; 0 is "no current phase".   *)
(* Every phase calls lifecycle.advance() before anything else, so a call   *)
(* that fails later, or is made out of turn, has moved the lifecycle.      *)
(* A manifest is [version, tables, relations, mods]; what a migration step *)
(* does to the columns of a table is left out, that it may fail is not.    *)
(***************************************************************************)
EXTENDS RelationReach, SequencesExt, FiniteSetsExt

CONSTANTS
  TargetVersion,   \* MigrationPipeline::target_version
  Pipeline,        \* MigrationPipeline::steps, a sequence of [from, to]
  Critical,        \* ModToleranceChecker::critical_mods
  Derived,         \* the tables with_tier_registry brings in as Derived
  NoManifest       \* Option::None

ASSUME LoadAssumption ==
  /\ \A i \in DOMAIN Pipeline : DOMAIN Pipeline[i] = {"from", "to"}
  /\ IsFiniteSet(Critical)

VARIABLES
  current, completed, manifest, migrated, finalMods, frozen,  \* LoadLifecycle
  policy, pipelined,   \* the options this LoadReconstruction was built with
  tables,              \* the tables created in the ArrowStore
  tiers,               \* the tables registered as Authority
  succeeded            \* history: the phases whose call returned Ok

loadVars == <<current, completed, manifest, migrated, finalMods, frozen,
              policy, pipelined, tables, tiers, succeeded>>
outputs  == <<manifest, migrated, finalMods, frozen>>

LastPhase == 6

\* ModTolerancePolicy: Silent is Warn here, as phase 2 drops the outcome of
\* check() that would tell them apart.
Policies == {"Strict", "Warn"}

\* LoadReconstruction::new, LoadReconstructionBuilder::build, given an
\* ArrowStore that already has the tables in store.
Build(store, p, pipe) ==
  /\ current' = 0 /\ completed' = <<>> /\ manifest' = NoManifest
  /\ migrated' = NoManifest /\ finalMods' = {} /\ frozen' = FALSE
  /\ tables' = store /\ tiers' = {} /\ succeeded' = {}
  /\ policy' = p /\ pipelined' = pipe

LoadInit ==
  /\ current = 0 /\ completed = <<>> /\ manifest = NoManifest
  /\ migrated = NoManifest /\ finalMods = {} /\ frozen = FALSE
  /\ tables = {} /\ tiers = {} /\ succeeded = {}
  /\ policy = "Warn" /\ pipelined = FALSE

-----------------------------------------------------------------------------
(* ModToleranceChecker, FingerprintRegistry::compare                       *)

Ids(mods) == {m.id : m \in mods}

Missing(stored, available) == {m \in stored : m.id \notin Ids(available)}
Extra(stored, available)   == {m \in available : m.id \notin Ids(stored)}
Mismatched(stored, available) ==
  {m \in stored : \E a \in available : a.id = m.id /\ a.version # m.version}

\* Mutant: strict mode only compares the number of mods.
CountsOnly(stored, available) == Cardinality(available) # Cardinality(stored)

StrictRejects(stored, available) ==
  \/ Cardinality(available) # Cardinality(stored)
  \/ Missing(stored, available) # {}
  \/ Mismatched(stored, available) # {}

\* The error of check(), if any.
ToleranceError(stored, available) ==
  \/ Ids(Missing(stored, available)) \cap Critical # {}
  \/ policy = "Strict" /\ StrictRejects(stored, available)

\* final_mod_list: what is on disk wins over what was saved.
FinalModList(stored, available) ==
  available \cup Missing(stored, available)

-----------------------------------------------------------------------------
(* MigrationPipeline::apply                                                *)

\* The first registered step from a version, or none.
StepFrom(v) ==
  LET is == {i \in DOMAIN Pipeline : Pipeline[i].from = v}
  IN  IF is = {} THEN {} ELSE {Pipeline[Min(is)]}

\* The versions visited from v: at most Len(Pipeline) + 1 steps are applied.
Chain(v) ==
  LET next[n \in 0 .. Len(Pipeline) + 1] ==
        IF n = 0 THEN <<v>>
        ELSE LET sofar == next[n - 1]
                 steps == StepFrom(Last(sofar))
             IN  IF Last(sofar) = TargetVersion \/ steps = {} THEN sofar
                 ELSE Append(sofar, (CHOOSE s \in steps : TRUE).to)
  IN  next[Len(Pipeline) + 1]

Migrates(v) == Last(Chain(v)) = TargetVersion

\* The new manifest is built without the fingerprints and the metadata.
Migrated(m) ==
  IF pipelined THEN [m EXCEPT !.version = TargetVersion, !.mods = {}] ELSE m

-----------------------------------------------------------------------------
(* RelationGraph                                                           *)

\* would_create_cycle(from, to): a worklist from `to` that looks for `from`.
WouldCreateCycle(edges, e) == e[1] \in Reached(edges, e[2])

\* add_edge for every relation of the manifest, in order.
GraphAccepts(relations) ==
  \A i \in DOMAIN relations :
    LET edges == Range(SubSeq(relations, 1, i - 1)) IN
      relations[i] \notin edges /\ ~WouldCreateCycle(edges, relations[i])

-----------------------------------------------------------------------------
(* LoadLifecycle                                                           *)

\* advance(): refused after the last phase, and when the current phase is
\* already among the completed ones.
CanAdvance == current < LastPhase /\ current \notin Range(completed)

Advance ==
  /\ CanAdvance
  /\ current' = current + 1
  /\ completed' = IF current = 0 THEN completed ELSE Append(completed, current)

\* The call of a phase out of turn: InvalidPhaseTransition, after advance().
WrongPhase(p) ==
  /\ Advance
  /\ current + 1 # p
  /\ UNCHANGED <<outputs, policy, pipelined, tables, tiers, succeeded>>

Succeed(p) == succeeded' = succeeded \cup {p}

\* A phase whose work fails after advance().
Fail(p) ==
  /\ Advance /\ current + 1 = p
  /\ UNCHANGED <<outputs, policy, pipelined, tables, tiers, succeeded>>

Enter(p) == Advance /\ current + 1 = p /\ Succeed(p)

\* start_phase, for recovery: forward only, and nothing is completed.
SkipToPhase(p) ==
  /\ current = 0 \/ current < p
  /\ current' = p
  /\ UNCHANGED <<completed, outputs, policy, pipelined, tables, tiers,
                 succeeded>>

-----------------------------------------------------------------------------
(* The six phases                                                          *)

\* latest is the manifest of the latest snapshot, NoManifest if there is no
\* snapshot or it cannot be read.
SnapshotDeserialize(latest) ==
  \/ /\ latest # NoManifest
     /\ Enter(1)
     /\ manifest' = latest
     /\ UNCHANGED <<migrated, finalMods, frozen, policy, pipelined, tables,
                    tiers>>
  \/ latest = NoManifest /\ Fail(1)

ModCoordination(stored, available) ==
  \/ /\ ~ToleranceError(stored, available)
     /\ Enter(2)
     /\ finalMods' = FinalModList(stored, available)
     /\ UNCHANGED <<manifest, migrated, frozen, policy, pipelined, tables, tiers>>
  \/ ToleranceError(stored, available) /\ Fail(2)

\* m is the argument of the caller.
SchemaMigration(m) ==
  \/ /\ pipelined => Migrates(m.version)
     /\ Enter(3)
     /\ migrated' = Migrated(m)
     /\ UNCHANGED <<manifest, finalMods, frozen, policy, pipelined, tables, tiers>>
  \* no path, a cycle, or a step that fails
  \/ pipelined /\ m.version # TargetVersion /\ Fail(3)

\* create_table and the registration of the tier for each table in turn.  A
\* table that the store already has, or whose columns it does not support, is
\* an error and the rest is not created.  A tier registered before stays.
Created(new) ==
  /\ tables' = tables \cup new
  /\ tiers' = tiers \cup (new \ Derived)

ContentCompilation ==
  \/ /\ migrated # NoManifest /\ GraphAccepts(migrated.relations)
     /\ Range(migrated.tables) \cap tables = {}
     /\ Enter(4)
     /\ Created(Range(migrated.tables))
     /\ UNCHANGED <<outputs, policy, pipelined>>
  \/ /\ migrated # NoManifest => ~GraphAccepts(migrated.relations)
     /\ Fail(4)
  \/ /\ migrated # NoManifest /\ GraphAccepts(migrated.relations)
     /\ \E n \in 0 .. Len(migrated.tables) - 1 :
          LET made == Range(SubSeq(migrated.tables, 1, n)) IN
            /\ made \cap tables = {}
            /\ Advance /\ current + 1 = 4
            /\ Created(made)
     /\ UNCHANGED <<outputs, policy, pipelined, succeeded>>

SchemaFreeze ==
  /\ Enter(5)
  /\ frozen' = TRUE
  /\ UNCHANGED <<manifest, migrated, finalMods, policy, pipelined, tables, tiers>>

\* finish() completes the last phase and clears the current one.
SimulationStart ==
  /\ CanAdvance /\ current + 1 = LastPhase
  /\ completed' = LET c == Append(completed, current) IN
                    IF LastPhase \in Range(c) THEN c ELSE Append(c, LastPhase)
  /\ current' = 0
  /\ Succeed(6)
  /\ UNCHANGED <<outputs, policy, pipelined, tables, tiers>>

IsFinished == Len(completed) = LastPhase

\* non_authority_tables: to be rebuilt or initialised after the load.
NonAuthorityTables == Range(migrated.tables) \ tiers
=============================================================================
