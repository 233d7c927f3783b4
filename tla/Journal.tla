------------------------------ MODULE Journal -------------------------------
(***************************************************************************)
(* Journal::commit (scharnhorst_journal/src/journal.rs) driving the        *)
(* ArrowStore, the QueryEngine's staged snapshot ingestion and the save    *)
(* journal, one step per point at which another thread can look at what    *)
(* has been written so far.                                                *)
(*                                                                         *)
(* The journal itself is behind the scheduler's mutex, so submissions and  *)
(* commits never interleave; the query engine and the store are shared     *)
(* (Arc) and are read at any time.  Not modelled: poisoned locks, and the  *)
(* state hash of a record, which is a function of its diffs.               *)
(***************************************************************************)
EXTENDS ArrowTable, FiniteSets

CONSTANTS
  Table,              \* the tables created in the store
  TableName,          \* the names a diff may use, created or not
  DiffInput,          \* the diffs submitted to the journal
  Command,            \* the commands submitted to the journal
  MaxHistory,         \* MAX_COMMIT_HISTORY
  Threshold,          \* RetentionPolicy::auto_checkpoint_threshold
  MaxDiffs,           \* bound: length of the pending diff queue
  MaxCommands,        \* bound: length of the pending command queue
  MaxAttempts         \* bound: snapshots generated, over all commit attempts

ASSUME JournalAssumption ==
  /\ Table \subseteq TableName
  /\ DiffInput \subseteq DiffsOn(TableName)
  /\ MaxHistory \in Nat \ {0}
  /\ Threshold \in Nat
  /\ MaxDiffs \in Nat /\ MaxCommands \in Nat
  /\ MaxAttempts \in Nat

VARIABLES
  \* Journal
  tick, pendingDiffs, pendingCommands, history,
  \* CheckpointingSaveJournal: its records and entries since the last reset
  saveJournal, entries,
  \* locals of the running commit()
  pc,          \* the next step of commit(), "idle" when none is running
  txn,         \* the diffs and commands taken from the queues
  nextDiff,    \* index of the next diff to apply
  saved,       \* versions of the touched tables before the commit
  \* ArrowStore
  tables, snapshots, generation,
  \* QueryEngine
  registered, cache, latestTick, latestSnapshot, pendingIngest,
  undo         \* QueryEngineIngestRollback of the running commit

journalVars == <<tick, pendingDiffs, pendingCommands, history>>
saveVars    == <<saveJournal, entries>>
txnVars     == <<txn, nextDiff, saved>>
storeVars   == <<tables, snapshots, generation>>
viewVars    == <<cache, latestTick, latestSnapshot>>
vars == <<journalVars, saveVars, pc, txnVars, storeVars,
          registered, viewVars, pendingIngest, undo>>

-----------------------------------------------------------------------------
NoTick == MaxTick + 1              \* u64::MAX, one above Tick::MAX

Envelope == [command : Command, tick : Ticks]
Record   == [tick : Ticks, diffs : Seq(DiffInput), commands : Seq(Envelope)]
Txn      == [diffs : Seq(DiffInput), commands : Seq(Envelope)]

View   == [tick : Ticks \cup {NoTick}, batches : Batches, positions : [RowId -> Position]]
NoView == [tick |-> NoTick, batches |-> <<>>,
           positions |-> [r \in RowId |-> NoPosition]]

Snapshot   == [tick : Ticks \cup {NoTick}, tables : [Table -> TableState]]
NoSnapshot == [tick |-> NoTick, tables |-> [t \in Table |-> EmptyTable]]

\* The staged views; `staged` are the tables ingested so far.
Ingest   == [active : BOOLEAN, staged : SUBSET Table, views : [Table -> View]]
NoIngest == [active |-> FALSE, staged |-> {}, views |-> [t \in Table |-> NoView]]

\* What readers are served, and what a rollback token holds.
Published == [tick : Ticks \cup {NoTick}, cache : [Table -> View], snapshot : Snapshot]
published == [tick |-> latestTick, cache |-> cache, snapshot |-> latestSnapshot]
NothingPublished == [tick |-> NoTick, cache |-> [t \in Table |-> NoView],
                     snapshot |-> NoSnapshot]

Step == {"idle", "apply", "begin", "ingest", "publishSnapshot", "publishTick",
         "append", "rollbackCache", "rollbackSnapshot", "rollbackTick", "restore"}

Touched(diffs) == {diffs[i].table : i \in DOMAIN diffs}

EmptyTxn == [diffs |-> <<>>, commands |-> <<>>]
NoSaved  == [t \in Table |-> EmptyTable.versions]

Init ==
  /\ tick = 0 /\ pendingDiffs = <<>> /\ pendingCommands = <<>> /\ history = <<>>
  /\ saveJournal = <<>> /\ entries = 0
  /\ pc = "idle" /\ txn = EmptyTxn /\ nextDiff = 1
  /\ saved = NoSaved
  /\ tables = [t \in Table |-> EmptyTable]
  /\ snapshots = [t \in Ticks |-> NoSnapshot] /\ generation = 0
  /\ registered \in SUBSET Table
  /\ cache = [t \in Table |-> NoView]
  /\ latestTick = NoTick /\ latestSnapshot = NoSnapshot
  /\ pendingIngest = NoIngest
  /\ undo = NothingPublished

-----------------------------------------------------------------------------
(* Submissions: refused unless the phase is Open.                          *)

SubmitDiff(d) ==
  /\ pc = "idle" /\ Len(pendingDiffs) < MaxDiffs
  /\ pendingDiffs' = Append(pendingDiffs, d)
  /\ UNCHANGED <<tick, pendingCommands, history, saveVars, pc, txnVars, storeVars,
                 registered, viewVars, pendingIngest, undo>>

\* An envelope stamped with any other tick is refused with InvalidTick.
SubmitCommand(c) ==
  /\ pc = "idle" /\ Len(pendingCommands) < MaxCommands
  /\ pendingCommands' = Append(pendingCommands, [command |-> c, tick |-> tick])
  /\ UNCHANGED <<tick, pendingDiffs, history, saveVars, pc, txnVars, storeVars,
                 registered, viewVars, pendingIngest, undo>>

ClearPending ==
  /\ pc = "idle"
  /\ pendingDiffs' = <<>> /\ pendingCommands' = <<>>
  /\ UNCHANGED <<tick, history, saveVars, pc, txnVars, storeVars,
                 registered, viewVars, pendingIngest, undo>>

\* QueryEngine::register_table_schema, on a registry that is not frozen.
RegisterTableSchema(t) ==
  /\ t \notin registered
  /\ registered' = registered \cup {t}
  /\ UNCHANGED <<journalVars, saveVars, pc, txnVars, storeVars, viewVars,
                 pendingIngest, undo>>

-----------------------------------------------------------------------------
(* commit()                                                                *)

BeginCommit ==
  /\ pc = "idle" /\ tick < MaxTick /\ generation < MaxAttempts
  /\ txn' = [diffs |-> pendingDiffs, commands |-> pendingCommands]
  /\ pendingDiffs' = <<>> /\ pendingCommands' = <<>>
  /\ saved' = [t \in Table |-> IF t \in Touched(pendingDiffs)
                               THEN tables[t].versions ELSE NoSaved[t]]
  /\ nextDiff' = 1
  /\ pc' = "apply"
  /\ UNCHANGED <<tick, history, saveVars, storeVars, registered, viewVars,
                 pendingIngest, undo>>

\* Mutant: an error path that forgets restore_table_versions.
RestoreNothing(tbs) == tbs

\* restore_table_versions: the batches of the touched tables, nothing else.
RestoreVersions(tbs) ==
  [t \in Table |-> IF t \in Touched(txn.diffs)
                   THEN [tbs[t] EXCEPT !.versions = saved[t]] ELSE tbs[t]]

\* The locals of commit() go out of scope.
Return == txn' = EmptyTxn /\ nextDiff' = 1 /\ saved' = NoSaved /\ undo' = NothingPublished

\* Mutant: the commands taken are not put back.
ReopenDroppingCommands(tbs) ==
  /\ tables' = RestoreVersions(tbs)
  /\ pendingDiffs' = txn.diffs /\ pendingCommands' = <<>>
  /\ Return
  /\ pc' = "idle"

\* Mutant: the phase is left at Committing.
ReopenStillCommitting(tbs) ==
  /\ tables' = RestoreVersions(tbs)
  /\ pendingDiffs' = txn.diffs /\ pendingCommands' = txn.commands
  /\ Return
  /\ pc' = "restore"

\* The tail of every error path: the queues get back what was taken and the
\* phase returns to Open.
Reopen(tbs) ==
  /\ tables' = RestoreVersions(tbs)
  /\ pendingDiffs' = txn.diffs /\ pendingCommands' = txn.commands
  /\ Return
  /\ pc' = "idle"

NextDiff == txn.diffs[nextDiff]
NextOutcome == ApplyDiff(tables[NextDiff.table], tick, NextDiff)

ApplyNextDiff ==
  /\ pc = "apply" /\ nextDiff <= Len(txn.diffs)
  /\ NextDiff.table \in Table /\ NextOutcome.ok
  /\ tables' = [tables EXCEPT ![NextDiff.table] = NextOutcome.table]
  /\ nextDiff' = nextDiff + 1
  /\ UNCHANGED <<journalVars, saveVars, pc, txn, saved, snapshots, generation,
                 registered, viewVars, pendingIngest, undo>>

\* TableNotFound: nothing of this diff was applied.
MissingTable ==
  /\ pc = "apply" /\ nextDiff <= Len(txn.diffs)
  /\ NextDiff.table \notin Table
  /\ Reopen(tables)
  /\ UNCHANGED <<tick, history, saveVars, snapshots, generation,
                 registered, viewVars, pendingIngest>>

RejectedDiff ==
  /\ pc = "apply" /\ nextDiff <= Len(txn.diffs)
  /\ NextDiff.table \in Table /\ ~NextOutcome.ok
  /\ Reopen([tables EXCEPT ![NextDiff.table] = NextOutcome.table])
  /\ UNCHANGED <<tick, history, saveVars, snapshots, generation,
                 registered, viewVars, pendingIngest>>

GenerateSnapshot ==
  /\ pc = "apply" /\ nextDiff > Len(txn.diffs)
  /\ generation' = generation + 1
  /\ snapshots' = [snapshots EXCEPT ![tick] = [tick |-> tick, tables |-> tables]]
  /\ pc' = "begin"
  /\ UNCHANGED <<journalVars, saveVars, txnVars, tables, registered, viewVars,
                 pendingIngest, undo>>

\* begin_ingest: the rollback token and an empty pending ingest, or "query
\* ingest already active" if one was left pending.
BeginIngest ==
  /\ pc = "begin"
  /\ IF pendingIngest.active
     THEN /\ Reopen(tables)
          /\ UNCHANGED <<tick, history, snapshots, generation, pendingIngest>>
     ELSE /\ undo' = published
          /\ pendingIngest' = [NoIngest EXCEPT !.active = TRUE]
          /\ pc' = "ingest"
          /\ UNCHANGED <<journalVars, txnVars, storeVars>>
  /\ UNCHANGED <<saveVars, registered, viewVars>>

\* Mutant: the branch of ingest_snapshot for when no ingest is pending.
IngestUnstaged(t) ==
  /\ pc = "ingest" /\ t \notin pendingIngest.staged
  /\ t \in registered
  /\ cache' = [cache EXCEPT ![t] = [tick |-> tick,
                                   batches |-> tables[t].versions[tick],
                                   positions |-> tables[t].positions]]
  /\ latestTick' = tick
  /\ pendingIngest' = [pendingIngest EXCEPT !.staged = @ \cup {t},
                                           !.views = [@ EXCEPT ![t] = cache'[t]]]
  /\ UNCHANGED <<journalVars, saveVars, pc, txnVars, storeVars, registered,
                 latestSnapshot, undo>>

\* One table of snapshot.table_names(), a HashMap iteration: any order.
IngestTable(t) ==
  /\ pc = "ingest" /\ t \notin pendingIngest.staged
  /\ t \in registered
  /\ pendingIngest' = [pendingIngest EXCEPT
        !.staged = @ \cup {t},
        !.views = [@ EXCEPT ![t] = [tick |-> tick,
                                    batches |-> tables[t].versions[tick],
                                    positions |-> tables[t].positions]]]
  /\ UNCHANGED <<journalVars, saveVars, pc, txnVars, storeVars, registered,
                 viewVars, undo>>

UnknownSchema(t) ==
  /\ pc = "ingest" /\ t \notin pendingIngest.staged
  /\ t \notin registered
  /\ pc' = "rollbackCache"
  /\ UNCHANGED <<journalVars, saveVars, txnVars, storeVars, registered, viewVars,
                 pendingIngest, undo>>

\* store_world_snapshot: take the staged views and swap the cache, then the
\* snapshot, then the tick.
PublishCache ==
  /\ pc = "ingest" /\ pendingIngest.staged = Table
  /\ cache' = pendingIngest.views
  /\ pendingIngest' = NoIngest
  /\ pc' = "publishSnapshot"
  /\ UNCHANGED <<journalVars, saveVars, txnVars, storeVars, registered,
                 latestTick, latestSnapshot, undo>>

PublishSnapshot ==
  /\ pc = "publishSnapshot"
  /\ latestSnapshot' = snapshots[tick]
  /\ pc' = "publishTick"
  /\ UNCHANGED <<journalVars, saveVars, txnVars, storeVars, registered, cache,
                 latestTick, pendingIngest, undo>>

PublishTick ==
  /\ pc = "publishTick"
  /\ latestTick' = tick
  /\ pc' = "append"
  /\ UNCHANGED <<journalVars, saveVars, txnVars, storeVars, registered, cache,
                 latestSnapshot, pendingIngest, undo>>

CommitRecord == [tick |-> tick, diffs |-> txn.diffs, commands |-> txn.commands]

\* Mutant: the bound tested before the push admits one record too many.
PushOneTooMany(h, rec) ==
  IF Len(h) > MaxHistory THEN Append(Tail(h), rec) ELSE Append(h, rec)

PushBounded(h, rec) ==
  IF Len(h) >= MaxHistory THEN Append(Tail(h), rec) ELSE Append(h, rec)

\* Mutant: the auto-checkpoint truncates the journal with no covering snapshot.
FinishCommitTruncating ==
  /\ pc = "append"
  /\ saveJournal' = IF entries + 1 >= Threshold THEN <<>>
                    ELSE Append(saveJournal, CommitRecord)
  /\ entries' = IF entries + 1 >= Threshold THEN 0 ELSE entries + 1
  /\ history' = PushBounded(history, CommitRecord)
  /\ tick' = tick + 1
  /\ Return
  /\ pc' = "idle"
  /\ UNCHANGED <<pendingDiffs, pendingCommands, storeVars, registered,
                 viewVars, pendingIngest>>

\* append() returns Ok; the record enters the history and the tick advances.
FinishCommit ==
  /\ pc = "append"
  /\ saveJournal' = Append(saveJournal, CommitRecord)
  /\ entries' = IF entries + 1 >= Threshold THEN 0 ELSE entries + 1
  /\ history' = PushBounded(history, CommitRecord)
  /\ tick' = tick + 1
  /\ Return
  /\ pc' = "idle"
  /\ UNCHANGED <<pendingDiffs, pendingCommands, storeVars, registered,
                 viewVars, pendingIngest>>

\* append() pushes the record, then its auto-checkpoint fails on I/O.
AppendFails ==
  /\ pc = "append" /\ entries + 1 >= Threshold
  /\ saveJournal' = Append(saveJournal, CommitRecord)
  /\ entries' = entries + 1
  /\ pc' = "rollbackCache"
  /\ UNCHANGED <<journalVars, txnVars, storeVars, registered, viewVars,
                 pendingIngest, undo>>

\* Mutant: the rollback leaves the views of the failed commit in the cache.
RollbackCacheKept ==
  /\ pc = "rollbackCache"
  /\ pc' = "rollbackSnapshot"
  /\ UNCHANGED <<journalVars, saveVars, txnVars, storeVars, registered, viewVars,
                 pendingIngest, undo>>

\* QueryEngineIngestRollback::rollback: cache, snapshot, pending ingest and
\* tick, in this order and each under its own lock.
RollbackCache ==
  /\ pc = "rollbackCache"
  /\ cache' = undo.cache
  /\ pc' = "rollbackSnapshot"
  /\ UNCHANGED <<journalVars, saveVars, txnVars, storeVars, registered,
                 latestTick, latestSnapshot, pendingIngest, undo>>

\* Mutant: the rollback leaves the snapshot of the failed commit published.
RollbackNoSnapshot ==
  /\ pc = "rollbackSnapshot"
  /\ pc' = "rollbackTick"
  /\ UNCHANGED <<journalVars, saveVars, txnVars, storeVars, registered, viewVars,
                 pendingIngest, undo>>

RollbackSnapshot ==
  /\ pc = "rollbackSnapshot"
  /\ latestSnapshot' = undo.snapshot
  /\ pc' = "rollbackTick"
  /\ UNCHANGED <<journalVars, saveVars, txnVars, storeVars, registered, cache,
                 latestTick, pendingIngest, undo>>

\* Mutant: the rollback forgets the pending ingest.
RollbackTickOnly ==
  /\ pc = "rollbackTick"
  /\ latestTick' = undo.tick
  /\ pc' = "restore"
  /\ UNCHANGED <<journalVars, saveVars, txnVars, storeVars, registered, cache,
                 latestSnapshot, pendingIngest, undo>>

RollbackTick ==
  /\ pc = "rollbackTick"
  /\ pendingIngest' = NoIngest
  /\ latestTick' = undo.tick
  /\ pc' = "restore"
  /\ UNCHANGED <<journalVars, saveVars, txnVars, storeVars, registered, cache,
                 latestSnapshot, undo>>

RestoreStore ==
  /\ pc = "restore"
  /\ Reopen(tables)
  /\ UNCHANGED <<tick, history, saveVars, snapshots, generation,
                 registered, viewVars, pendingIngest>>

CommitStep ==
  \/ ApplyNextDiff \/ MissingTable \/ RejectedDiff
  \/ GenerateSnapshot \/ BeginIngest
  \/ \E t \in Table : IngestTable(t) \/ UnknownSchema(t)
  \/ PublishCache \/ PublishSnapshot \/ PublishTick
  \/ FinishCommit \/ AppendFails
  \/ RollbackCache \/ RollbackSnapshot \/ RollbackTick \/ RestoreStore

Next ==
  \/ \E d \in DiffInput : SubmitDiff(d)
  \/ \E c \in Command : SubmitCommand(c)
  \/ ClearPending
  \/ \E t \in Table : RegisterTableSchema(t)
  \/ BeginCommit
  \/ CommitStep

Spec == Init /\ [][Next]_vars

\* commit() runs on its caller's thread to completion: every step it can take
\* is taken.  Nothing is assumed of the callers, nor of the I/O.
FairSpec == Spec /\ WF_vars(CommitStep)

-----------------------------------------------------------------------------
(* Properties                                                              *)

TypeOK ==
  /\ tick \in Ticks
  /\ pendingDiffs \in Seq(DiffInput) /\ pendingCommands \in Seq(Envelope)
  /\ history \in Seq(Record) /\ saveJournal \in Seq(Record) /\ entries \in Nat
  /\ pc \in Step /\ txn \in Txn /\ nextDiff \in Nat \ {0}
  /\ saved \in [Table -> [Ticks -> Batches]]
  /\ tables \in [Table -> TableState]
  /\ snapshots \in [Ticks -> Snapshot] /\ generation \in Nat
  /\ registered \in SUBSET Table
  /\ cache \in [Table -> View] /\ latestTick \in Ticks \cup {NoTick}
  /\ latestSnapshot \in Snapshot
  /\ pendingIngest \in Ingest /\ undo \in Published

\* The in-memory history holds the records of consecutive ticks, the last one
\* of the tick before the open one, at most MAX_COMMIT_HISTORY of them, and
\* every command in a record was stamped with the record's own tick - over any
\* sequence of submissions, failed commits, clears and retries.
HistoryConsecutive ==
  /\ Len(history) <= MaxHistory
  /\ tick > 0 => history # <<>>
  /\ \A i \in DOMAIN history :
       /\ history[i].tick + (Len(history) - i) + 1 = tick
       /\ \A j \in DOMAIN history[i].commands :
            history[i].commands[j].tick = history[i].tick

\* The view of a table that a snapshot of the store defines.
ViewOf(snap, t) ==
  [tick |-> snap.tick, batches |-> snap.tables[t].versions[snap.tick],
   positions |-> snap.tables[t].positions]

\* When no commit is running, the query engine serves exactly the last
\* committed tick: latest_tick, the snapshot and every cached view agree with
\* one another and with the store's snapshot of that tick, however many commits
\* failed after it and at whichever step.
PublishedIsLastCommit ==
  pc = "idle" =>
    IF tick = 0
    THEN published = NothingPublished
    ELSE /\ latestTick = tick - 1
         /\ latestSnapshot = snapshots[tick - 1]
         /\ \A t \in Table : cache[t] = ViewOf(latestSnapshot, t)

\* When no commit is running, the batches of every table are the ones of the
\* last committed snapshot: apply_diffs, save_table_versions and
\* restore_table_versions together leave no trace of a failed commit in them.
BatchesAtLastCommit ==
  pc = "idle" =>
    \A t \in Table :
      tables[t].versions = IF tick = 0 THEN EmptyTable.versions
                                       ELSE latestSnapshot.tables[t].versions

\* The same of the position maps, through which every diff and every lookup
\* finds its row.
PositionsAtLastCommit ==
  pc = "idle" =>
    \A t \in Table :
      tables[t].positions = IF tick = 0 THEN EmptyTable.positions
                                        ELSE latestSnapshot.tables[t].positions

\* For every tick in the history, the last record the save journal holds for
\* that tick is the committed one, and the save journal's ticks never decrease:
\* a reader that keeps the last record per tick recovers the history.
SaveJournalCoversHistory ==
  /\ \A j \in DOMAIN saveJournal, k \in DOMAIN saveJournal :
       j <= k => saveJournal[j].tick <= saveJournal[k].tick
  /\ \A i \in DOMAIN history : \E j \in DOMAIN saveJournal :
       /\ saveJournal[j] = history[i]
       /\ \A k \in DOMAIN saveJournal :
            saveJournal[k].tick = history[i].tick => k <= j

\* No failure leaves an ingest pending: begin_ingest never answers "query ingest
\* already active", which would fail every later commit.
IngestNeverRefused == pc = "begin" => ~pendingIngest.active

\* lookup_row on what is published: every RowId a view's position map holds is
\* found in that view's own batches, in a row with that key.
LookupFindsRow ==
  \A t \in Table, r \in RowId :
    LET row == RowAt(cache[t].batches, cache[t].positions[r]) IN
      cache[t].positions[r] # NoPosition => row # Null /\ row.id = r

\* A commit that has begun always returns, successfully or not, to Open: no
\* failure leaves the journal in Committing or an ingest pending for good.
CommitTerminates == (pc # "idle") ~> (pc = "idle")

-----------------------------------------------------------------------------
(* The commit cycle implements AtomicJournal.  While a commit runs, the    *)
(* abstract queues still hold what was taken, the abstract batches are the *)
(* saved ones and readers are still promised the state in the rollback     *)
(* token.                                                                  *)

ingesting == pc \notin {"idle", "apply", "begin"}

atomicDiffs     == IF pc = "idle" THEN pendingDiffs ELSE txn.diffs
atomicCommands  == IF pc = "idle" THEN pendingCommands ELSE txn.commands
atomicVersions  == [t \in Table |-> IF pc # "idle" /\ t \in Touched(txn.diffs)
                                    THEN saved[t] ELSE tables[t].versions]
atomicPublished == IF ingesting THEN undo ELSE published

AJ == INSTANCE AtomicJournal WITH
        Diff <- DiffInput, pendingDiffs <- atomicDiffs,
        pendingCommands <- atomicCommands, versions <- atomicVersions,
        published <- atomicPublished

\* Seen when no commit is running, Journal::commit is atomic: it turns the
\* pending queues into one record, advances the tick by one and publishes that
\* tick, or it changes nothing.
ImplementsAtomicJournal == AJ!Spec
=============================================================================
