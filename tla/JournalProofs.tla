---------------------------- MODULE JournalProofs ---------------------------
(***************************************************************************)
(* Proofs about Journal, and about the threads that read beside it         *)
(* (QueryReaders), for every set of tables, every set of diffs, every      *)
(* number of readers and every bound.                                      *)
(***************************************************************************)
EXTENDS QueryReaders, ArrowTableProofs

\* The initial values of the store and of the query engine are well formed.
LEMMA EmptyTypes ==
  /\ EmptyTable \in TableState
  /\ NoView \in View /\ NoSnapshot \in Snapshot
  /\ NoIngest \in Ingest /\ NothingPublished \in Published
  /\ EmptyTxn \in Txn /\ NoSaved \in [Table -> [Ticks -> Batches]]
<1>1. EmptyTable \in TableState
  BY ArrowTableAssumption
     DEF EmptyTable, TableState, Batches, Position, NoPosition, IndexEntry, NoEntry, Ticks
<1>2. NoView \in View
  BY DEF NoView, View, Batches, Position, NoPosition
<1>3. NoSnapshot \in Snapshot
  BY <1>1 DEF NoSnapshot, Snapshot
<1>4. NoIngest \in Ingest
  BY <1>2 DEF NoIngest, Ingest
<1>5. NothingPublished \in Published
  BY <1>2, <1>3 DEF NothingPublished, Published
<1>6. EmptyTxn \in Txn
  BY DEF EmptyTxn, Txn
<1>7. NoSaved \in [Table -> [Ticks -> Batches]]
  BY <1>1 DEF NoSaved, TableState
<1> QED  BY <1>1, <1>2, <1>3, <1>4, <1>5, <1>6, <1>7

\* The bounded history keeps its type, and its last entry is the new record.
LEMMA PushBoundedType ==
  ASSUME NEW h \in Seq(Record), NEW rec \in Record
  PROVE  PushBounded(h, rec) \in Seq(Record)
<1>1. CASE Len(h) >= MaxHistory
  <2>1. h # <<>>
    BY <1>1, JournalAssumption
  <2>2. Tail(h) \in Seq(Record)
    BY <2>1, HeadTailProperties
  <2> QED  BY <1>1, <2>2 DEF PushBounded
<1>2. CASE ~(Len(h) >= MaxHistory)
  BY <1>2 DEF PushBounded
<1> QED  BY <1>1, <1>2

\* The store a failed commit leaves behind, whatever it had applied.
LEMMA ReopenType ==
  ASSUME TypeOK, NEW tbs \in [Table -> TableState], Reopen(tbs)
  PROVE  /\ tables' \in [Table -> TableState]
         /\ pendingDiffs' \in Seq(DiffInput) /\ pendingCommands' \in Seq(Envelope)
         /\ pc' \in Step /\ txn' \in Txn /\ nextDiff' \in Nat \ {0}
         /\ saved' \in [Table -> [Ticks -> Batches]] /\ undo' \in Published
<1>1. RestoreVersions(tbs) \in [Table -> TableState]
  BY DEF TypeOK, RestoreVersions, TableState
<1> QED  BY <1>1, EmptyTypes DEF TypeOK, Reopen, Return, Txn, Step

\* The diff being applied, and what it makes of its table.
LEMMA NextOutcomeType ==
  ASSUME TypeOK, nextDiff <= Len(txn.diffs), NextDiff.table \in Table
  PROVE  /\ NextDiff \in DiffInput
         /\ NextDiff.table \in Touched(txn.diffs)
         /\ NextOutcome \in Outcome
<1>1. txn.diffs \in Seq(DiffInput) /\ nextDiff \in DOMAIN txn.diffs
  BY DEF TypeOK, Txn
<1>2. NextDiff \in DiffInput
  BY <1>1 DEF NextDiff
<1>3. NextDiff.table \in Touched(txn.diffs)
  BY <1>1 DEF NextDiff, Touched
<1>4. NextDiff \in DiffsOn(TableName)
  BY <1>2, JournalAssumption
<1>5. tables[NextDiff.table] \in TableState /\ tick \in Ticks
  BY DEF TypeOK
<1>6. NextOutcome \in Outcome
  BY <1>4, <1>5, ApplyDiffOutcome DEF NextOutcome
<1> QED  BY <1>2, <1>3, <1>6

-----------------------------------------------------------------------------
(* Type correctness.  Not inductive by itself: the tick a commit advances  *)
(* must still be within bounds when the commit ends, as it was when it     *)
(* began.                                                                  *)

RoomToAdvance == pc # "idle" => tick < MaxTick
TypeInv == TypeOK /\ RoomToAdvance

\* The initial state is well typed.
LEMMA InitTypeInv == Init => TypeInv
<1> SUFFICES ASSUME Init PROVE TypeInv
  OBVIOUS
<1>1. tick \in Ticks
  BY ArrowTableAssumption DEF Init, Ticks
<1>2. tables \in [Table -> TableState] /\ snapshots \in [Ticks -> Snapshot]
  BY EmptyTypes DEF Init
<1>3. cache \in [Table -> View] /\ latestTick \in Ticks \cup {NoTick}
  BY EmptyTypes DEF Init
<1>4. txn \in Txn /\ saved \in [Table -> [Ticks -> Batches]] /\ undo \in Published
  BY EmptyTypes DEF Init
<1>5. latestSnapshot \in Snapshot /\ pendingIngest \in Ingest
  BY EmptyTypes DEF Init
<1> QED  BY <1>1, <1>2, <1>3, <1>4, <1>5 DEF Init, TypeInv, TypeOK, RoomToAdvance, Step

\* Every step of every operation keeps the state well typed.
LEMMA NextTypeOK == TypeInv /\ [Next]_vars => TypeOK'
<1> SUFFICES ASSUME TypeOK, RoomToAdvance, [Next]_vars PROVE TypeOK'
  BY DEF TypeInv
<1> USE DEF vars, journalVars, saveVars, txnVars, storeVars, viewVars
<1>1. ASSUME NEW d \in DiffInput, SubmitDiff(d) PROVE TypeOK'
  BY <1>1 DEF SubmitDiff, TypeOK
<1>2. ASSUME NEW c \in Command, SubmitCommand(c) PROVE TypeOK'
  <2>1. [command |-> c, tick |-> tick] \in Envelope
    BY <1>2 DEF TypeOK, Envelope
  <2> QED  BY <1>2, <2>1 DEF SubmitCommand, TypeOK
<1>3. CASE ClearPending
  BY <1>3 DEF ClearPending, TypeOK
<1>4. ASSUME NEW t \in Table, RegisterTableSchema(t) PROVE TypeOK'
  BY <1>4 DEF RegisterTableSchema, TypeOK
<1>5. CASE BeginCommit
  <2>1. txn' \in Txn
    BY <1>5 DEF BeginCommit, TypeOK, Txn
  <2>2. saved' \in [Table -> [Ticks -> Batches]]
    BY <1>5, EmptyTypes DEF BeginCommit, TypeOK, TableState
  <2> QED  BY <1>5, <2>1, <2>2 DEF BeginCommit, TypeOK, Step
<1>6. CASE ApplyNextDiff
  <2>1. NextOutcome.table \in TableState
    BY <1>6, NextOutcomeType DEF ApplyNextDiff, Outcome
  <2>2. tables' \in [Table -> TableState]
    BY <1>6, <2>1 DEF ApplyNextDiff, TypeOK
  <2>3. nextDiff' \in Nat \ {0}
    BY <1>6 DEF ApplyNextDiff, TypeOK
  <2> QED  BY <1>6, <2>2, <2>3 DEF ApplyNextDiff, TypeOK
<1>7. CASE MissingTable
  <2>1. tables \in [Table -> TableState] /\ Reopen(tables)
    BY <1>7 DEF MissingTable, TypeOK
  <2> QED  BY <1>7, <2>1, ReopenType DEF MissingTable, TypeOK
<1>8. CASE RejectedDiff
  <2> DEFINE tbs == [tables EXCEPT ![NextDiff.table] = NextOutcome.table]
  <2>1. NextOutcome.table \in TableState
    BY <1>8, NextOutcomeType DEF RejectedDiff, Outcome
  <2>2. tbs \in [Table -> TableState] /\ Reopen(tbs)
    BY <1>8, <2>1 DEF RejectedDiff, TypeOK
  <2> HIDE DEF tbs
  <2> QED  BY <1>8, <2>2, ReopenType DEF RejectedDiff, TypeOK
<1>9. CASE GenerateSnapshot
  <2>1. [tick |-> tick, tables |-> tables] \in Snapshot
    BY DEF TypeOK, Snapshot
  <2> QED  BY <1>9, <2>1 DEF GenerateSnapshot, TypeOK, Step
<1>10. CASE BeginIngest
  <2>1. CASE pendingIngest.active
    <3>1. tables \in [Table -> TableState] /\ Reopen(tables)
      BY <1>10, <2>1 DEF BeginIngest, TypeOK
    <3> QED  BY <1>10, <2>1, <3>1, ReopenType DEF BeginIngest, TypeOK
  <2>2. CASE ~pendingIngest.active
    <3>1. published \in Published
      BY DEF TypeOK, published, Published
    <3>2. [NoIngest EXCEPT !.active = TRUE] \in Ingest
      BY EmptyTypes DEF Ingest
    <3> QED  BY <1>10, <2>2, <3>1, <3>2 DEF BeginIngest, TypeOK, Step
  <2> QED  BY <2>1, <2>2
<1>11. ASSUME NEW t \in Table, IngestTable(t) PROVE TypeOK'
  <2>1. [tick |-> tick, batches |-> tables[t].versions[tick],
         positions |-> tables[t].positions] \in View
    BY DEF TypeOK, View, TableState
  <2>2. pendingIngest' \in Ingest
    BY <1>11, <2>1 DEF IngestTable, TypeOK, Ingest
  <2> QED  BY <1>11, <2>2 DEF IngestTable, TypeOK
<1>12. ASSUME NEW t \in Table, UnknownSchema(t) PROVE TypeOK'
  BY <1>12 DEF UnknownSchema, TypeOK, Step
<1>13. CASE PublishCache
  <2>1. cache' \in [Table -> View] /\ pendingIngest' \in Ingest
    BY <1>13, EmptyTypes DEF PublishCache, TypeOK, Ingest
  <2> QED  BY <1>13, <2>1 DEF PublishCache, TypeOK, Step
<1>14. CASE PublishSnapshot
  BY <1>14 DEF PublishSnapshot, TypeOK, Step
<1>15. CASE PublishTick
  BY <1>15 DEF PublishTick, TypeOK, Step
<1>16. CASE FinishCommit
  <2>1. CommitRecord \in Record
    BY DEF TypeOK, CommitRecord, Record, Txn
  <2>2. history' \in Seq(Record)
    BY <1>16, <2>1, PushBoundedType DEF FinishCommit, TypeOK
  <2>3. saveJournal' \in Seq(Record) /\ entries' \in Nat
    BY <1>16, <2>1 DEF FinishCommit, TypeOK
  <2>4. txn' \in Txn /\ nextDiff' \in Nat \ {0} /\ undo' \in Published
        /\ saved' \in [Table -> [Ticks -> Batches]]
    BY <1>16, EmptyTypes DEF FinishCommit, Return
  <2>5. tick' \in Ticks
    BY <1>16, ArrowTableAssumption DEF FinishCommit, TypeOK, RoomToAdvance, Ticks
  <2> QED  BY <1>16, <2>2, <2>3, <2>4, <2>5 DEF FinishCommit, TypeOK, Step
<1>17. CASE AppendFails
  <2>1. CommitRecord \in Record
    BY DEF TypeOK, CommitRecord, Record, Txn
  <2>2. saveJournal' \in Seq(Record) /\ entries' \in Nat
    BY <1>17, <2>1 DEF AppendFails, TypeOK
  <2> QED  BY <1>17, <2>2 DEF AppendFails, TypeOK, Step
<1>18. CASE RollbackCache
  BY <1>18 DEF RollbackCache, TypeOK, Step, Published
<1>19. CASE RollbackSnapshot
  BY <1>19 DEF RollbackSnapshot, TypeOK, Step, Published
<1>20. CASE RollbackTick
  BY <1>20, EmptyTypes DEF RollbackTick, TypeOK, Step, Published
<1>21. CASE RestoreStore
  <2>1. tables \in [Table -> TableState] /\ Reopen(tables)
    BY <1>21 DEF RestoreStore, TypeOK
  <2> QED  BY <1>21, <2>1, ReopenType DEF RestoreStore, TypeOK
<1>22. CASE UNCHANGED vars
  BY <1>22 DEF TypeOK
<1> QED
  BY <1>1, <1>2, <1>3, <1>4, <1>5, <1>6, <1>7, <1>8, <1>9, <1>10, <1>11, <1>12, <1>13,
     <1>14, <1>15, <1>16, <1>17, <1>18, <1>19, <1>20, <1>21, <1>22 DEF Next, CommitStep

\* The tick does not move while a commit runs.
LEMMA NextRoom == RoomToAdvance /\ [Next]_vars => RoomToAdvance'
<1> SUFFICES ASSUME RoomToAdvance, [Next]_vars PROVE RoomToAdvance'
  OBVIOUS
<1> USE DEF vars, journalVars, RoomToAdvance
<1>1. CASE BeginCommit
  BY <1>1 DEF BeginCommit
<1>2. CASE pc' = "idle"
  BY <1>2
<1>3. CASE tick' = tick /\ pc # "idle"
  BY <1>3
<1>4. CASE UNCHANGED <<tick, pc>>
  BY <1>4
<1>5. (\E d \in DiffInput : SubmitDiff(d)) => UNCHANGED <<tick, pc>>
  BY DEF SubmitDiff
<1>6. (\E c \in Command : SubmitCommand(c)) => UNCHANGED <<tick, pc>>
  BY DEF SubmitCommand
<1>7. ClearPending \/ (\E t \in Table : RegisterTableSchema(t)) => UNCHANGED <<tick, pc>>
  BY DEF ClearPending, RegisterTableSchema
<1>8. FinishCommit \/ MissingTable \/ RejectedDiff \/ RestoreStore => pc' = "idle"
  BY DEF FinishCommit, MissingTable, RejectedDiff, RestoreStore, Reopen
<1>9. BeginIngest => tick' = tick /\ pc # "idle"
  BY DEF BeginIngest
<1>10. (\E t \in Table : IngestTable(t) \/ UnknownSchema(t)) => tick' = tick /\ pc # "idle"
  BY DEF IngestTable, UnknownSchema
<1>11. ApplyNextDiff \/ GenerateSnapshot \/ PublishCache \/ PublishSnapshot
         \/ PublishTick \/ AppendFails => tick' = tick /\ pc # "idle"
  BY DEF ApplyNextDiff, GenerateSnapshot, PublishCache, PublishSnapshot, PublishTick,
         AppendFails
<1>12. RollbackCache \/ RollbackSnapshot \/ RollbackTick => tick' = tick /\ pc # "idle"
  BY DEF RollbackCache, RollbackSnapshot, RollbackTick
<1> QED
  BY <1>1, <1>2, <1>3, <1>4, <1>5, <1>6, <1>7, <1>8, <1>9, <1>10, <1>11, <1>12
     DEF Next, CommitStep

\* Whatever is submitted and whichever steps fail, every variable of the
\* journal, the store and the query engine keeps its type.
THEOREM TypeCorrect == Spec => []TypeOK
<1>1. Init => TypeInv
  BY InitTypeInv
<1>2. TypeInv /\ [Next]_vars => TypeInv'
  BY NextTypeOK, NextRoom DEF TypeInv
<1>3. TypeInv => TypeOK
  BY DEF TypeInv
<1> QED  BY <1>1, <1>2, <1>3, PTL DEF Spec
-----------------------------------------------------------------------------
(* The inductive invariant of the commit cycle                             *)

\* The queues are empty while a commit holds what they contained, and every
\* command, pending or taken, carries the open tick.
Stamped(cmds) == \A j \in DOMAIN cmds : cmds[j].tick = tick
QueueInv ==
  /\ pc # "idle" => pendingDiffs = <<>> /\ pendingCommands = <<>>
  /\ Stamped(pendingCommands) /\ Stamped(txn.commands)

\* An ingest is pending from begin_ingest to store_world_snapshot or rollback.
IngestInv ==
  pendingIngest.active =>
    pc \in {"ingest", "rollbackCache", "rollbackSnapshot", "rollbackTick"}

\* What a commit is about to publish is the store as it left it.
Committed(t) == ViewOf([tick |-> tick, tables |-> tables], t)
publishing == pc \in {"publishSnapshot", "publishTick", "append"}
SnapshotInv ==
  /\ pc = "begin" \/ pc = "ingest" \/ publishing =>
       snapshots[tick] = [tick |-> tick, tables |-> tables]
  /\ pc = "ingest" =>
       \A t \in pendingIngest.staged : pendingIngest.views[t] = Committed(t)
  /\ publishing => \A t \in Table : cache[t] = Committed(t)
  /\ pc \in {"publishTick", "append"} => latestSnapshot = snapshots[tick]
  /\ pc = "append" => latestTick = tick

\* How far a rollback has come.
RollbackInv ==
  /\ pc \in {"rollbackSnapshot", "rollbackTick", "restore"} => cache = undo.cache
  /\ pc \in {"rollbackTick", "restore"} => latestSnapshot = undo.snapshot
  /\ pc = "restore" => latestTick = undo.tick

\* What the last commit published, and the batches it left.
IsLastCommit(p) ==
  IF tick = 0 THEN p = NothingPublished
  ELSE /\ p.tick = tick - 1
       /\ p.snapshot = snapshots[tick - 1]
       /\ \A t \in Table : p.cache[t] = ViewOf(snapshots[tick - 1], t)
LastVersions(t) ==
  IF tick = 0 THEN EmptyTable.versions ELSE snapshots[tick - 1].tables[t].versions
ViewInv == IsLastCommit(atomicPublished)
StoreInv == \A t \in Table : atomicVersions[t] = LastVersions(t)

CommitInv ==
  /\ TypeInv /\ QueueInv /\ IngestInv /\ SnapshotInv /\ RollbackInv
  /\ ViewInv /\ StoreInv

-----------------------------------------------------------------------------
(* Its preservation, conjunct by conjunct                                  *)

\* The steps that leave the queues, the taken submissions and the tick alone,
\* and neither begin nor end a commit.
Inside ==
  /\ UNCHANGED <<tick, pendingDiffs, pendingCommands, history, txn, saved>>
  /\ pc # "idle" /\ pc' # "idle"

\* The error paths of commit().
Failing ==
  /\ pc # "idle" /\ pc' = "idle"
  /\ pendingDiffs' = txn.diffs /\ pendingCommands' = txn.commands
  /\ txn' = EmptyTxn /\ undo' = NothingPublished
  /\ UNCHANGED <<tick, history, snapshots, cache, latestTick, latestSnapshot>>

\* Every step is a call on an idle journal, a step inside a commit, the end of
\* a failing commit, or the end of a successful one.
LEMMA StepKinds ==
  ASSUME [Next]_vars
  PROVE  \/ \E d \in DiffInput : SubmitDiff(d)
         \/ \E c \in Command : SubmitCommand(c)
         \/ ClearPending
         \/ BeginCommit
         \/ Inside
         \/ Failing
         \/ FinishCommit
         \/ UNCHANGED vars \/ \E t \in Table : RegisterTableSchema(t)
<1> USE DEF journalVars, txnVars, storeVars, viewVars
<1>1. ApplyNextDiff \/ GenerateSnapshot \/ PublishCache \/ PublishSnapshot \/ PublishTick
        => Inside
  BY DEF Inside, ApplyNextDiff, GenerateSnapshot, PublishCache, PublishSnapshot,
         PublishTick
<1>2. AppendFails \/ RollbackCache \/ RollbackSnapshot \/ RollbackTick => Inside
  BY DEF Inside, AppendFails, RollbackCache, RollbackSnapshot, RollbackTick
<1>3. (\E t \in Table : IngestTable(t) \/ UnknownSchema(t)) => Inside
  BY DEF Inside, IngestTable, UnknownSchema
<1>4. MissingTable \/ RejectedDiff \/ RestoreStore => Failing
  BY DEF Failing, MissingTable, RejectedDiff, RestoreStore, Reopen, Return
<1>5. BeginIngest => Inside \/ Failing
  <2>1. BeginIngest /\ pendingIngest.active => Failing
    BY DEF Failing, BeginIngest, Reopen, Return
  <2>2. BeginIngest /\ ~pendingIngest.active => Inside
    BY DEF Inside, BeginIngest
  <2> QED  BY <2>1, <2>2
<1> QED
  BY <1>1, <1>2, <1>3, <1>4, <1>5 DEF Next, CommitStep

\* Submissions never get lost or mixed with those of another tick.
LEMMA NextQueueInv ==
  ASSUME TypeOK, QueueInv, [Next]_vars
  PROVE  QueueInv'
<1> USE DEF QueueInv, Stamped
<1>0. /\ pendingCommands \in Seq(Envelope) /\ txn.commands \in Seq(Envelope)
      /\ Stamped(EmptyTxn.commands)
  BY DEF TypeOK, Txn, EmptyTxn
<1>1. ASSUME NEW d \in DiffInput, SubmitDiff(d) PROVE QueueInv'
  BY <1>1 DEF SubmitDiff, txnVars
<1>2. ASSUME NEW c \in Command, SubmitCommand(c) PROVE QueueInv'
  <2>1. Stamped(pendingCommands)'
    BY <1>0, <1>2 DEF SubmitCommand, txnVars
  <2> QED  BY <1>2, <2>1 DEF SubmitCommand, txnVars
<1>3. CASE ClearPending
  BY <1>3 DEF ClearPending, txnVars
<1>4. CASE BeginCommit
  BY <1>4 DEF BeginCommit
<1>5. CASE Inside
  BY <1>5 DEF Inside
<1>6. CASE Failing
  BY <1>6 DEF Failing, EmptyTxn
<1>7. CASE FinishCommit
  BY <1>7 DEF FinishCommit, Return, EmptyTxn
<1>8. ASSUME NEW t \in Table, RegisterTableSchema(t) PROVE QueueInv'
  BY <1>8 DEF RegisterTableSchema, journalVars, txnVars
<1>9. CASE UNCHANGED vars
  BY <1>9 DEF vars, journalVars, txnVars
<1> QED  BY <1>1, <1>2, <1>3, <1>4, <1>5, <1>6, <1>7, <1>8, <1>9, StepKinds

\* No error path and no success leaves an ingest pending.
LEMMA NextIngestInv ==
  ASSUME TypeOK, IngestInv, [Next]_vars
  PROVE  IngestInv'
<1> USE DEF IngestInv, NoIngest
<1>1. (\E d \in DiffInput : SubmitDiff(d)) \/ (\E c \in Command : SubmitCommand(c))
        \/ ClearPending \/ BeginCommit \/ (\E t \in Table : RegisterTableSchema(t))
        \/ UNCHANGED vars => IngestInv'
  BY DEF SubmitDiff, SubmitCommand, ClearPending, BeginCommit, RegisterTableSchema, vars
<1>2. ApplyNextDiff \/ MissingTable \/ RejectedDiff \/ GenerateSnapshot => IngestInv'
  BY DEF ApplyNextDiff, MissingTable, RejectedDiff, GenerateSnapshot, Reopen
<1>3. BeginIngest => IngestInv'
  BY DEF BeginIngest, Reopen
<1>4. ASSUME NEW t \in Table, IngestTable(t) \/ UnknownSchema(t) PROVE IngestInv'
  BY <1>4 DEF IngestTable, UnknownSchema
<1>5. PublishCache \/ PublishSnapshot \/ PublishTick \/ FinishCommit \/ AppendFails
        => IngestInv'
  BY DEF PublishCache, PublishSnapshot, PublishTick, FinishCommit, AppendFails
<1>6. RollbackCache \/ RollbackSnapshot \/ RollbackTick \/ RestoreStore => IngestInv'
  BY DEF RollbackCache, RollbackSnapshot, RollbackTick, RestoreStore, Reopen
<1> QED  BY <1>1, <1>2, <1>3, <1>4, <1>5, <1>6 DEF Next, CommitStep

\* What is staged and then published is what the diffs left in the store.
LEMMA NextSnapshotInv ==
  ASSUME TypeOK, SnapshotInv, [Next]_vars
  PROVE  SnapshotInv'
<1> USE DEF SnapshotInv, Committed, ViewOf, publishing, storeVars, journalVars, viewVars
<1>1. (\E d \in DiffInput : SubmitDiff(d)) \/ (\E c \in Command : SubmitCommand(c))
        \/ ClearPending \/ BeginCommit => SnapshotInv'
  BY DEF SubmitDiff, SubmitCommand, ClearPending, BeginCommit
<1>2. ASSUME NEW t \in Table, RegisterTableSchema(t) PROVE SnapshotInv'
  BY <1>2 DEF RegisterTableSchema
<1>3. CASE UNCHANGED vars
  BY <1>3 DEF vars
<1>4. ApplyNextDiff \/ MissingTable \/ RejectedDiff \/ RestoreStore => SnapshotInv'
  BY DEF ApplyNextDiff, MissingTable, RejectedDiff, RestoreStore, Reopen
<1>5. CASE GenerateSnapshot
  <2>1. snapshots'[tick] = [tick |-> tick, tables |-> tables]
    BY <1>5 DEF GenerateSnapshot, TypeOK
  <2> QED  BY <1>5, <2>1 DEF GenerateSnapshot
<1>6. CASE BeginIngest
  <2>1. CASE pendingIngest.active
    BY <1>6, <2>1 DEF BeginIngest, Reopen
  <2>2. CASE ~pendingIngest.active
    <3>1. pendingIngest'.staged = {}
      BY <1>6, <2>2 DEF BeginIngest, NoIngest
    <3> QED  BY <1>6, <2>2, <3>1 DEF BeginIngest
  <2> QED  BY <2>1, <2>2
<1>7. ASSUME NEW u \in Table, IngestTable(u) PROVE SnapshotInv'
  <2>1. pendingIngest'.staged = pendingIngest.staged \cup {u}
    BY <1>7 DEF IngestTable, TypeOK, Ingest
  <2>2. pendingIngest'.views[u] = Committed(u)
    BY <1>7 DEF IngestTable, TypeOK, Ingest
  <2>3. \A t \in Table \ {u} : pendingIngest'.views[t] = pendingIngest.views[t]
    BY <1>7 DEF IngestTable, TypeOK, Ingest
  <2>4. pendingIngest.staged \subseteq Table
    BY DEF TypeOK, Ingest
  <2> QED  BY <1>7, <2>1, <2>2, <2>3, <2>4 DEF IngestTable
<1>8. ASSUME NEW t \in Table, UnknownSchema(t) PROVE SnapshotInv'
  BY <1>8 DEF UnknownSchema
<1>9. CASE PublishCache
  BY <1>9 DEF PublishCache
<1>10. CASE PublishSnapshot
  BY <1>10 DEF PublishSnapshot
<1>11. CASE PublishTick
  BY <1>11 DEF PublishTick
<1>12. FinishCommit \/ AppendFails => SnapshotInv'
  BY DEF FinishCommit, AppendFails
<1>13. RollbackCache \/ RollbackSnapshot \/ RollbackTick => SnapshotInv'
  BY DEF RollbackCache, RollbackSnapshot, RollbackTick
<1> QED  BY <1>1, <1>2, <1>3, <1>4, <1>5, <1>6, <1>7, <1>8, <1>9, <1>10, <1>11, <1>12,
            <1>13 DEF Next, CommitStep

\* The rollback token is put back part by part.
LEMMA NextRollbackInv ==
  ASSUME TypeOK, RollbackInv, [Next]_vars
  PROVE  RollbackInv'
<1> USE DEF RollbackInv, viewVars
<1>1. (\E d \in DiffInput : SubmitDiff(d)) \/ (\E c \in Command : SubmitCommand(c))
        \/ ClearPending \/ BeginCommit \/ (\E t \in Table : RegisterTableSchema(t))
        \/ UNCHANGED vars => RollbackInv'
  BY DEF SubmitDiff, SubmitCommand, ClearPending, BeginCommit, RegisterTableSchema, vars
<1>2. ApplyNextDiff \/ MissingTable \/ RejectedDiff \/ GenerateSnapshot => RollbackInv'
  BY DEF ApplyNextDiff, MissingTable, RejectedDiff, GenerateSnapshot, Reopen
<1>3. BeginIngest => RollbackInv'
  BY DEF BeginIngest, Reopen
<1>4. ASSUME NEW t \in Table, IngestTable(t) \/ UnknownSchema(t) PROVE RollbackInv'
  BY <1>4 DEF IngestTable, UnknownSchema
<1>5. PublishCache \/ PublishSnapshot \/ PublishTick \/ FinishCommit \/ AppendFails
        => RollbackInv'
  BY DEF PublishCache, PublishSnapshot, PublishTick, FinishCommit, AppendFails
<1>6. RollbackCache \/ RollbackSnapshot \/ RollbackTick \/ RestoreStore => RollbackInv'
  BY DEF RollbackCache, RollbackSnapshot, RollbackTick, RestoreStore, Reopen
<1> QED  BY <1>1, <1>2, <1>3, <1>4, <1>5, <1>6 DEF Next, CommitStep

\* The snapshot of the last commit is never overwritten, and until the next
\* commit succeeds what it published is either still published or held by the
\* rollback token.
LEMMA PublishedKept ==
  ASSUME TypeOK, RollbackInv, [Next]_vars, ~FinishCommit
  PROVE  /\ tick' = tick
         /\ tick # 0 => snapshots'[tick - 1] = snapshots[tick - 1]
         /\ atomicPublished' = atomicPublished
<1> USE DEF journalVars, storeVars, viewVars
<1> DEFINE Kept == /\ tick' = tick
                   /\ tick # 0 => snapshots'[tick - 1] = snapshots[tick - 1]
                   /\ atomicPublished' = atomicPublished
<1>2. ASSUME UNCHANGED <<tick, snapshots, published, pc>>, UNCHANGED undo PROVE Kept
  BY <1>2 DEF atomicPublished, ingesting
<1>3. (\E d \in DiffInput : SubmitDiff(d)) \/ (\E c \in Command : SubmitCommand(c))
        \/ ClearPending \/ UNCHANGED vars => Kept
  BY <1>2 DEF SubmitDiff, SubmitCommand, ClearPending, vars, published
<1>4. (\E t \in Table : RegisterTableSchema(t)) => Kept
  BY <1>2 DEF RegisterTableSchema, published
<1>5. BeginCommit \/ ApplyNextDiff \/ MissingTable \/ RejectedDiff => Kept
  BY DEF BeginCommit, ApplyNextDiff, MissingTable, RejectedDiff, Reopen,
         atomicPublished, ingesting, published
<1>6. GenerateSnapshot => Kept
  BY DEF GenerateSnapshot, atomicPublished, ingesting, published, TypeOK, Ticks
<1>7. BeginIngest => Kept
  BY DEF BeginIngest, Reopen, atomicPublished, ingesting, published
<1>8. ASSUME NEW t \in Table, IngestTable(t) \/ UnknownSchema(t) PROVE Kept
  BY <1>8 DEF IngestTable, UnknownSchema, atomicPublished, ingesting
<1>9. PublishCache \/ PublishSnapshot \/ PublishTick \/ AppendFails => Kept
  BY DEF PublishCache, PublishSnapshot, PublishTick, AppendFails, atomicPublished, ingesting
<1>10. RollbackCache \/ RollbackSnapshot \/ RollbackTick => Kept
  BY DEF RollbackCache, RollbackSnapshot, RollbackTick, atomicPublished, ingesting
<1>11. RestoreStore => Kept
  <2>1. pc = "restore" => published = undo
    BY DEF RollbackInv, published, TypeOK, Published
  <2> QED  BY <2>1 DEF RestoreStore, Reopen, atomicPublished, ingesting, published
<1> QED  BY <1>3, <1>4, <1>5, <1>6, <1>7, <1>8, <1>9, <1>10, <1>11 DEF Next, CommitStep

\* A successful commit publishes its own tick.
LEMMA FinishPublished ==
  ASSUME TypeOK, SnapshotInv, FinishCommit
  PROVE  /\ atomicPublished' = published
         /\ snapshots[tick] = [tick |-> tick, tables |-> tables]
         /\ \A t \in Table : cache[t] = ViewOf(snapshots[tick], t)
         /\ latestSnapshot = snapshots[tick] /\ latestTick = tick
<1>1. /\ snapshots[tick] = [tick |-> tick, tables |-> tables]
      /\ \A t \in Table : cache[t] = ViewOf(snapshots[tick], t)
      /\ latestSnapshot = snapshots[tick] /\ latestTick = tick
  BY DEF FinishCommit, SnapshotInv, publishing, Committed
<1>2. atomicPublished' = published
  BY DEF FinishCommit, atomicPublished, ingesting, published, viewVars
<1> QED  BY <1>1, <1>2

\* What readers are promised stays what the last commit published.
LEMMA NextViewInv ==
  ASSUME TypeOK, SnapshotInv, RollbackInv, ViewInv, [Next]_vars
  PROVE  ViewInv'
<1>1. CASE ~FinishCommit
  BY <1>1, PublishedKept DEF ViewInv, IsLastCommit, ViewOf
<1>2. CASE FinishCommit
  <2>1. tick' # 0 /\ tick' - 1 = tick /\ snapshots' = snapshots
    BY <1>2 DEF FinishCommit, TypeOK, Ticks, storeVars
  <2> QED  BY <1>2, <2>1, FinishPublished DEF ViewInv, IsLastCommit, published, ViewOf
<1> QED  BY <1>1, <1>2

\* An error path gives every touched table its saved batches back, and the
\* tables that were not touched still have theirs.
LEMMA ReopenVersions ==
  ASSUME TypeOK, pc # "idle", NEW tbs \in [Table -> TableState], Reopen(tbs),
         \A t \in Table \ Touched(txn.diffs) : tbs[t].versions = tables[t].versions
  PROVE  atomicVersions' = atomicVersions
<1>1. ASSUME NEW t \in Table, t \in Touched(txn.diffs)
      PROVE  tables'[t].versions = saved[t]
  BY <1>1 DEF Reopen, RestoreVersions, TypeOK, TableState
<1>2. ASSUME NEW t \in Table, t \notin Touched(txn.diffs)
      PROVE  tables'[t].versions = tables[t].versions
  BY <1>2 DEF Reopen, RestoreVersions
<1>3. pc' = "idle"
  BY DEF Reopen
<1> QED  BY <1>1, <1>2, <1>3 DEF atomicVersions

\* Until a commit succeeds, the batches it found are in the store or saved.
LEMMA VersionsKept ==
  ASSUME TypeOK, [Next]_vars, ~FinishCommit
  PROVE  atomicVersions' = atomicVersions
<1> USE DEF journalVars, storeVars, txnVars
<1> DEFINE Kept == atomicVersions' = atomicVersions
<1>2. ASSUME UNCHANGED <<tables, txn, saved>>,
             pc' = pc \/ (pc # "idle" /\ pc' # "idle")
      PROVE  Kept
  BY <1>2 DEF atomicVersions
<1>3. (\E d \in DiffInput : SubmitDiff(d)) \/ (\E c \in Command : SubmitCommand(c))
        \/ ClearPending \/ (\E t \in Table : RegisterTableSchema(t))
        \/ UNCHANGED vars => Kept
  BY <1>2 DEF SubmitDiff, SubmitCommand, ClearPending, RegisterTableSchema, vars
<1>4. BeginCommit => Kept
  <2> SUFFICES ASSUME BeginCommit PROVE Kept
    OBVIOUS
  <2>1. ASSUME NEW t \in Table, t \in Touched(pendingDiffs)
        PROVE  saved'[t] = tables[t].versions
    BY <2>1 DEF BeginCommit
  <2>2. txn'.diffs = pendingDiffs /\ pc = "idle" /\ pc' # "idle" /\ tables' = tables
    BY DEF BeginCommit
  <2>3. atomicVersions' = atomicVersions
    BY <2>1, <2>2 DEF atomicVersions
  <2> QED  BY <2>3 DEF BeginCommit
<1>5. ApplyNextDiff => Kept
  <2> SUFFICES ASSUME ApplyNextDiff PROVE Kept
    OBVIOUS
  <2>1. NextDiff.table \in Touched(txn.diffs)
    BY NextOutcomeType DEF ApplyNextDiff
  <2>2. \A t \in Table \ Touched(txn.diffs) : tables'[t] = tables[t]
    BY <2>1 DEF ApplyNextDiff, TypeOK
  <2>3. atomicVersions' = atomicVersions
    BY <2>2 DEF ApplyNextDiff, atomicVersions
  <2> QED  BY <2>3 DEF ApplyNextDiff
<1>6. MissingTable \/ RestoreStore => Kept
  <2> SUFFICES ASSUME MissingTable \/ RestoreStore PROVE Kept
    OBVIOUS
  <2>1. pc # "idle" /\ Reopen(tables) /\ tables \in [Table -> TableState]
    BY DEF MissingTable, RestoreStore, TypeOK
  <2>2. atomicVersions' = atomicVersions
    BY <2>1, ReopenVersions
  <2> QED  BY <2>2 DEF MissingTable, RestoreStore
<1>7. RejectedDiff => Kept
  <2> SUFFICES ASSUME RejectedDiff PROVE Kept
    OBVIOUS
  <2> DEFINE tbs == [tables EXCEPT ![NextDiff.table] = NextOutcome.table]
  <2>1. NextOutcome.table \in TableState /\ NextDiff.table \in Touched(txn.diffs)
    BY NextOutcomeType DEF RejectedDiff, Outcome
  <2>2. /\ pc # "idle" /\ Reopen(tbs) /\ tbs \in [Table -> TableState]
        /\ \A t \in Table \ Touched(txn.diffs) : tbs[t].versions = tables[t].versions
    BY <2>1 DEF RejectedDiff, TypeOK
  <2> HIDE DEF tbs
  <2>3. atomicVersions' = atomicVersions
    BY <2>2, ReopenVersions
  <2> QED  BY <2>3 DEF RejectedDiff
<1>8. GenerateSnapshot => Kept
  BY DEF GenerateSnapshot, TypeOK, Ticks, atomicVersions
<1>9. BeginIngest => Kept
  <2> SUFFICES ASSUME BeginIngest PROVE Kept
    OBVIOUS
  <2>1. CASE pendingIngest.active
    <3>1. pc # "idle" /\ Reopen(tables) /\ tables \in [Table -> TableState]
      BY <2>1 DEF BeginIngest, TypeOK
    <3>2. atomicVersions' = atomicVersions
      BY <3>1, ReopenVersions
    <3> QED  BY <2>1, <3>2 DEF BeginIngest
  <2>2. CASE ~pendingIngest.active
    BY <1>2, <2>2 DEF BeginIngest
  <2> QED  BY <2>1, <2>2
<1>10. ASSUME NEW t \in Table, IngestTable(t) \/ UnknownSchema(t) PROVE Kept
  BY <1>2, <1>10 DEF IngestTable, UnknownSchema
<1>11. PublishCache \/ PublishSnapshot \/ PublishTick \/ AppendFails => Kept
  BY <1>2 DEF PublishCache, PublishSnapshot, PublishTick, AppendFails
<1>12. RollbackCache \/ RollbackSnapshot \/ RollbackTick => Kept
  BY <1>2 DEF RollbackCache, RollbackSnapshot, RollbackTick
<1> QED  BY <1>3, <1>4, <1>5, <1>6, <1>7, <1>8, <1>9, <1>10, <1>11, <1>12
         DEF Next, CommitStep

\* The batches a retry starts from, or that are left when no commit runs, are
\* those of the last commit.
LEMMA NextStoreInv ==
  ASSUME TypeOK, SnapshotInv, RollbackInv, StoreInv, [Next]_vars
  PROVE  StoreInv'
<1>1. CASE ~FinishCommit
  BY <1>1, PublishedKept, VersionsKept DEF StoreInv, LastVersions
<1>2. CASE FinishCommit
  <2>1. snapshots[tick] = [tick |-> tick, tables |-> tables]
    BY <1>2, FinishPublished
  <2>2. atomicVersions' = [t \in Table |-> tables[t].versions]
    BY <1>2 DEF FinishCommit, atomicVersions, storeVars
  <2>3. tick' # 0 /\ tick' - 1 = tick /\ snapshots' = snapshots
    BY <1>2 DEF FinishCommit, TypeOK, Ticks, storeVars
  <2> QED  BY <2>1, <2>2, <2>3 DEF StoreInv, LastVersions
<1> QED  BY <1>1, <1>2

\* The initial state satisfies the whole invariant.
LEMMA InitCommitInv == Init => CommitInv
<1> SUFFICES ASSUME Init PROVE CommitInv
  OBVIOUS
<1>1. TypeInv
  BY InitTypeInv
<1>2. QueueInv
  BY DEF Init, QueueInv, Stamped, EmptyTxn
<1>3. IngestInv /\ SnapshotInv /\ RollbackInv
  BY DEF Init, IngestInv, NoIngest, SnapshotInv, publishing, RollbackInv
<1>4. ViewInv
  BY DEF Init, ViewInv, IsLastCommit, atomicPublished, ingesting, published,
         NothingPublished
<1>5. StoreInv
  BY DEF Init, StoreInv, atomicVersions, LastVersions
<1> QED  BY <1>1, <1>2, <1>3, <1>4, <1>5 DEF CommitInv

\* Every step keeps it.
LEMMA NextCommitInv == CommitInv /\ [Next]_vars => CommitInv'
  BY NextTypeOK, NextRoom, NextQueueInv, NextIngestInv, NextSnapshotInv, NextRollbackInv,
     NextViewInv, NextStoreInv DEF CommitInv, TypeInv

\* CommitInv holds throughout: what every theorem below rests on.
THEOREM CommitInvariant == Spec => []CommitInv
<1>1. Init => CommitInv
  BY InitCommitInv
<1>2. CommitInv /\ [Next]_vars => CommitInv'
  BY NextCommitInv
<1> QED  BY <1>1, <1>2, PTL DEF Spec

-----------------------------------------------------------------------------
(* The safety properties                                                   *)

\* When no commit runs, the query engine serves exactly the last committed
\* tick, in its tick, its snapshot and every cached view, whatever failed since.
THEOREM PublishedCorrect == Spec => []PublishedIsLastCommit
<1>1. CommitInv => PublishedIsLastCommit
  BY DEF CommitInv, ViewInv, IsLastCommit, atomicPublished, ingesting, published,
         PublishedIsLastCommit
<1> QED  BY <1>1, CommitInvariant, PTL

\* When no commit runs, every table has the batches of the last commit.
THEOREM BatchesCorrect == Spec => []BatchesAtLastCommit
<1>1. CommitInv => BatchesAtLastCommit
  <2> SUFFICES ASSUME CommitInv, pc = "idle", NEW t \in Table
               PROVE  tables[t].versions = IF tick = 0 THEN EmptyTable.versions
                                           ELSE latestSnapshot.tables[t].versions
    BY DEF BatchesAtLastCommit
  <2>1. tables[t].versions = LastVersions(t)
    BY DEF CommitInv, StoreInv, atomicVersions
  <2>2. tick # 0 => latestSnapshot = snapshots[tick - 1]
    BY DEF CommitInv, ViewInv, IsLastCommit, atomicPublished, ingesting, published
  <2> QED  BY <2>1, <2>2 DEF LastVersions
<1> QED  BY <1>1, CommitInvariant, PTL

\* begin_ingest is never refused.
THEOREM IngestCorrect == Spec => []IngestNeverRefused
<1>1. CommitInv => IngestNeverRefused
  BY DEF CommitInv, IngestInv, IngestNeverRefused
<1> QED  BY <1>1, CommitInvariant, PTL

-----------------------------------------------------------------------------
(* The history and the save journal                                        *)

\* The entries of a sequence of records.
LEMMA RecordAt ==
  ASSUME NEW h \in Seq(Record), NEW i \in DOMAIN h
  PROVE  /\ i \in 1 .. Len(h) /\ i \in Nat /\ Len(h) \in Nat
         /\ h[i] \in Record /\ h[i].tick \in Nat
<1>1. DOMAIN h = 1 .. Len(h) /\ Len(h) \in Nat
  OBVIOUS
<1>2. h[i] \in Record
  BY <1>1, ElementOfSeq
<1>3. h[i].tick \in Ticks
  BY <1>2 DEF Record
<1> QED  BY <1>1, <1>2, <1>3, ArrowTableAssumption DEF Ticks

\* What the bounded push keeps: every entry but the last comes from the old
\* history, the same distance from the end.
LEMMA PushBoundedEntries ==
  ASSUME NEW h \in Seq(Record), NEW rec \in Record, Len(h) <= MaxHistory
  PROVE  LET g == PushBounded(h, rec) IN
           /\ g \in Seq(Record) /\ Len(g) \in 1 .. MaxHistory
           /\ g[Len(g)] = rec
           /\ \A i \in 1 .. Len(g) - 1 :
                /\ Len(h) - (Len(g) - 1 - i) \in DOMAIN h
                /\ g[i] = h[Len(h) - (Len(g) - 1 - i)]
<1> DEFINE g == PushBounded(h, rec)
<1>0. MaxHistory \in Nat /\ MaxHistory # 0
  BY JournalAssumption
<1>1. CASE Len(h) >= MaxHistory
  <2>1. h # <<>>
    BY <1>0, <1>1
  <2>2. /\ Tail(h) \in Seq(Record) /\ Len(Tail(h)) = Len(h) - 1
        /\ \A i \in 1 .. Len(Tail(h)) : Tail(h)[i] = h[i + 1]
    BY <2>1, HeadTailProperties
  <2>3. g = Append(Tail(h), rec)
    BY <1>1 DEF PushBounded
  <2>4. Len(g) = Len(h) /\ g \in Seq(Record) /\ g[Len(g)] = rec
    BY <2>2, <2>3
  <2>5. \A i \in 1 .. Len(g) - 1 : g[i] = h[i + 1]
    BY <2>2, <2>3
  <2>6. \A i \in 1 .. Len(g) - 1 : /\ Len(h) - (Len(g) - 1 - i) = i + 1
                                   /\ i + 1 \in DOMAIN h
    BY <2>4
  <2> HIDE DEF g
  <2> QED  BY <1>0, <1>1, <2>1, <2>4, <2>5, <2>6 DEF g
<1>2. CASE ~(Len(h) >= MaxHistory)
  <2>1. g = Append(h, rec)
    BY <1>2 DEF PushBounded
  <2>2. Len(g) = Len(h) + 1 /\ g \in Seq(Record) /\ g[Len(g)] = rec
    BY <2>1
  <2>3. \A i \in 1 .. Len(g) - 1 : g[i] = h[i]
    BY <2>1
  <2>4. \A i \in 1 .. Len(g) - 1 : /\ Len(h) - (Len(g) - 1 - i) = i
                                   /\ i \in DOMAIN h
    BY <2>2
  <2> HIDE DEF g
  <2> QED  BY <1>0, <1>2, <2>2, <2>3, <2>4 DEF g
<1> QED  BY <1>1, <1>2

\* Only the end of a successful commit changes the history or the tick.
LEMMA HistoryOrFinish ==
  ASSUME [Next]_vars
  PROVE  FinishCommit \/ UNCHANGED <<tick, history>>
  BY StepKinds DEF SubmitDiff, SubmitCommand, ClearPending, BeginCommit, Inside, Failing,
                   RegisterTableSchema, vars, journalVars

\* The history stays the records of consecutive ticks.
LEMMA NextHistory ==
  ASSUME TypeOK, QueueInv, HistoryConsecutive, [Next]_vars
  PROVE  HistoryConsecutive'
<1>1. CASE UNCHANGED <<tick, history>>
  BY <1>1 DEF HistoryConsecutive
<1>2. CASE FinishCommit
  <2> DEFINE g == PushBounded(history, CommitRecord)
             n == Len(g)
             m == Len(history)
  <2>0. /\ history \in Seq(Record) /\ m \in Nat /\ tick \in Nat
        /\ MaxHistory \in Nat
    BY JournalAssumption DEF TypeOK, Ticks
  <2>1. CommitRecord \in Record
    BY DEF TypeOK, CommitRecord, Record, Txn
  <2>2. /\ g \in Seq(Record) /\ n \in 1 .. MaxHistory
        /\ g[n] = CommitRecord
        /\ \A i \in 1 .. n - 1 : m - (n - 1 - i) \in DOMAIN history
                                 /\ g[i] = history[m - (n - 1 - i)]
    BY <2>0, <2>1, PushBoundedEntries DEF HistoryConsecutive
  <2>3. history' = g /\ tick' = tick + 1
    BY <1>2 DEF FinishCommit
  <2>4. ASSUME NEW i \in DOMAIN g
        PROVE  /\ g[i].tick + (n - i) + 1 = tick + 1
               /\ \A j \in DOMAIN g[i].commands : g[i].commands[j].tick = g[i].tick
    <3>1. i \in 1 .. n
      BY <2>2
    <3>2. CASE i = n
      BY <2>0, <2>2, <3>2 DEF CommitRecord, QueueInv, Stamped
    <3>3. CASE i # n
      <4> DEFINE k == m - (n - 1 - i)
      <4>1. k \in DOMAIN history /\ g[i] = history[k]
        BY <2>2, <3>1, <3>3
      <4>2. history[k].tick + (m - k) + 1 = tick
        BY <4>1 DEF HistoryConsecutive
      <4>3. history[k].tick \in Nat /\ k \in Nat
        BY <2>0, <4>1, RecordAt
      <4>4. g[i].tick + (n - i) + 1 = tick + 1
        <5>1. n \in Nat /\ i \in Nat
          BY <2>0, <2>2, <3>1
        <5> DEFINE x == history[k].tick
        <5>2. x \in Nat /\ x + (m - k) + 1 = tick /\ g[i].tick = x
          BY <4>1, <4>2, <4>3
        <5>3. k = m - (n - 1 - i)
          OBVIOUS
        <5> HIDE DEF n, m, g, k, x
        <5>4. m \in Nat /\ tick \in Nat /\ k \in Nat
          BY <2>0, <4>3
        <5>5. x + (n - i) + 1 = tick + 1
          BY <5>1, <5>2, <5>3, <5>4
        <5> QED  BY <5>2, <5>5
      <4>5. \A j \in DOMAIN g[i].commands : g[i].commands[j].tick = g[i].tick
        BY <4>1 DEF HistoryConsecutive
      <4> QED  BY <4>4, <4>5
    <3> QED  BY <3>2, <3>3
  <2>5. g # <<>> /\ n <= MaxHistory
    BY <2>2
  <2> HIDE DEF g
  <2> QED  BY <2>3, <2>4, <2>5 DEF HistoryConsecutive
<1> QED  BY <1>1, <1>2, HistoryOrFinish

\* The in-memory history is the run of consecutive ticks that ends just before
\* the open one, at most MAX_COMMIT_HISTORY long, with every command under the
\* tick it was stamped with.
THEOREM HistoryCorrect == Spec => []HistoryConsecutive
<1>1. Init => HistoryConsecutive
  BY JournalAssumption DEF Init, HistoryConsecutive
<1>2. CommitInv /\ HistoryConsecutive /\ [Next]_vars => HistoryConsecutive'
  BY NextHistory DEF CommitInv, TypeInv
<1> QED  BY <1>1, <1>2, CommitInvariant, PTL DEF Spec

\* The save journal never runs ahead of the open tick.
SaveInv == \A j \in DOMAIN saveJournal : saveJournal[j].tick <= tick

\* A record of the open tick, pushed by a commit that may still fail, covers no
\* record of the history and hides none.
LEMMA NextSave ==
  ASSUME TypeOK, HistoryConsecutive, SaveInv, SaveJournalCoversHistory, [Next]_vars
  PROVE  SaveInv' /\ SaveJournalCoversHistory'
<1> DEFINE s == Append(saveJournal, CommitRecord)
           n == Len(saveJournal)
<1>0. saveJournal \in Seq(Record) /\ n \in Nat /\ tick \in Nat /\ CommitRecord \in Record
      /\ history \in Seq(Record)
  BY DEF TypeOK, Ticks, CommitRecord, Record, Txn
<1>1. /\ s \in Seq(Record) /\ Len(s) = n + 1 /\ s[n + 1] = CommitRecord
      /\ \A j \in 1 .. n : s[j] = saveJournal[j]
  BY <1>0
<1>2. \A j \in DOMAIN s : s[j].tick \in Nat
  BY <1>1, RecordAt
<1>3. CommitRecord.tick = tick
  BY DEF CommitRecord
<1>4. \A j \in DOMAIN s, k \in DOMAIN s : j <= k => s[j].tick <= s[k].tick
  BY <1>0, <1>1, <1>2, <1>3 DEF SaveInv, SaveJournalCoversHistory
<1>5. ASSUME NEW i \in DOMAIN history
      PROVE  \E j \in DOMAIN s :
               /\ s[j] = history[i]
               /\ \A k \in DOMAIN s : s[k].tick = history[i].tick => k <= j
  <2>1. PICK j \in DOMAIN saveJournal :
          /\ saveJournal[j] = history[i]
          /\ \A k \in DOMAIN saveJournal : saveJournal[k].tick = history[i].tick => k <= j
    BY DEF SaveJournalCoversHistory
  <2>2. history[i].tick \in Nat /\ history[i].tick + (Len(history) - i) + 1 = tick
        /\ i <= Len(history) /\ i \in Nat
    BY <1>0, RecordAt DEF HistoryConsecutive
  <2>3. history[i].tick # tick
    BY <1>0, <2>2
  <2>4. j \in DOMAIN s /\ s[j] = history[i]
    BY <1>0, <1>1, <2>1
  <2>5. \A k \in DOMAIN s : s[k].tick = history[i].tick => k <= j
    BY <1>0, <1>1, <1>3, <2>1, <2>3
  <2> QED  BY <2>4, <2>5
<1> HIDE DEF s
<1>6. CASE AppendFails
  <2>1. saveJournal' = s /\ UNCHANGED <<tick, history>>
    BY <1>6 DEF AppendFails, journalVars, s
  <2>2. SaveInv'
    BY <1>0, <1>1, <1>3, <2>1 DEF SaveInv
  <2>3. SaveJournalCoversHistory'
    BY <1>4, <1>5, <2>1 DEF SaveJournalCoversHistory
  <2> QED  BY <2>2, <2>3
<1>7. CASE FinishCommit
  <2>1. saveJournal' = s /\ history' = PushBounded(history, CommitRecord) /\ tick' = tick + 1
    BY <1>7 DEF FinishCommit, s
  <2>2. SaveInv'
    <3>1. \A j \in DOMAIN s : s[j].tick <= tick
      BY <1>0, <1>1, <1>3 DEF SaveInv
    <3> QED  BY <1>0, <1>2, <2>1, <3>1 DEF SaveInv
  <2>3. ASSUME NEW i \in DOMAIN history'
        PROVE  \E j \in DOMAIN s :
                 /\ s[j] = history'[i]
                 /\ \A k \in DOMAIN s : s[k].tick = history'[i].tick => k <= j
    <3>0. Len(history) <= MaxHistory
      BY DEF HistoryConsecutive
    <3>1. /\ history' \in Seq(Record) /\ Len(history') \in Nat
          /\ history'[Len(history')] = CommitRecord
          /\ \A l \in 1 .. Len(history') - 1 : \E q \in DOMAIN history : history'[l] = history[q]
      <4> DEFINE g == PushBounded(history, CommitRecord)
      <4>1. /\ g \in Seq(Record) /\ Len(g) \in 1 .. MaxHistory
            /\ g[Len(g)] = CommitRecord
            /\ \A l \in 1 .. Len(g) - 1 :
                 /\ Len(history) - (Len(g) - 1 - l) \in DOMAIN history
                 /\ g[l] = history[Len(history) - (Len(g) - 1 - l)]
        BY <1>0, <3>0, PushBoundedEntries
      <4> HIDE DEF g
      <4>2. \A l \in 1 .. Len(g) - 1 : \E q \in DOMAIN history : g[l] = history[q]
        BY <4>1
      <4>3. history' = g
        BY <2>1 DEF g
      <4> QED  BY <4>1, <4>2, <4>3
    <3>2. CASE i = Len(history')
      BY <1>0, <1>1, <3>1, <3>2
    <3>3. CASE i # Len(history')
      <4>1. i \in 1 .. Len(history') - 1
        BY <3>1, <3>3
      <4>2. PICK q \in DOMAIN history : history'[i] = history[q]
        BY <3>1, <4>1
      <4> QED  BY <1>5, <4>2
    <3> QED  BY <3>2, <3>3
  <2>4. SaveJournalCoversHistory'
    BY <1>4, <2>1, <2>3 DEF SaveJournalCoversHistory
  <2> QED  BY <2>2, <2>4
<1>8. CASE UNCHANGED <<saveJournal, tick, history>>
  BY <1>8 DEF SaveInv, SaveJournalCoversHistory
<1>9. AppendFails \/ FinishCommit \/ UNCHANGED <<saveJournal, tick, history>>
  <2> USE DEF saveVars, journalVars
  <2>1. (\E d \in DiffInput : SubmitDiff(d)) \/ (\E c \in Command : SubmitCommand(c))
          \/ ClearPending \/ BeginCommit \/ (\E t \in Table : RegisterTableSchema(t))
          \/ UNCHANGED vars => UNCHANGED <<saveJournal, tick, history>>
    BY DEF SubmitDiff, SubmitCommand, ClearPending, BeginCommit, RegisterTableSchema, vars
  <2>2. ApplyNextDiff \/ MissingTable \/ RejectedDiff \/ GenerateSnapshot \/ BeginIngest
          => UNCHANGED <<saveJournal, tick, history>>
    BY DEF ApplyNextDiff, MissingTable, RejectedDiff, GenerateSnapshot, BeginIngest
  <2>3. (\E t \in Table : IngestTable(t) \/ UnknownSchema(t))
          => UNCHANGED <<saveJournal, tick, history>>
    BY DEF IngestTable, UnknownSchema
  <2>4. PublishCache \/ PublishSnapshot \/ PublishTick \/ RollbackCache
          \/ RollbackSnapshot \/ RollbackTick \/ RestoreStore
          => UNCHANGED <<saveJournal, tick, history>>
    BY DEF PublishCache, PublishSnapshot, PublishTick, RollbackCache, RollbackSnapshot,
           RollbackTick, RestoreStore
  <2> QED  BY <2>1, <2>2, <2>3, <2>4 DEF Next, CommitStep
<1> QED  BY <1>6, <1>7, <1>8, <1>9

\* The last record the save journal holds for a tick of the history is the one
\* that was committed, even when failed attempts at that tick were pushed too.
THEOREM SaveJournalCorrect == Spec => []SaveJournalCoversHistory
<1>1. Init => SaveInv /\ SaveJournalCoversHistory
  BY DEF Init, SaveInv, SaveJournalCoversHistory
<1>2. CommitInv /\ HistoryConsecutive /\ (SaveInv /\ SaveJournalCoversHistory)
        /\ [Next]_vars => (SaveInv /\ SaveJournalCoversHistory)'
  BY NextSave DEF CommitInv, TypeInv
<1> QED  BY <1>1, <1>2, CommitInvariant, HistoryCorrect, PTL DEF Spec

-----------------------------------------------------------------------------
(* Refinement of AtomicJournal                                             *)

\* The calls on an idle journal are the abstract ones.
LEMMA CallsSimulate ==
  ASSUME CommitInv, [Next]_vars, ~FinishCommit, pc = "idle", pc' = "idle"
  PROVE  AJ!SubmitDiff \/ AJ!SubmitCommand \/ AJ!ClearPending \/ UNCHANGED AJ!vars
<1>0. /\ tick' = tick /\ history' = history
      /\ atomicPublished' = atomicPublished /\ atomicVersions' = atomicVersions
  BY PublishedKept, VersionsKept, HistoryOrFinish DEF CommitInv, TypeInv
<1>1. ASSUME NEW d \in DiffInput, SubmitDiff(d) PROVE AJ!SubmitDiff
  <2>1. atomicDiffs' = Append(atomicDiffs, d) /\ atomicCommands' = atomicCommands
    BY <1>1 DEF SubmitDiff, atomicDiffs, atomicCommands
  <2> QED  BY <1>0, <2>1 DEF AJ!SubmitDiff
<1>2. ASSUME NEW c \in Command, SubmitCommand(c) PROVE AJ!SubmitCommand
  <2>1. /\ atomicCommands' = Append(atomicCommands, [command |-> c, tick |-> tick])
        /\ atomicDiffs' = atomicDiffs
    BY <1>2 DEF SubmitCommand, atomicDiffs, atomicCommands
  <2> QED  BY <1>0, <2>1 DEF AJ!SubmitCommand
<1>3. CASE ClearPending
  <2>1. atomicDiffs' = <<>> /\ atomicCommands' = <<>>
    BY <1>3 DEF ClearPending, atomicDiffs, atomicCommands
  <2> QED  BY <1>0, <2>1 DEF AJ!ClearPending
<1>4. CASE UNCHANGED <<pendingDiffs, pendingCommands>>
  <2>1. atomicDiffs' = atomicDiffs /\ atomicCommands' = atomicCommands
    BY <1>4 DEF atomicDiffs, atomicCommands
  <2> QED  BY <1>0, <2>1 DEF AJ!vars
<1>5. (\E t \in Table : RegisterTableSchema(t)) \/ UNCHANGED vars
        => UNCHANGED <<pendingDiffs, pendingCommands>>
  BY DEF RegisterTableSchema, vars, journalVars
<1>6. ~BeginCommit /\ ~Inside /\ ~Failing
  BY DEF BeginCommit, Inside, Failing
<1> QED  BY <1>1, <1>2, <1>3, <1>4, <1>5, <1>6, StepKinds

\* Beginning a commit, running it and failing it are invisible.
LEMMA CommitStutters ==
  ASSUME CommitInv, [Next]_vars, ~FinishCommit, ~(pc = "idle" /\ pc' = "idle")
  PROVE  UNCHANGED AJ!vars
<1>0. /\ tick' = tick /\ history' = history
      /\ atomicPublished' = atomicPublished /\ atomicVersions' = atomicVersions
  BY PublishedKept, VersionsKept, HistoryOrFinish DEF CommitInv, TypeInv
<1>1. CASE BeginCommit
  BY <1>0, <1>1 DEF BeginCommit, atomicDiffs, atomicCommands, AJ!vars
<1>2. CASE Inside
  BY <1>0, <1>2 DEF Inside, atomicDiffs, atomicCommands, AJ!vars
<1>3. CASE Failing
  BY <1>0, <1>3 DEF Failing, atomicDiffs, atomicCommands, AJ!vars
<1>4. CASE pc' = pc /\ UNCHANGED <<pendingDiffs, pendingCommands, txn>>
  BY <1>0, <1>4 DEF atomicDiffs, atomicCommands, AJ!vars
<1>5. (\E t \in Table : RegisterTableSchema(t)) \/ UNCHANGED vars
        => pc' = pc /\ UNCHANGED <<pendingDiffs, pendingCommands, txn>>
  BY DEF RegisterTableSchema, vars, journalVars, txnVars
<1>6. /\ ~\E d \in DiffInput : SubmitDiff(d)
      /\ ~\E c \in Command : SubmitCommand(c)
      /\ ~ClearPending
  BY DEF SubmitDiff, SubmitCommand, ClearPending
<1> QED  BY <1>1, <1>2, <1>3, <1>4, <1>5, <1>6, StepKinds

\* The last step of a successful commit is the abstract commit.
LEMMA FinishSimulates ==
  ASSUME CommitInv, FinishCommit
  PROVE  AJ!Commit
<1> USE DEF storeVars, txnVars, viewVars
<1>1. /\ pendingDiffs = <<>> /\ pendingCommands = <<>>
      /\ pc = "append" /\ pc' = "idle"
      /\ UNCHANGED <<pendingDiffs, pendingCommands, tables>>
  BY DEF CommitInv, QueueInv, FinishCommit
<1>2. /\ atomicDiffs = txn.diffs /\ atomicCommands = txn.commands
      /\ atomicDiffs' = <<>> /\ atomicCommands' = <<>>
  BY <1>1 DEF atomicDiffs, atomicCommands
<1>3. history' = AJ!PushBounded(history, AJ!CommitRecord(tick, atomicDiffs, atomicCommands))
  BY <1>2 DEF FinishCommit, PushBounded, CommitRecord, AJ!PushBounded, AJ!CommitRecord
<1>4. \A t \in Table \ AJ!Touched(atomicDiffs) : atomicVersions'[t] = atomicVersions[t]
  BY <1>1, <1>2 DEF atomicVersions, Touched, AJ!Touched
<1>5. /\ atomicPublished'.tick = tick /\ atomicPublished'.snapshot.tick = tick
      /\ \A t \in Table : atomicPublished'.cache[t].tick = tick
  <2>1. /\ atomicPublished' = published /\ latestTick = tick
        /\ snapshots[tick].tick = tick /\ latestSnapshot = snapshots[tick]
        /\ \A t \in Table : cache[t] = ViewOf(snapshots[tick], t)
    BY FinishPublished DEF CommitInv, TypeInv
  <2>2. \A t \in Table : cache[t].tick = tick
    <3>1. ASSUME NEW snap, NEW t PROVE ViewOf(snap, t).tick = snap.tick
      BY DEF ViewOf
    <3> QED  BY <2>1, <3>1
  <2>3. /\ published.tick = latestTick /\ published.cache = cache
        /\ published.snapshot = latestSnapshot
    BY DEF published
  <2> QED  BY <2>1, <2>2, <2>3
<1>6. tick' = tick + 1
  BY DEF FinishCommit
<1> QED  BY <1>2, <1>3, <1>4, <1>5, <1>6 DEF AJ!Commit

\* Journal::commit, with its steps interleaved with reads and any of them
\* failing, implements the atomic journal.
THEOREM Refinement == Spec => ImplementsAtomicJournal
<1>1. Init => AJ!Init
  BY DEF Init, AJ!Init, atomicDiffs, atomicCommands
<1>2. CommitInv /\ [Next]_vars => [AJ!Next]_(AJ!vars)
  BY CallsSimulate, CommitStutters, FinishSimulates DEF AJ!Next
<1> QED  BY <1>1, <1>2, CommitInvariant, PTL DEF Spec, ImplementsAtomicJournal, AJ!Spec

-----------------------------------------------------------------------------
(* Readers.  Their inductive invariant is not the one of the commit cycle  *)
(* alone: clear_cache can empty the cache at any step of a commit.         *)

ReadTypeInv == ReadTypeOK /\ RoomToAdvance

\* What an ingest stages is what the snapshot of the open tick defines.
StagedInv ==
  /\ pc \in {"begin", "ingest"} \/ publishing =>
       snapshots[tick] = [tick |-> tick, tables |-> tables]
  /\ pc = "ingest" =>
       \A t \in pendingIngest.staged : pendingIngest.views[t] = ViewOf(snapshots[tick], t)

\* The views of one cache, current, saved for a rollback or returned, are of
\* one tick.
Uniform(views) == \A t, u \in Table : views[t].tick = views[u].tick
UniformInv ==
  /\ Uniform(cache) /\ Uniform(undo.cache)
  /\ \A r \in Reader : Uniform(response[r])

\* latest_tick is the tick of the last commit, but for the open one from its
\* publication to the end of the commit or of its rollback.  The cache, and the
\* one a rollback would put back, are never behind the last commit.
LastTick == IF tick = 0 THEN NoTick ELSE tick - 1
inRollback == pc \in {"rollbackCache", "rollbackSnapshot", "rollbackTick"}
NotBehind(views) == \A t \in Table : views[t].tick + 1 >= tick
LatestInv ==
  /\ \/ latestTick = LastTick /\ pc # "append"
     \/ latestTick = tick /\ (pc = "append" \/ inRollback)
  /\ NotBehind(cache)
  /\ pc = "ingest" \/ publishing \/ inRollback => undo.tick = LastTick /\ NotBehind(undo.cache)

\* A tick that was loaded and not lost is committed, or still published.  One
\* that was asked for and committed is a bound on the response; the end of a
\* commit makes its own tick one that is.
SeenInv ==
  \A r \in Reader \ lostTick : rpc[r] \in {"cache", "done"} /\ seen[r] # NoTick =>
    seen[r] < tick \/ (seen[r] = tick /\ latestTick = tick)
FreshInv ==
  \A r \in Reader \ lostTick : rpc[r] = "done" /\ request[r] # 0 =>
    /\ seen[r] = request[r]
    /\ request[r] < tick \/ pc = "append" =>
         \A t \in Table : response[r][t].tick >= request[r]

\* Between the swap of the cache and the end of the commit the cache is at the
\* open tick, if not cleared.
PublishedInv == publishing => \A t \in Table : cache[t].tick \in {tick, NoTick}

\* A view that is served or was returned and not lost is empty, committed, or
\* the one that the running commit has published.
CommittedView(v, t) ==
  v.tick = NoTick \/ (v.tick < tick /\ v = ViewOf(snapshots[v.tick], t))
OpenView(v, t) == v.tick = tick /\ v = ViewOf(snapshots[tick], t)
ServedView(v, t) ==
  CommittedView(v, t) \/ ((publishing \/ pc = "rollbackCache") /\ OpenView(v, t))
HeldView(v, t) ==
  CommittedView(v, t) \/ ((publishing \/ inRollback) /\ OpenView(v, t))
ViewsInv ==
  \A t \in Table :
    /\ CommittedView(undo.cache[t], t) /\ ServedView(cache[t], t)
    /\ \A r \in Reader \ lostViews : HeldView(response[r][t], t)

-----------------------------------------------------------------------------
(* Types                                                                   *)

\* The steps of the readers leave the journal, the store and the engine alone.
LEMMA ReaderSteps ==
  ASSUME [ReadNext]_allVars
  PROVE  \/ [Next]_vars /\ UNCHANGED readerVars /\ LoseReads
         \/ ClearCache
         \/ /\ UNCHANGED vars
            /\ \E r \in Reader :
                 \/ \E t \in Ticks : StartRead(r, t)
                 \/ StartLookup(r)
                 \/ LoadTick(r) \/ ReadCache(r) \/ ReadFails(r) \/ DropResponse(r)
  BY DEF ReadNext, allVars, vars, LoseReads, StartRead, StartLookup, LoadTick, ReadCache,
         ReadFails, DropResponse

\* Readers start idle, on a journal that starts well typed.
LEMMA InitReadType == ReadInit => ReadTypeInv
<1> SUFFICES ASSUME ReadInit PROVE ReadTypeInv
  OBVIOUS
<1>1. TypeInv
  BY InitTypeInv DEF ReadInit
<1>2. 0 \in Ticks
  BY ArrowTableAssumption DEF Ticks
<1>3. NoResponse \in [Table -> View]
  BY EmptyTypes DEF NoResponse
<1> QED  BY <1>1, <1>2, <1>3 DEF ReadInit, ReadTypeInv, ReadTypeOK, TypeInv

\* Every step of a commit or of a reader keeps the types.
LEMMA NextReadType ==
  ASSUME ReadTypeInv, [ReadNext]_allVars
  PROVE  ReadTypeInv'
<1>0. TypeInv
  BY DEF ReadTypeInv, ReadTypeOK, TypeInv
<1>1. CASE [Next]_vars /\ UNCHANGED readerVars /\ LoseReads
  <2>1. TypeOK' /\ RoomToAdvance'
    BY <1>0, <1>1, NextTypeOK, NextRoom DEF TypeInv
  <2>2. lostTick' \in SUBSET Reader /\ lostViews' \in SUBSET Reader
    BY <1>1 DEF LoseReads, lost, ReadTypeInv, ReadTypeOK
  <2> QED  BY <1>1, <2>1, <2>2 DEF readerVars, ReadTypeInv, ReadTypeOK
<1>2. CASE ClearCache
  <2>1. cache' \in [Table -> View]
    BY <1>2, EmptyTypes DEF ClearCache
  <2>2. TypeOK' /\ RoomToAdvance'
    BY <1>0, <1>2, <2>1 DEF ClearCache, journalVars, saveVars, txnVars, storeVars,
       TypeInv, TypeOK, RoomToAdvance
  <2> QED  BY <1>2, <2>2 DEF ClearCache, readerVars, lost, ReadTypeInv, ReadTypeOK
<1>3. ASSUME UNCHANGED vars PROVE TypeOK' /\ RoomToAdvance'
  BY <1>0, <1>3, NextTypeOK, NextRoom DEF TypeInv
<1>4. ASSUME NEW r \in Reader, NEW t \in Ticks, StartRead(r, t) PROVE ReadTypeInv'
  BY <1>3, <1>4 DEF StartRead, lost, ReadTypeInv, ReadTypeOK
<1>5. ASSUME NEW r \in Reader, StartLookup(r) PROVE ReadTypeInv'
  BY <1>3, <1>5 DEF StartLookup, lost, ReadTypeInv, ReadTypeOK, TypeOK
<1>6. ASSUME NEW r \in Reader, LoadTick(r) PROVE ReadTypeInv'
  BY <1>3, <1>6 DEF LoadTick, lost, ReadTypeInv, ReadTypeOK, TypeOK
<1>7. ASSUME NEW r \in Reader, ReadCache(r) PROVE ReadTypeInv'
  BY <1>3, <1>7 DEF ReadCache, lost, ReadTypeInv, ReadTypeOK, TypeOK
<1>8. ASSUME NEW r \in Reader, ReadFails(r) \/ DropResponse(r) PROVE ReadTypeInv'
  <2>1. NoResponse \in [Table -> View] /\ 0 \in Ticks
    BY EmptyTypes, ArrowTableAssumption DEF NoResponse, Ticks
  <2>2. TypeOK' /\ RoomToAdvance'
    BY <1>3, <1>8 DEF ReadFails, DropResponse
  <2>3. Forget(r) /\ rpc' = [rpc EXCEPT ![r] = "idle"]
    BY <1>8 DEF ReadFails, DropResponse
  <2>4. /\ rpc' \in [Reader -> {"idle", "load", "cache", "done"}]
        /\ request' \in [Reader -> Ticks] /\ seen' \in [Reader -> Ticks \cup {NoTick}]
        /\ response' \in [Reader -> [Table -> View]]
    BY <2>1, <2>3 DEF Forget, ReadTypeInv, ReadTypeOK
  <2>5. lostTick' \in SUBSET Reader /\ lostViews' \in SUBSET Reader
    BY <2>3 DEF Forget, ReadTypeInv, ReadTypeOK
  <2>6. NoTick' = NoTick
    BY DEF NoTick
  <2> QED  BY <2>2, <2>4, <2>5, <2>6 DEF ReadTypeInv, ReadTypeOK
<1> QED  BY <1>1, <1>2, <1>4, <1>5, <1>6, <1>7, <1>8, ReaderSteps

-----------------------------------------------------------------------------
(* What a commit stages                                                    *)

\* The steps of a commit, by what they do to what readers are served.  Every
\* step not listed leaves the tick, the snapshots and the cache alone.
Quiet ==
  /\ UNCHANGED <<tick, snapshots, cache, latestTick>>
  /\ \/ pc \in {"apply", "begin", "restore"} /\ pc' = "idle" /\ undo' = NothingPublished
     \/ pc' = pc /\ UNCHANGED <<tables, pendingIngest, undo>>
     \/ pc \in {"idle", "apply"} /\ pc' = "apply" /\ UNCHANGED undo

\* Every step of the journal is quiet or one of these.
LEMMA CommitKinds ==
  ASSUME [Next]_vars
  PROVE  \/ Quiet
         \/ GenerateSnapshot \/ (BeginIngest /\ pc' = "ingest")
         \/ \E t \in Table : IngestTable(t) \/ UnknownSchema(t)
         \/ PublishCache \/ PublishSnapshot \/ PublishTick
         \/ FinishCommit \/ AppendFails
         \/ RollbackCache \/ RollbackSnapshot \/ RollbackTick
<1> USE DEF vars, journalVars, saveVars, txnVars, storeVars, viewVars
<1>1. ASSUME NEW d \in DiffInput, SubmitDiff(d) PROVE Quiet
  BY <1>1 DEF SubmitDiff, Quiet
<1>2. ASSUME NEW c \in Command, SubmitCommand(c) PROVE Quiet
  BY <1>2 DEF SubmitCommand, Quiet
<1>3. ASSUME NEW t \in Table, RegisterTableSchema(t) PROVE Quiet
  BY <1>3 DEF RegisterTableSchema, Quiet
<1>4. ClearPending \/ BeginCommit \/ ApplyNextDiff \/ UNCHANGED vars => Quiet
  BY DEF ClearPending, BeginCommit, ApplyNextDiff, Quiet
<1>5. MissingTable \/ RejectedDiff \/ RestoreStore => Quiet
  BY DEF MissingTable, RejectedDiff, RestoreStore, Reopen, Return, Quiet
<1>6. BeginIngest => Quiet \/ pc' = "ingest"
  BY DEF BeginIngest, Reopen, Return, Quiet
<1>7. CASE CommitStep
  BY <1>4, <1>5, <1>6, <1>7 DEF CommitStep
<1>8. CASE Next /\ ~CommitStep
  BY <1>1, <1>2, <1>3, <1>4, <1>8 DEF Next
<1>9. CASE UNCHANGED vars
  BY <1>4, <1>9
<1> QED  BY <1>7, <1>8, <1>9

\* The staged views follow the snapshot of the open tick.
LEMMA NextStagedInv ==
  ASSUME ReadTypeInv, StagedInv, [ReadNext]_allVars
  PROVE  StagedInv'
<1> USE DEF journalVars, saveVars, txnVars, storeVars, viewVars, StagedInv, publishing
<1>0. TypeOK
  BY DEF ReadTypeInv, ReadTypeOK
<1>1. ASSUME UNCHANGED <<tick, snapshots, tables, pc, pendingIngest>> PROVE StagedInv'
  BY <1>1
<1>2. ClearCache \/ UNCHANGED vars => StagedInv'
  BY <1>1 DEF ClearCache, vars
<1>3. CASE Quiet
  BY <1>1, <1>3 DEF Quiet
<1>4. CASE GenerateSnapshot
  BY <1>0, <1>4 DEF GenerateSnapshot, TypeOK
<1>5. CASE BeginIngest /\ pc' = "ingest"
  BY <1>5 DEF BeginIngest, NoIngest, Reopen
<1>6. ASSUME NEW t \in Table, IngestTable(t) PROVE StagedInv'
  <2>1. /\ pc = "ingest" /\ snapshots[tick] = [tick |-> tick, tables |-> tables]
        /\ UNCHANGED <<tick, snapshots, tables, pc>>
    BY <1>6 DEF IngestTable
  <2>2. ViewOf(snapshots[tick], t) = [tick |-> tick, batches |-> tables[t].versions[tick],
                                      positions |-> tables[t].positions]
    BY <2>1 DEF ViewOf
  <2>3. /\ pendingIngest'.staged = pendingIngest.staged \cup {t}
        /\ pendingIngest'.views = [pendingIngest.views EXCEPT ![t] = ViewOf(snapshots[tick], t)]
    BY <1>0, <1>6, <2>2 DEF IngestTable, TypeOK, Ingest
  <2>4. pendingIngest.views \in [Table -> View] /\ pendingIngest.staged \subseteq Table
    BY <1>0 DEF TypeOK, Ingest
  <2>5. \A u \in pendingIngest'.staged : pendingIngest'.views[u] = ViewOf(snapshots[tick], u)
    BY <2>1, <2>3, <2>4
  <2> QED  BY <2>1, <2>5
<1>7. ASSUME NEW t \in Table, UnknownSchema(t) PROVE StagedInv'
  BY <1>7 DEF UnknownSchema
<1>8. PublishCache \/ PublishSnapshot \/ PublishTick => StagedInv'
  BY DEF PublishCache, PublishSnapshot, PublishTick
<1>9. FinishCommit \/ AppendFails => StagedInv'
  BY DEF FinishCommit, AppendFails
<1>10. RollbackCache \/ RollbackSnapshot \/ RollbackTick => StagedInv'
  BY DEF RollbackCache, RollbackSnapshot, RollbackTick
<1> QED
  BY <1>2, <1>3, <1>4, <1>5, <1>6, <1>7, <1>8, <1>9, <1>10, ReaderSteps, CommitKinds

\* What the swap of the cache publishes: the views of the open tick.
LEMMA PublishedViews ==
  ASSUME ReadTypeInv, StagedInv, PublishCache
  PROVE  \A t \in Table : cache'[t] = ViewOf(snapshots[tick], t) /\ cache'[t].tick = tick
<1>1. cache' = pendingIngest.views /\ pendingIngest.staged = Table /\ pc = "ingest"
  BY DEF PublishCache
<1>2. \A t \in Table : cache'[t] = ViewOf(snapshots[tick], t)
  BY <1>1 DEF StagedInv
<1>3. snapshots[tick] = [tick |-> tick, tables |-> tables]
  BY <1>1 DEF StagedInv
<1>4. \A t \in Table : ViewOf(snapshots[tick], t).tick = tick
  BY <1>3 DEF ViewOf
<1> QED  BY <1>2, <1>4

-----------------------------------------------------------------------------
(* A response is of one tick                                               *)

\* The cache and its rollback copy are replaced as a whole.
LEMMA NextUniformInv ==
  ASSUME ReadTypeInv, StagedInv, UniformInv, [ReadNext]_allVars
  PROVE  UniformInv'
<1> USE DEF journalVars, saveVars, txnVars, storeVars, viewVars, readerVars
<1>0. /\ cache \in [Table -> View] /\ response \in [Reader -> [Table -> View]]
      /\ undo \in Published
  BY DEF ReadTypeInv, ReadTypeOK, TypeOK
<1>1. Uniform([t \in Table |-> NoView])
  BY DEF Uniform
<1>2. ASSUME Uniform(cache'), Uniform(undo'.cache), UNCHANGED response PROVE UniformInv'
  BY <1>2 DEF UniformInv
<1>3. Uniform(cache) /\ Uniform(undo.cache) /\ Uniform(NothingPublished.cache)
  BY <1>1 DEF UniformInv, NothingPublished
<1>4. CASE [Next]_vars /\ UNCHANGED readerVars
  <2>1. CASE Quiet
    BY <1>2, <1>3, <1>4, <2>1 DEF Quiet
  <2>2. GenerateSnapshot \/ PublishSnapshot \/ PublishTick \/ AppendFails => UniformInv'
    BY <1>2, <1>3, <1>4 DEF GenerateSnapshot, PublishSnapshot, PublishTick, AppendFails
  <2>3. CASE BeginIngest /\ pc' = "ingest"
    <3>1. undo' = published /\ cache' = cache
      BY <2>3 DEF BeginIngest, Reopen
    <3>2. undo'.cache = cache
      BY <3>1 DEF published
    <3> QED  BY <1>2, <1>3, <1>4, <3>1, <3>2
  <2>4. ASSUME NEW t \in Table, IngestTable(t) \/ UnknownSchema(t) PROVE UniformInv'
    BY <1>2, <1>3, <1>4, <2>4 DEF IngestTable, UnknownSchema
  <2>5. CASE PublishCache
    <3>1. Uniform(cache')
      BY <2>5, PublishedViews DEF Uniform
    <3> QED  BY <1>2, <1>3, <1>4, <2>5, <3>1 DEF PublishCache
  <2>6. CASE FinishCommit
    BY <1>2, <1>3, <1>4, <2>6 DEF FinishCommit, Return
  <2>7. RollbackCache \/ RollbackSnapshot \/ RollbackTick => UniformInv'
    BY <1>2, <1>3, <1>4 DEF RollbackCache, RollbackSnapshot, RollbackTick
  <2> QED  BY <1>4, <2>1, <2>2, <2>3, <2>4, <2>5, <2>6, <2>7, CommitKinds
<1>5. CASE ClearCache
  BY <1>1, <1>2, <1>3, <1>5 DEF ClearCache
<1>6. ASSUME UNCHANGED vars, NEW r \in Reader, NEW c \in [Table -> View], Uniform(c),
             response' = [response EXCEPT ![r] = c]
      PROVE  UniformInv'
  <2>1. \A q \in Reader : Uniform(response'[q])
    BY <1>0, <1>6 DEF UniformInv
  <2>2. UNCHANGED <<cache, undo>>
    BY <1>6 DEF vars
  <2> QED  BY <1>3, <2>1, <2>2 DEF UniformInv
<1>7. ASSUME UNCHANGED <<vars, response>> PROVE UniformInv'
  BY <1>2, <1>3, <1>7 DEF vars
<1>8. ASSUME NEW r \in Reader, ReadCache(r) PROVE UniformInv'
  BY <1>0, <1>3, <1>6, <1>8 DEF ReadCache
<1>9. ASSUME NEW r \in Reader, ReadFails(r) \/ DropResponse(r) PROVE UniformInv'
  <2>1. NoResponse \in [Table -> View] /\ Uniform(NoResponse)
    BY <1>1, EmptyTypes DEF NoResponse
  <2> QED  BY <1>6, <1>9, <2>1 DEF ReadFails, DropResponse, Forget
<1>10. ASSUME NEW r \in Reader,
              (\E t \in Ticks : StartRead(r, t)) \/ StartLookup(r) \/ LoadTick(r)
       PROVE  UniformInv'
  BY <1>7, <1>10 DEF StartRead, StartLookup, LoadTick
<1> QED  BY <1>4, <1>5, <1>8, <1>9, <1>10, ReaderSteps

\* Readers start with nothing, which is uniform.
LEMMA InitUniform == ReadInit => StagedInv /\ UniformInv
<1> SUFFICES ASSUME ReadInit PROVE StagedInv /\ UniformInv
  OBVIOUS
<1>1. StagedInv
  BY DEF ReadInit, Init, StagedInv, publishing
<1>2. UniformInv
  BY DEF ReadInit, Init, UniformInv, Uniform, NothingPublished, NoResponse
<1> QED  BY <1>1, <1>2

\* Whichever steps of commits, rollbacks, clear_cache and reads interleave, the
\* types are kept and no response mixes the views of two ticks.
THEOREM ResponsesUniform == ReadSpec => [](ReadTypeOK /\ UniformResponse)
<1> DEFINE Inv == ReadTypeInv /\ StagedInv /\ UniformInv
<1>1. ReadInit => Inv
  BY InitReadType, InitUniform
<1>2. Inv /\ [ReadNext]_allVars => Inv'
  BY NextReadType, NextStagedInv, NextUniformInv
<1>3. Inv => ReadTypeOK /\ UniformResponse
  BY DEF ReadTypeInv, UniformInv, Uniform, UniformResponse
<1> QED  BY <1>1, <1>2, <1>3, PTL DEF ReadSpec

-----------------------------------------------------------------------------
(* Freshness and committed views: a commit that fails after publication    *)
(* takes back what readers have seen, and LoseReads says which.            *)

\* Only the last step of a rollback makes readers lose anything.
LEMMA LostAtRollback ==
  ASSUME [Next]_vars, LoseReads, ~RollbackTick
  PROVE  UNCHANGED lost
<1>1. pc # "rollbackTick" \/ pc' = pc
  <2>1. Quiet => pc # "rollbackTick" \/ pc' = pc
    BY DEF Quiet
  <2>2. GenerateSnapshot \/ BeginIngest => pc # "rollbackTick"
    BY DEF GenerateSnapshot, BeginIngest
  <2>3. ASSUME NEW t \in Table, IngestTable(t) \/ UnknownSchema(t) PROVE pc # "rollbackTick"
    BY <2>3 DEF IngestTable, UnknownSchema
  <2>4. PublishCache \/ PublishSnapshot \/ PublishTick => pc # "rollbackTick"
    BY DEF PublishCache, PublishSnapshot, PublishTick
  <2>5. FinishCommit \/ AppendFails => pc # "rollbackTick"
    BY DEF FinishCommit, AppendFails
  <2>6. RollbackCache \/ RollbackSnapshot => pc # "rollbackTick"
    BY DEF RollbackCache, RollbackSnapshot
  <2> QED  BY <2>1, <2>2, <2>3, <2>4, <2>5, <2>6, CommitKinds
<1> QED  BY <1>1 DEF LoseReads

\* Nothing but clear_cache touches the cache while a commit publishes.
LEMMA NextPublishedInv ==
  ASSUME ReadTypeInv, StagedInv, PublishedInv, [ReadNext]_allVars
  PROVE  PublishedInv'
<1> USE DEF journalVars, saveVars, txnVars, storeVars, viewVars, publishing, PublishedInv
<1>1. CASE Quiet
  BY <1>1 DEF Quiet
<1>2. GenerateSnapshot \/ (BeginIngest /\ pc' = "ingest") => PublishedInv'
  BY DEF GenerateSnapshot
<1>3. ASSUME NEW t \in Table, IngestTable(t) \/ UnknownSchema(t) PROVE PublishedInv'
  BY <1>3 DEF IngestTable, UnknownSchema
<1>4. CASE PublishCache
  <2>1. tick' = tick
    BY <1>4 DEF PublishCache
  <2> QED  BY <1>4, <2>1, PublishedViews
<1>5. PublishSnapshot \/ PublishTick => PublishedInv'
  BY DEF PublishSnapshot, PublishTick
<1>6. FinishCommit \/ AppendFails => PublishedInv'
  BY DEF FinishCommit, AppendFails
<1>7. RollbackCache \/ RollbackSnapshot \/ RollbackTick => PublishedInv'
  BY DEF RollbackCache, RollbackSnapshot, RollbackTick
<1>8. CASE ClearCache
  BY <1>8 DEF ClearCache, NoView
<1>9. CASE UNCHANGED vars
  BY <1>9 DEF vars
<1> QED
  BY <1>1, <1>2, <1>3, <1>4, <1>5, <1>6, <1>7, <1>8, <1>9, ReaderSteps, CommitKinds

\* latest_tick is published after the cache and taken back last, and the cache
\* is never behind the last commit.
LEMMA NextLatestInv ==
  ASSUME ReadTypeInv, StagedInv, PublishedInv, LatestInv, [ReadNext]_allVars
  PROVE  LatestInv'
<1> USE DEF journalVars, saveVars, txnVars, storeVars, viewVars
<1>0. /\ cache \in [Table -> View] /\ undo \in Published /\ tick \in Ticks
      /\ latestTick \in Ticks \cup {NoTick}
  BY DEF ReadTypeInv, ReadTypeOK, TypeOK
<1>1. Ticks \subseteq Nat /\ NoTick \in Nat /\ \A t \in Ticks : t < NoTick
  BY ArrowTableAssumption DEF Ticks, NoTick
<1>2. ASSUME UNCHANGED tick
      PROVE  /\ LastTick' = LastTick
             /\ UNCHANGED cache => NotBehind(cache)' = NotBehind(cache)
             /\ UNCHANGED undo => NotBehind(undo.cache)' = NotBehind(undo.cache)
  BY <1>2 DEF LastTick, NoTick, NotBehind
<1>3. ASSUME UNCHANGED <<tick, cache, latestTick, undo>>,
             (pc' = "append") = (pc = "append"), inRollback => inRollback',
             pc' = "ingest" \/ publishing' \/ inRollback'
               => pc = "ingest" \/ publishing \/ inRollback
      PROVE  LatestInv'
  BY <1>2, <1>3 DEF LatestInv
<1>4. CASE [Next]_vars
  <2>1. CASE Quiet
    <3>1. CASE pc \in {"idle", "apply", "begin", "restore"} /\ pc' \in {"idle", "apply"}
      BY <1>2, <2>1, <3>1 DEF Quiet, LatestInv, inRollback, publishing
    <3>2. CASE pc' = pc /\ UNCHANGED undo
      BY <1>3, <2>1, <3>2 DEF Quiet, inRollback, publishing
    <3> QED  BY <2>1, <3>1, <3>2 DEF Quiet
  <2>2. CASE GenerateSnapshot
    BY <1>3, <2>2 DEF GenerateSnapshot, inRollback, publishing
  <2>3. CASE PublishSnapshot
    BY <1>3, <2>3 DEF PublishSnapshot, inRollback, publishing
  <2>4. CASE BeginIngest /\ pc' = "ingest"
    <3>1. undo' = published /\ UNCHANGED <<tick, cache, latestTick>> /\ pc = "begin"
      BY <2>4 DEF BeginIngest, Reopen
    <3>2. undo'.cache = cache /\ undo'.tick = latestTick
      BY <3>1 DEF published
    <3>3. latestTick = LastTick /\ NotBehind(cache)
      BY <3>1 DEF LatestInv, inRollback
    <3>4. NotBehind(undo'.cache) = NotBehind(cache)
      BY <3>2
    <3>5. NotBehind(undo.cache)' /\ NotBehind(cache)'
      BY <3>1, <3>2, <3>3 DEF NotBehind
    <3> QED  BY <1>2, <2>4, <3>1, <3>2, <3>3, <3>5 DEF LatestInv
  <2>5. ASSUME NEW t \in Table, IngestTable(t) \/ UnknownSchema(t) PROVE LatestInv'
    BY <1>3, <2>5 DEF IngestTable, UnknownSchema, inRollback, publishing
  <2>6. CASE PublishCache
    <3>1. \A t \in Table : cache'[t].tick = tick
      BY <2>6, PublishedViews
    <3>2. UNCHANGED <<tick, latestTick, undo>> /\ pc = "ingest" /\ pc' = "publishSnapshot"
      BY <2>6 DEF PublishCache
    <3>3. NotBehind(cache)'
      BY <1>0, <1>1, <3>1, <3>2 DEF NotBehind
    <3> QED  BY <1>2, <3>2, <3>3 DEF LatestInv, inRollback
  <2>7. CASE PublishTick
    <3>1. latestTick' = tick /\ UNCHANGED <<tick, cache, undo>> /\ pc' = "append"
          /\ pc = "publishTick"
      BY <2>7 DEF PublishTick
    <3> QED  BY <1>2, <3>1 DEF LatestInv, publishing
  <2>8. CASE FinishCommit
    <3>1. tick' = tick + 1 /\ UNCHANGED <<cache, latestTick>> /\ pc' = "idle" /\ pc = "append"
      BY <2>8 DEF FinishCommit
    <3>2. latestTick' = LastTick'
      BY <1>0, <1>1, <3>1 DEF LatestInv, LastTick
    <3>3. NotBehind(cache)'
      BY <1>0, <1>1, <3>1 DEF PublishedInv, publishing, NotBehind
    <3> QED  BY <3>1, <3>2, <3>3 DEF LatestInv, publishing, inRollback
  <2>9. CASE AppendFails
    <3>1. UNCHANGED <<tick, cache, latestTick, undo>> /\ pc = "append" /\ pc' = "rollbackCache"
      BY <2>9 DEF AppendFails
    <3> QED  BY <1>2, <3>1 DEF LatestInv, publishing, inRollback
  <2>10. CASE RollbackCache
    <3>1. cache' = undo.cache /\ UNCHANGED <<tick, latestTick, undo>>
          /\ pc = "rollbackCache" /\ pc' = "rollbackSnapshot"
      BY <2>10 DEF RollbackCache
    <3>2. NotBehind(cache)'
      BY <3>1 DEF LatestInv, NotBehind, inRollback
    <3> QED  BY <1>2, <3>1, <3>2 DEF LatestInv, inRollback
  <2>11. CASE RollbackSnapshot
    BY <1>3, <2>11 DEF RollbackSnapshot, inRollback, publishing
  <2>12. CASE RollbackTick
    <3>1. latestTick' = undo.tick /\ UNCHANGED <<tick, cache, undo>>
          /\ pc = "rollbackTick" /\ pc' = "restore"
      BY <2>12 DEF RollbackTick
    <3> QED  BY <1>2, <3>1 DEF LatestInv, inRollback, publishing
  <2> QED
    BY <1>4, <2>1, <2>2, <2>3, <2>4, <2>5, <2>6, <2>7, <2>8, <2>9, <2>10, <2>11, <2>12, CommitKinds
<1>5. CASE ClearCache
  <2>1. UNCHANGED <<tick, latestTick, undo, pc>> /\ \A t \in Table : cache'[t].tick = NoTick
    BY <1>5 DEF ClearCache, NoView
  <2>2. NotBehind(cache)'
    BY <1>0, <1>1, <2>1 DEF NotBehind
  <2> QED  BY <1>2, <2>1, <2>2 DEF LatestInv, inRollback, publishing
<1>6. CASE UNCHANGED vars
  BY <1>3, <1>6 DEF vars, inRollback, publishing
<1> QED  BY <1>4, <1>5, <1>6, ReaderSteps

\* A reader keeps what it loaded until it is lost, and is given nothing older.
LEMMA NextSeenInv ==
  ASSUME ReadTypeInv, PublishedInv, LatestInv, SeenInv, FreshInv, [ReadNext]_allVars
  PROVE  SeenInv' /\ FreshInv'
<1> USE DEF journalVars, saveVars, txnVars, storeVars, viewVars, readerVars
<1>0. /\ tick \in Ticks /\ latestTick \in Ticks \cup {NoTick} /\ cache \in [Table -> View]
      /\ rpc \in [Reader -> {"idle", "load", "cache", "done"}]
      /\ request \in [Reader -> Ticks] /\ seen \in [Reader -> Ticks \cup {NoTick}]
      /\ response \in [Reader -> [Table -> View]]
  BY DEF ReadTypeInv, ReadTypeOK, TypeOK
<1>1. Ticks \subseteq Nat /\ NoTick \in Nat /\ (\A t \in Ticks : t < NoTick) /\ NoTick' = NoTick
  BY ArrowTableAssumption DEF Ticks, NoTick
<1>2. ASSUME UNCHANGED <<tick, latestTick, readerVars, lost>>, pc' = "append" => pc = "append"
      PROVE  SeenInv' /\ FreshInv'
  BY <1>1, <1>2 DEF SeenInv, FreshInv, lost
<1>3. ASSUME UNCHANGED readerVars, UNCHANGED lost, PublishTick PROVE SeenInv' /\ FreshInv'
  <2>1. /\ UNCHANGED tick /\ latestTick' = tick
        /\ latestTick = LastTick /\ LastTick # tick
    BY <1>0, <1>1, <1>3 DEF PublishTick, LatestInv, LastTick, inRollback
  <2>2. ASSUME NEW r \in Reader \ lostTick, rpc[r] \in {"cache", "done"}, seen[r] # NoTick
        PROVE  seen[r] < tick
    BY <2>1, <2>2 DEF SeenInv
  <2>3. SeenInv'
    BY <1>1, <1>3, <2>1, <2>2 DEF SeenInv, lost
  <2>4. ASSUME NEW r \in Reader \ lostTick, rpc[r] = "done", request[r] # 0
        PROVE  seen[r] = request[r] /\ request[r] < tick
               /\ \A t \in Table : response[r][t].tick >= request[r]
    <3>1. seen[r] = request[r] /\ seen[r] # NoTick
      BY <1>0, <1>1, <2>4 DEF FreshInv
    <3> QED  BY <2>2, <2>4, <3>1 DEF FreshInv
  <2>5. FreshInv'
    BY <1>3, <2>4 DEF FreshInv, lost
  <2> QED  BY <2>3, <2>5
<1>4. ASSUME UNCHANGED readerVars, UNCHANGED lost, FinishCommit PROVE SeenInv' /\ FreshInv'
  <2>1. tick' = tick + 1 /\ pc = "append" /\ pc' = "idle"
    BY <1>4 DEF FinishCommit
  <2>2. ASSUME NEW r \in Reader \ lostTick, rpc[r] \in {"cache", "done"}, seen[r] # NoTick
        PROVE  seen[r] < tick'
    <3>1. seen[r] \in Nat /\ tick \in Nat
      BY <1>0, <1>1
    <3> QED  BY <2>1, <2>2, <3>1 DEF SeenInv
  <2>3. SeenInv'
    BY <1>1, <1>4, <2>2 DEF SeenInv, lost
  <2>4. FreshInv'
    BY <1>4, <2>1 DEF FreshInv, lost
  <2> QED  BY <2>3, <2>4
<1>5. ASSUME UNCHANGED readerVars, LoseReads, RollbackTick PROVE SeenInv' /\ FreshInv'
  <2>1. /\ UNCHANGED tick /\ pc' = "restore"
        /\ lostTick' = lostTick \cup {r \in Reader : seen[r] = tick}
    BY <1>5 DEF RollbackTick, LoseReads
  <2>2. ASSUME NEW r \in Reader \ lostTick', rpc[r] \in {"cache", "done"}, seen[r] # NoTick
        PROVE  r \in Reader \ lostTick /\ seen[r] < tick
    BY <2>1, <2>2 DEF SeenInv
  <2>3. SeenInv'
    BY <1>1, <1>5, <2>1, <2>2 DEF SeenInv
  <2>4. FreshInv'
    BY <1>5, <2>1 DEF FreshInv
  <2> QED  BY <2>3, <2>4
<1>6. CASE [Next]_vars /\ UNCHANGED readerVars /\ LoseReads
  <2>1. ~RollbackTick => UNCHANGED lost
    BY <1>6, LostAtRollback
  <2>2. CASE Quiet
    <3>1. pc # "rollbackTick" \/ pc' = pc
      BY <2>2 DEF Quiet
    <3>2. UNCHANGED <<tick, latestTick, readerVars, lost>> /\ (pc' = "append" => pc = "append")
      BY <1>6, <2>2, <3>1 DEF Quiet, LoseReads
    <3> QED  BY <1>2, <3>2
  <2>3. GenerateSnapshot \/ PublishSnapshot => SeenInv' /\ FreshInv'
    BY <1>2, <1>6, <2>1 DEF GenerateSnapshot, PublishSnapshot, RollbackTick
  <2>4. CASE BeginIngest /\ pc' = "ingest"
    BY <1>2, <1>6, <2>1, <2>4 DEF BeginIngest, Reopen, RollbackTick
  <2>5. ASSUME NEW t \in Table, IngestTable(t) \/ UnknownSchema(t) PROVE SeenInv' /\ FreshInv'
    BY <1>2, <1>6, <2>1, <2>5 DEF IngestTable, UnknownSchema, RollbackTick
  <2>6. PublishCache \/ AppendFails => SeenInv' /\ FreshInv'
    BY <1>2, <1>6, <2>1 DEF PublishCache, AppendFails, RollbackTick
  <2>7. RollbackCache \/ RollbackSnapshot => SeenInv' /\ FreshInv'
    BY <1>2, <1>6, <2>1 DEF RollbackCache, RollbackSnapshot, RollbackTick
  <2>8. PublishTick => SeenInv' /\ FreshInv'
    BY <1>3, <1>6, <2>1 DEF PublishTick, RollbackTick
  <2>9. FinishCommit => SeenInv' /\ FreshInv'
    BY <1>4, <1>6, <2>1 DEF FinishCommit, RollbackTick
  <2>10. RollbackTick => SeenInv' /\ FreshInv'
    BY <1>5, <1>6
  <2> QED  BY <1>6, <2>2, <2>3, <2>4, <2>5, <2>6, <2>7, <2>8, <2>9, <2>10, CommitKinds
<1>7. ASSUME UNCHANGED <<tick, latestTick, pc>>, NEW r \in Reader,
             rpc'[r] = "cache" => seen'[r] = latestTick,
             rpc'[r] # "done",
             \A q \in Reader \ {r} :
               /\ rpc'[q] = rpc[q] /\ seen'[q] = seen[q] /\ response'[q] = response[q]
               /\ request'[q] = request[q] /\ (q \notin lostTick' => q \notin lostTick)
      PROVE  SeenInv' /\ FreshInv'
  <2>1. latestTick # NoTick => latestTick < tick \/ latestTick = tick
    BY <1>0, <1>1 DEF LatestInv, LastTick
  <2>2. SeenInv'
    BY <1>1, <1>7, <2>1 DEF SeenInv
  <2>3. FreshInv'
    BY <1>7 DEF FreshInv
  <2> QED  BY <2>2, <2>3
<1>8. ASSUME NEW r \in Reader, (\E t \in Ticks : StartRead(r, t)) \/ StartLookup(r) \/ LoadTick(r)
      PROVE  SeenInv' /\ FreshInv'
  BY <1>0, <1>7, <1>8 DEF StartRead, StartLookup, LoadTick, vars, lost
<1>9. ASSUME NEW r \in Reader, ReadFails(r) \/ DropResponse(r) PROVE SeenInv' /\ FreshInv'
  <2>1. /\ UNCHANGED <<tick, latestTick, pc>> /\ rpc'[r] = "idle"
        /\ \A q \in Reader \ {r} :
             /\ rpc'[q] = rpc[q] /\ seen'[q] = seen[q] /\ response'[q] = response[q]
             /\ request'[q] = request[q]
        /\ lostTick' = lostTick \ {r}
    BY <1>0, <1>9 DEF ReadFails, DropResponse, Forget, vars
  <2>2. \A q \in Reader \ {r} : q \notin lostTick' => q \notin lostTick
    BY <2>1
  <2> QED  BY <1>7, <2>1, <2>2
<1>10. ASSUME NEW r \in Reader, ReadCache(r) PROVE SeenInv' /\ FreshInv'
  <2>1. /\ UNCHANGED <<tick, latestTick, pc, request, seen, lostTick>>
        /\ ~ReadRefused(r) /\ rpc[r] = "cache"
        /\ response' = [response EXCEPT ![r] = cache]
        /\ rpc' = [rpc EXCEPT ![r] = "done"]
    BY <1>10 DEF ReadCache, vars, lost
  <2>2. SeenInv'
    BY <1>0, <1>1, <2>1 DEF SeenInv
  <2>3. ASSUME r \notin lostTick, request[r] # 0
        PROVE  /\ seen[r] = request[r]
               /\ request[r] < tick \/ pc = "append" =>
                    \A t \in Table : cache[t].tick >= request[r]
    <3>1. seen[r] = request[r] /\ seen[r] # NoTick
      BY <1>0, <1>1, <2>1, <2>3 DEF ReadRefused
    <3>2. \A t \in Table : cache[t].tick \in Nat
      BY <1>0, <1>1 DEF View
    <3>3. request[r] \in Nat /\ tick \in Nat /\ tick < NoTick /\ NoTick \in Nat
      BY <1>0, <1>1
    <3>4. CASE request[r] < tick
      BY <3>1, <3>2, <3>3, <3>4 DEF LatestInv, NotBehind
    <3>5. CASE pc = "append"
      <4>1. request[r] <= tick
        BY <2>1, <2>3, <3>1, <3>3 DEF SeenInv
      <4>2. \A t \in Table : cache[t].tick \in {tick, NoTick}
        BY <3>5 DEF PublishedInv, publishing
      <4> QED  BY <3>1, <3>3, <4>1, <4>2
    <3> QED  BY <3>1, <3>4, <3>5
  <2>4. FreshInv'
    <3> SUFFICES ASSUME NEW q \in Reader \ lostTick', rpc'[q] = "done", request'[q] # 0
                 PROVE  /\ seen'[q] = request'[q]
                        /\ request'[q] < tick' \/ pc' = "append" =>
                             \A t \in Table : response'[q][t].tick >= request'[q]
      BY DEF FreshInv
    <3>1. CASE q = r
      BY <1>0, <2>1, <2>3, <3>1
    <3>2. CASE q # r
      BY <1>0, <2>1, <3>2 DEF FreshInv
    <3> QED  BY <3>1, <3>2
  <2> QED  BY <2>2, <2>4
<1>11. CASE ClearCache
  BY <1>2, <1>11 DEF ClearCache, lost
<1> QED  BY <1>6, <1>8, <1>9, <1>10, <1>11, ReaderSteps

\* A committed view stays one: a snapshot is written for the open tick only.
LEMMA CommittedStays ==
  ASSUME ReadTypeInv, [ReadNext]_allVars, NEW v \in View, NEW t \in Table, CommittedView(v, t)
  PROVE  CommittedView(v, t)'
<1> USE DEF journalVars, saveVars, txnVars, storeVars, viewVars
<1>0. tick \in Ticks /\ snapshots \in [Ticks -> Snapshot] /\ v.tick \in Ticks \cup {NoTick}
  BY DEF ReadTypeInv, ReadTypeOK, TypeOK, View
<1>1. Ticks \subseteq Nat /\ NoTick \in Nat /\ (\A n \in Ticks : n < NoTick) /\ NoTick' = NoTick
  BY ArrowTableAssumption DEF Ticks, NoTick
<1>2. ASSUME UNCHANGED <<tick, snapshots>> PROVE CommittedView(v, t)'
  BY <1>1, <1>2 DEF CommittedView
<1>3. CASE GenerateSnapshot
  <2>1. UNCHANGED tick /\ \A n \in Ticks \ {tick} : snapshots'[n] = snapshots[n]
    BY <1>0, <1>3 DEF GenerateSnapshot
  <2>2. v.tick # NoTick => v.tick \in Ticks \ {tick}
    BY <1>0, <1>1 DEF CommittedView
  <2> QED  BY <1>1, <2>1, <2>2 DEF CommittedView
<1>4. CASE FinishCommit
  <2>1. tick' = tick + 1 /\ UNCHANGED snapshots
    BY <1>4 DEF FinishCommit
  <2>2. v.tick \in Nat /\ tick \in Nat
    BY <1>0, <1>1
  <2>3. v.tick < tick => v.tick < tick'
    BY <2>1, <2>2
  <2> QED  BY <1>1, <2>1, <2>3 DEF CommittedView
<1>5. CASE [Next]_vars
  <2>1. Quiet => CommittedView(v, t)'
    BY <1>2 DEF Quiet
  <2>2. BeginIngest /\ pc' = "ingest" => CommittedView(v, t)'
    BY <1>2 DEF BeginIngest, Reopen
  <2>3. ASSUME NEW u \in Table, IngestTable(u) \/ UnknownSchema(u) PROVE CommittedView(v, t)'
    BY <1>2, <2>3 DEF IngestTable, UnknownSchema
  <2>4. PublishCache \/ PublishSnapshot \/ PublishTick \/ AppendFails => CommittedView(v, t)'
    BY <1>2 DEF PublishCache, PublishSnapshot, PublishTick, AppendFails
  <2>5. RollbackCache \/ RollbackSnapshot \/ RollbackTick => CommittedView(v, t)'
    BY <1>2 DEF RollbackCache, RollbackSnapshot, RollbackTick
  <2> QED  BY <1>3, <1>4, <1>5, <2>1, <2>2, <2>3, <2>4, <2>5, CommitKinds
<1>6. ClearCache \/ UNCHANGED vars => CommittedView(v, t)'
  BY <1>2 DEF ClearCache, vars
<1> QED  BY <1>5, <1>6, ReaderSteps

\* An open view is committed by the end of its commit.
LEMMA OpenCommitted ==
  ASSUME ReadTypeInv, FinishCommit, NEW v, NEW t, OpenView(v, t)
  PROVE  CommittedView(v, t)'
<1>1. tick \in Nat
  BY ArrowTableAssumption DEF ReadTypeInv, ReadTypeOK, TypeOK, Ticks
<1>2. tick' = tick + 1 /\ UNCHANGED snapshots
  BY DEF FinishCommit, storeVars
<1> QED  BY <1>1, <1>2 DEF OpenView, CommittedView

\* What is served or held of the open tick was published by the running commit,
\* and is committed or taken back with it.
LEMMA NextViewsInv ==
  ASSUME ReadTypeInv, StagedInv, ViewsInv, [ReadNext]_allVars
  PROVE  ViewsInv'
<1> USE DEF journalVars, saveVars, txnVars, storeVars, viewVars, readerVars
<1>0. /\ cache \in [Table -> View] /\ undo \in Published /\ undo.cache \in [Table -> View]
      /\ response \in [Reader -> [Table -> View]]
  BY DEF ReadTypeInv, ReadTypeOK, TypeOK, Published
<1>1. \A v \in View, t \in Table : CommittedView(v, t) => CommittedView(v, t)'
  BY CommittedStays
<1>2. \A t \in Table : CommittedView(NoView, t)' /\ CommittedView(NothingPublished.cache[t], t)'
  BY DEF CommittedView, NoView, NothingPublished
<1>3. ASSUME UNCHANGED <<tick, snapshots, cache, undo, response>>,
             publishing \/ pc = "rollbackCache" => publishing' \/ pc' = "rollbackCache",
             publishing \/ inRollback => publishing' \/ inRollback',
             \A r \in Reader : r \notin lostViews' => r \notin lostViews
      PROVE  ViewsInv'
  <2>1. \A v \in View, t \in Table : /\ ServedView(v, t) => ServedView(v, t)'
                                     /\ HeldView(v, t) => HeldView(v, t)'
    BY <1>1, <1>3 DEF OpenView, ServedView, HeldView
  <2>2. \A t \in Table : CommittedView(undo.cache[t], t)' /\ ServedView(cache[t], t)'
    <3>1. \A t \in Table : CommittedView(undo.cache[t], t) /\ ServedView(cache[t], t)
      BY DEF ViewsInv
    <3>2. \A t \in Table : cache[t] \in View /\ undo.cache[t] \in View
      BY <1>0
    <3> QED  BY <1>1, <1>3, <2>1, <3>1, <3>2 DEF ServedView, CommittedView, OpenView
  <2>3. \A t \in Table, r \in Reader \ lostViews' : HeldView(response[r][t], t)'
    <3>1. \A t \in Table, r \in Reader \ lostViews' :
            HeldView(response[r][t], t) /\ response[r][t] \in View
      BY <1>0, <1>3 DEF ViewsInv
    <3> QED  BY <1>3, <2>1, <3>1 DEF HeldView, CommittedView, OpenView
  <2> QED  BY <2>2, <2>3 DEF ViewsInv
<1>4. CASE [Next]_vars /\ UNCHANGED readerVars /\ LoseReads
  <2>0. response' = response
    BY <1>4
  <2>1. ~RollbackTick => UNCHANGED <<lostTick, lostViews>>
    BY <1>4, LostAtRollback DEF lost
  <2>2. CASE Quiet
    <3>1. UNCHANGED <<lostTick, lostViews>>
      <4>1. pc # "rollbackTick" \/ pc' = pc
        BY <2>2 DEF Quiet
      <4> QED  BY <1>4, <4>1 DEF LoseReads, lost
    <3>2. CASE pc' = pc /\ UNCHANGED undo
      BY <1>3, <2>0, <2>2, <3>1, <3>2 DEF Quiet, publishing, inRollback
    <3>3. CASE pc \in {"idle", "apply", "begin", "restore"} /\ undo' \in {undo, NothingPublished}
      <4>1. UNCHANGED cache /\ ~publishing /\ ~inRollback /\ pc # "rollbackCache"
        BY <2>2, <3>3 DEF Quiet, publishing, inRollback
      <4>2. \A t \in Table : CommittedView(undo.cache[t], t)' /\ CommittedView(cache[t], t)'
        BY <1>0, <1>1, <1>2, <3>3, <4>1 DEF ViewsInv, ServedView
      <4>3. \A t \in Table, r \in Reader \ lostViews' : CommittedView(response[r][t], t)'
        BY <1>0, <1>1, <2>0, <3>1, <4>1 DEF ViewsInv, HeldView
      <4> QED  BY <4>2, <4>3 DEF ViewsInv, ServedView, HeldView
    <3> QED  BY <2>2, <3>2, <3>3 DEF Quiet
  <2>3. ASSUME UNCHANGED lostViews, ~publishing, ~inRollback,
               UNCHANGED cache, undo' = undo \/ undo'.cache = cache
        PROVE  ViewsInv'
    <3>1. \A t \in Table : /\ CommittedView(cache[t], t) /\ CommittedView(undo.cache[t], t)
                           /\ \A r \in Reader \ lostViews : CommittedView(response[r][t], t)
      BY <2>3 DEF ViewsInv, ServedView, HeldView, inRollback
    <3>2. \A t \in Table : CommittedView(undo.cache[t], t)' /\ CommittedView(cache[t], t)'
      BY <1>0, <1>1, <2>3, <3>1
    <3>3. \A t \in Table, r \in Reader \ lostViews' : CommittedView(response[r][t], t)'
      BY <1>0, <1>1, <2>0, <2>3, <3>1
    <3> QED  BY <3>2, <3>3 DEF ViewsInv, ServedView, HeldView
  <2>4. CASE GenerateSnapshot
    BY <2>1, <2>3, <2>4 DEF GenerateSnapshot, RollbackTick, publishing, inRollback
  <2>5. CASE BeginIngest /\ pc' = "ingest"
    <3>1. undo' = published /\ UNCHANGED cache /\ pc = "begin"
      BY <2>5 DEF BeginIngest, Reopen
    <3>2. undo'.cache = cache
      BY <3>1 DEF published
    <3> QED  BY <2>1, <2>3, <3>1, <3>2 DEF RollbackTick, publishing, inRollback
  <2>6. ASSUME NEW t \in Table, IngestTable(t) \/ UnknownSchema(t) PROVE ViewsInv'
    BY <2>1, <2>3, <2>6 DEF IngestTable, UnknownSchema, RollbackTick, publishing, inRollback
  <2>7. CASE PublishCache
    <3>1. /\ UNCHANGED <<tick, snapshots, undo, lostViews>> /\ pc = "ingest"
          /\ pc' = "publishSnapshot"
      BY <2>1, <2>7 DEF PublishCache, RollbackTick
    <3>2. \A t \in Table : ServedView(cache[t], t)'
      BY <2>7, <3>1, PublishedViews DEF ServedView, OpenView, publishing
    <3>3. \A t \in Table, r \in Reader \ lostViews' : CommittedView(response[r][t], t)'
      BY <1>0, <1>1, <2>0, <3>1 DEF ViewsInv, HeldView, publishing, inRollback
    <3>4. \A t \in Table : CommittedView(undo.cache[t], t)'
      BY <1>0, <1>1, <3>1 DEF ViewsInv
    <3> QED  BY <3>2, <3>3, <3>4 DEF ViewsInv, HeldView
  <2>8. PublishSnapshot \/ PublishTick \/ AppendFails => ViewsInv'
    BY <1>3, <2>0, <2>1
       DEF PublishSnapshot, PublishTick, AppendFails, RollbackTick, publishing, inRollback
  <2>9. CASE FinishCommit
    <3>1. UNCHANGED <<cache, lostViews>> /\ undo' = NothingPublished
      BY <2>1, <2>9 DEF FinishCommit, Return, RollbackTick
    <3>2. \A t \in Table : CommittedView(cache[t], t)' /\ CommittedView(undo.cache[t], t)'
      BY <1>0, <1>1, <1>2, <2>9, <3>1, OpenCommitted DEF ViewsInv, ServedView
    <3>3. \A t \in Table, r \in Reader \ lostViews' : CommittedView(response[r][t], t)'
      BY <1>0, <1>1, <2>0, <2>9, <3>1, OpenCommitted DEF ViewsInv, HeldView
    <3> QED  BY <3>2, <3>3 DEF ViewsInv, ServedView, HeldView
  <2>10. CASE RollbackCache
    <3>1. /\ cache' = undo.cache /\ UNCHANGED <<tick, snapshots, undo, lostViews>>
          /\ pc' = "rollbackSnapshot"
      BY <2>1, <2>10 DEF RollbackCache, RollbackTick
    <3>2. \A t \in Table : CommittedView(undo.cache[t], t)' /\ CommittedView(cache[t], t)'
      BY <1>0, <1>1, <3>1 DEF ViewsInv
    <3>3. \A t \in Table, r \in Reader \ lostViews' : HeldView(response[r][t], t)'
      BY <1>0, <1>1, <2>0, <3>1 DEF ViewsInv, HeldView, OpenView, inRollback
    <3> QED  BY <3>2, <3>3 DEF ViewsInv, ServedView
  <2>11. CASE RollbackSnapshot
    BY <1>3, <2>0, <2>1, <2>11 DEF RollbackSnapshot, RollbackTick, publishing, inRollback
  <2>12. CASE RollbackTick
    <3>1. /\ UNCHANGED <<tick, snapshots, undo, cache>> /\ pc = "rollbackTick" /\ pc' = "restore"
          /\ lostViews' = lostViews \cup
               {r \in Reader : \E t \in Table : response[r][t].tick = tick}
      BY <1>4, <2>12 DEF RollbackTick, LoseReads
    <3>2. \A t \in Table : CommittedView(undo.cache[t], t)' /\ CommittedView(cache[t], t)'
      BY <1>0, <1>1, <3>1 DEF ViewsInv, ServedView, publishing
    <3>3. \A t \in Table, r \in Reader \ lostViews' : CommittedView(response[r][t], t)'
      BY <1>0, <1>1, <2>0, <3>1 DEF ViewsInv, HeldView, OpenView
    <3> QED  BY <3>2, <3>3 DEF ViewsInv, ServedView, HeldView
  <2> QED
    BY <1>4, <2>2, <2>4, <2>5, <2>6, <2>7, <2>8, <2>9, <2>10, <2>11, <2>12, CommitKinds
<1>5. CASE ClearCache
  <2>1. UNCHANGED <<tick, snapshots, undo, pc, response, lostViews>>
        /\ \A t \in Table : cache'[t] = NoView
    BY <1>5 DEF ClearCache, lost
  <2>2. \A t \in Table : CommittedView(undo.cache[t], t)' /\ CommittedView(cache[t], t)'
    BY <1>0, <1>1, <1>2, <2>1 DEF ViewsInv
  <2>3. \A t \in Table, r \in Reader \ lostViews' : HeldView(response[r][t], t)'
    BY <1>0, <1>1, <2>1 DEF ViewsInv, HeldView, OpenView, publishing, inRollback
  <2> QED  BY <2>2, <2>3 DEF ViewsInv, ServedView
<1>6. ASSUME UNCHANGED <<vars, response, lostViews>> PROVE ViewsInv'
  BY <1>3, <1>6 DEF vars, publishing, inRollback
<1>7. ASSUME UNCHANGED vars, NEW r \in Reader, NEW c \in [Table -> View],
             response' = [response EXCEPT ![r] = c],
             r \notin lostViews' => \A t \in Table : HeldView(c[t], t),
             \A q \in Reader \ {r} : q \notin lostViews' => q \notin lostViews
      PROVE  ViewsInv'
  <2>1. UNCHANGED <<tick, snapshots, undo, cache, pc>>
    BY <1>7 DEF vars
  <2>2. \A v \in View, t \in Table : HeldView(v, t) => HeldView(v, t)'
    BY <1>1, <2>1 DEF HeldView, OpenView, publishing, inRollback
  <2>3. \A t \in Table : CommittedView(undo.cache[t], t)' /\ ServedView(cache[t], t)'
    BY <1>0, <1>1, <2>1 DEF ViewsInv, ServedView, OpenView, publishing
  <2>4. \A t \in Table, q \in Reader \ lostViews' : HeldView(response'[q][t], t)
    BY <1>0, <1>7 DEF ViewsInv
  <2>5. \A t \in Table, q \in Reader : response'[q][t] \in View
    BY <1>0, <1>7
  <2>6. \A t \in Table, q \in Reader \ lostViews' : HeldView(response[q][t], t)'
    BY <2>1, <2>4, <2>5 DEF HeldView, CommittedView, OpenView, publishing, inRollback, NoTick
  <2> QED  BY <2>3, <2>6 DEF ViewsInv
<1>8. ASSUME NEW r \in Reader, ReadCache(r) PROVE ViewsInv'
  <2>1. UNCHANGED vars /\ UNCHANGED lostViews /\ response' = [response EXCEPT ![r] = cache]
    BY <1>8 DEF ReadCache, lost
  <2>2. \A t \in Table : HeldView(cache[t], t)
    BY DEF ViewsInv, ServedView, HeldView, inRollback
  <2> QED  BY <1>0, <1>7, <2>1, <2>2
<1>9. ASSUME NEW r \in Reader, ReadFails(r) \/ DropResponse(r) PROVE ViewsInv'
  <2>1. NoResponse \in [Table -> View] /\ \A t \in Table : HeldView(NoResponse[t], t)
    BY EmptyTypes DEF NoResponse, HeldView, CommittedView, NoView
  <2>2. /\ UNCHANGED vars /\ response' = [response EXCEPT ![r] = NoResponse]
        /\ lostViews' = lostViews \ {r}
    BY <1>9 DEF ReadFails, DropResponse, Forget
  <2> QED  BY <1>7, <2>1, <2>2
<1>10. ASSUME NEW r \in Reader,
              (\E t \in Ticks : StartRead(r, t)) \/ StartLookup(r) \/ LoadTick(r)
       PROVE  ViewsInv'
  BY <1>6, <1>10 DEF StartRead, StartLookup, LoadTick, lost
<1> QED  BY <1>4, <1>5, <1>8, <1>9, <1>10, ReaderSteps

\* Nothing has been read or published at the start.
LEMMA InitFresh ==
  ReadInit => PublishedInv /\ LatestInv /\ SeenInv /\ FreshInv /\ ViewsInv
<1> SUFFICES ASSUME ReadInit
             PROVE  PublishedInv /\ LatestInv /\ SeenInv /\ FreshInv /\ ViewsInv
  OBVIOUS
<1>1. PublishedInv
  BY DEF ReadInit, Init, PublishedInv, publishing
<1>2. LatestInv
  BY ArrowTableAssumption
     DEF ReadInit, Init, LatestInv, LastTick, NotBehind, publishing, inRollback, NoView, NoTick
<1>3. SeenInv /\ FreshInv
  BY DEF ReadInit, SeenInv, FreshInv
<1>4. ViewsInv
  BY DEF ReadInit, Init, ViewsInv, ServedView, HeldView, CommittedView, NoResponse,
         NothingPublished, NoView
<1> QED  BY <1>1, <1>2, <1>3, <1>4

\* A reader that asked for a committed tick is never given an older view: the
\* documented order of the two loads, against every step of commit(), of its
\* rollbacks and of clear_cache.  A commit whose append fails can only deceive
\* the readers that loaded its tick before it was taken back.
THEOREM ReadsNeverStale == ReadSpec => []NoStaleRead
<1> DEFINE Inv == ReadTypeInv /\ StagedInv /\ PublishedInv /\ LatestInv /\ SeenInv /\ FreshInv
<1>1. ReadInit => Inv
  BY InitReadType, InitUniform, InitFresh
<1>2. Inv /\ [ReadNext]_allVars => Inv'
  BY NextReadType, NextStagedInv, NextPublishedInv, NextLatestInv, NextSeenInv
<1>3. Inv => NoStaleRead
  BY DEF FreshInv, NoStaleRead
<1> QED  BY <1>1, <1>2, <1>3, PTL DEF ReadSpec

\* A response holds committed state: once its tick has been committed, its views
\* are those of the committed snapshot.  The only others are the views of a
\* commit whose append failed, taken before its rollback ended.
THEOREM ReadsCommitted == ReadSpec => []ReadsAreCommitted
<1> DEFINE Inv == ReadTypeInv /\ StagedInv /\ ViewsInv
<1>1. ReadInit => Inv
  BY InitReadType, InitUniform, InitFresh
<1>2. Inv /\ [ReadNext]_allVars => Inv'
  BY NextReadType, NextStagedInv, NextViewsInv
<1>3. ASSUME Inv PROVE ReadsAreCommitted
  <2> SUFFICES ASSUME NEW r \in Reader \ lostViews, NEW t \in Table, response[r][t].tick < tick
               PROVE  response[r][t] = ViewOf(snapshots[response[r][t].tick], t)
    BY DEF ReadsAreCommitted
  <2>1. tick \in Ticks /\ tick \in Nat /\ tick < NoTick /\ NoTick \in Nat
    BY <1>3, ArrowTableAssumption DEF ReadTypeInv, ReadTypeOK, TypeOK, Ticks, NoTick
  <2>2. HeldView(response[r][t], t)
    BY <1>3 DEF ViewsInv
  <2>3. response[r][t].tick # NoTick /\ response[r][t].tick # tick
    BY <2>1
  <2> QED  BY <2>2, <2>3 DEF HeldView, CommittedView, OpenView
<1> QED  BY <1>1, <1>2, <1>3, PTL DEF ReadSpec
=============================================================================
