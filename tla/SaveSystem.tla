----------------------------- MODULE SaveSystem -----------------------------
(***************************************************************************)
(* The files of the save system: SnapshotPersistence, SnapshotManager,     *)
(* CheckpointManager and CheckpointingSaveJournal (scharnhorst_save/src),  *)
(* with a crash between any two file operations and every file operation   *)
(* failing.  A call runs as one step per file operation.                   *)
(*                                                                         *)
(* A commit record is represented by its tick.  The journal file at        *)
(* journal_path is only ever removed by this code; it is written by the    *)
(* deployment, one record for every tick whose commit succeeded.           *)
(***************************************************************************)
EXTENDS Naturals, SequencesExt, FiniteSetsExt, Functions

CONSTANTS
  MaxTick,       \* bound: ticks committed
  MaxRecords,    \* bound: records in the in-memory save journal
  MaxSnapshots,  \* RetentionPolicy::max_snapshots, SnapshotConfig::max_snapshots
  MaxTorn,       \* bound: unreadable snapshot files on the disk at a time
  Threshold,     \* RetentionPolicy::auto_checkpoint_threshold
  HashMod,       \* the state hash is a u64; here it wraps at HashMod
  RecordHash     \* the hash of the commit of each tick: any function will do

ASSUME SaveAssumption ==
  /\ MaxTick \in Nat /\ MaxRecords \in Nat /\ MaxSnapshots \in Nat \ {0}
  /\ MaxTorn \in Nat /\ Threshold \in Nat \ {0} /\ HashMod \in Nat \ {0}

ASSUME HashAssumption == RecordHash \in [1 .. MaxTick -> Nat]

VARIABLES
  committed,  \* the last tick whose commit succeeded
  up,         \* the process is running
  writer,     \* the API this deployment saves with
  inner,      \* CheckpointingSaveJournal::inner
  entries,    \* journal_entries_since_snapshot
  dir,        \* base_dir exists
  file,       \* state of snapshot_gen_<g>.arrow
  temp,       \* state of .tmp_snapshot_gen_<g>.arrow
  jfile,      \* the ticks recorded in the file at journal_path
  call        \* the save call in progress

diskVars == <<dir, file, temp, jfile>>
memVars  == <<inner, entries>>
saveVars == <<committed, up, writer, memVars, diskVars, call>>

Gens      == 1 .. MaxTick
FileState == {"none", "torn", "whole"}
Idle      == [kind |-> "idle", step |-> "idle", victims |-> {}]
Call      == [kind : {"idle", "append", "checkpoint", "manager"},
              step : {"idle", "write", "rename", "retain", "truncate"},
              victims : SUBSET Gens]

\* list_snapshots: a torn file has the name of a snapshot like any other.
Listed == {g \in Gens : file[g] # "none"}
Whole  == {g \in Gens : file[g] = "whole"}
Torn   == {g \in Gens : file[g] = "torn"}
Latest == IF Listed = {} THEN 0 ELSE Max(Listed)

\* Mutant: the victims are taken from the wrong end of the listing.
NewestBeyond(files) ==
  {g \in files : Cardinality({h \in files : h < g}) >= MaxSnapshots}

\* enforce_retention and cleanup_old_snapshots: the oldest beyond the limit.
Victims(files) ==
  {g \in files : Cardinality({h \in files : h > g}) >= MaxSnapshots}

SaveTypeOK ==
  /\ committed \in 0 .. MaxTick /\ up \in BOOLEAN
  /\ writer \in {"checkpoint", "manager"}
  /\ inner \in Seq(Gens) /\ entries \in Nat /\ dir \in BOOLEAN
  /\ file \in [Gens -> FileState] /\ temp \in [Gens -> FileState]
  /\ jfile \subseteq Gens /\ call \in Call

SaveInit ==
  /\ committed = 0 /\ up = TRUE /\ writer \in {"checkpoint", "manager"}
  /\ inner = <<>> /\ entries = 0 /\ dir = FALSE
  /\ file = [g \in Gens |-> "none"] /\ temp = [g \in Gens |-> "none"]
  /\ jfile = {} /\ call = Idle

-----------------------------------------------------------------------------
(* CheckpointingSaveJournal::append, called by the commit of the next tick *)

\* The commit of tick t succeeds and the deployment writes its record.
Committed(t) == committed' = t /\ jfile' = jfile \cup {t}

Append1 ==
  /\ up /\ call = Idle /\ committed < MaxTick /\ Len(inner) < MaxRecords
  /\ inner' = Append(inner, committed + 1)
  /\ entries' = entries + 1
  /\ UNCHANGED <<up, writer, dir, file, temp>>

\* should_auto_checkpoint is false: append returns Ok.
AppendRecord ==
  /\ Append1
  /\ entries + 1 < Threshold
  /\ Committed(committed + 1)
  /\ UNCHANGED call

\* try_auto_checkpoint: the listing succeeds and the retention starts.
AppendAtThreshold ==
  /\ Append1
  /\ entries + 1 >= Threshold /\ dir
  /\ call' = [kind |-> "append", step |-> "retain", victims |-> Victims(Listed)]
  /\ UNCHANGED <<committed, jfile>>

\* read_dir fails, because of I/O or because no snapshot was ever written:
\* append returns an error after it pushed, and the commit is rolled back.
AppendFails ==
  /\ Append1
  /\ entries + 1 >= Threshold
  /\ UNCHANGED <<committed, jfile, call>>

-----------------------------------------------------------------------------
(* write_checkpoint_snapshot and save_snapshot, for the last commit        *)

\* Mutant: the journal is truncated first and the snapshot written after.
BeginCheckpointTruncating ==
  /\ up /\ call = Idle /\ writer = "checkpoint" /\ Cardinality(Torn) < MaxTorn
  /\ committed \in Gens /\ file[committed] = "none"
  /\ dir' = TRUE /\ jfile' = {}
  /\ file' = [file EXCEPT ![committed] = "torn"]
  /\ call' = [kind |-> "checkpoint", step |-> "write", victims |-> {}]
  /\ UNCHANGED <<committed, up, writer, memVars, temp>>

\* SnapshotAlreadyExists changes nothing.
BeginCheckpoint ==
  /\ up /\ call = Idle /\ writer = "checkpoint" /\ Cardinality(Torn) < MaxTorn
  /\ committed \in Gens /\ file[committed] = "none"
  /\ dir' = TRUE
  /\ file' = [file EXCEPT ![committed] = "torn"]
  /\ call' = [kind |-> "checkpoint", step |-> "write", victims |-> {}]
  /\ UNCHANGED <<committed, up, writer, memVars, temp, jfile>>

BeginSave ==
  /\ up /\ call = Idle /\ writer = "manager"
  /\ committed \in Gens /\ file[committed] = "none"
  /\ dir' = TRUE
  /\ temp' = [temp EXCEPT ![committed] = "torn"]
  /\ call' = [kind |-> "manager", step |-> "write", victims |-> {}]
  /\ UNCHANGED <<committed, up, writer, memVars, file, jfile>>

\* The last byte of the snapshot is in its file.
FinishWrite ==
  /\ call.step = "write"
  /\ IF call.kind = "checkpoint"
       THEN /\ file' = [file EXCEPT ![committed] = "whole"]
            /\ call' = [call EXCEPT !.step = "retain",
                                    !.victims = Victims(Listed)]
            /\ UNCHANGED temp
       ELSE /\ temp' = [temp EXCEPT ![committed] = "whole"]
            /\ call' = [call EXCEPT !.step = "rename"]
            /\ UNCHANGED file
  /\ UNCHANGED <<committed, up, writer, memVars, dir, jfile>>

\* Mutant: the temporary file is renamed while it is being written.
RenameEarly ==
  /\ call.kind = "manager" /\ call.step \in {"write", "rename"}
  /\ file' = [file EXCEPT ![committed] = temp[committed]]
  /\ temp' = [temp EXCEPT ![committed] = "none"]
  /\ call' = [call EXCEPT !.step = "retain",
                          !.victims = Victims(Listed \cup {committed})]
  /\ UNCHANGED <<committed, up, writer, memVars, dir, jfile>>

Rename ==
  /\ call.step = "rename"
  /\ file' = [file EXCEPT ![committed] = temp[committed]]
  /\ temp' = [temp EXCEPT ![committed] = "none"]
  /\ call' = [call EXCEPT !.step = "retain",
                          !.victims = Victims(Listed \cup {committed})]
  /\ UNCHANGED <<committed, up, writer, memVars, dir, jfile>>

\* delete_snapshot of the oldest file still to go.
DeleteVictim ==
  /\ call.step = "retain" /\ call.victims # {}
  /\ LET g == Min(call.victims) IN
       /\ file' = [file EXCEPT ![g] = "none"]
       /\ call' = [call EXCEPT !.victims = @ \ {g}]
  /\ UNCHANGED <<committed, up, writer, memVars, dir, temp, jfile>>

\* Retention is done: append and save_snapshot return, the checkpoint goes on.
RetentionDone ==
  /\ call.step = "retain" /\ call.victims = {}
  /\ CASE call.kind = "append" ->
            /\ entries' = 0 /\ call' = Idle
            /\ Committed(committed + 1)
       [] call.kind = "manager" ->
            /\ call' = Idle
            /\ UNCHANGED <<entries, committed, jfile>>
       [] OTHER ->
            /\ call' = [call EXCEPT !.step = "truncate"]
            /\ UNCHANGED <<entries, committed, jfile>>
  /\ UNCHANGED <<up, writer, inner, dir, file, temp>>

\* truncate_journal removes the file and resets the counter.
TruncateJournal ==
  /\ call.step = "truncate"
  /\ jfile' = {} /\ entries' = 0 /\ call' = Idle
  /\ UNCHANGED <<committed, up, writer, inner, dir, file, temp>>

\* A file operation fails and the call returns what it has done so far; in
\* an append the commit is rolled back and the record stays in `inner`.
CallFails ==
  /\ call # Idle
  /\ call' = Idle
  /\ UNCHANGED <<committed, up, writer, memVars, diskVars>>

\* The members of a set of numbers as an ascending sequence.
Ascending(S) ==
  {s \in SetToSeqs(S) : \A i, j \in DOMAIN s : i < j => s[i] < s[j]}

\* SaveJournal::truncate_before, by the deployment after a full save.
TruncateBefore(t) ==
  /\ up /\ call = Idle /\ t \in Whole
  /\ \E kept \in Ascending({i \in DOMAIN inner : inner[i] >= t}) :
       inner' = [k \in DOMAIN kept |-> inner[kept[k]]]
  /\ inner' # inner
  /\ UNCHANGED <<committed, up, writer, entries, diskVars, call>>

-----------------------------------------------------------------------------
(* Crash and recovery                                                      *)

Crash ==
  /\ up
  /\ up' = FALSE /\ call' = Idle /\ inner' = <<>> /\ entries' = 0
  /\ UNCHANGED <<committed, writer, diskVars>>

\* The operator removes a snapshot that cannot be read (delete_snapshot).
DeleteTorn(g) ==
  /\ call = Idle /\ file[g] = "torn"
  /\ file' = [file EXCEPT ![g] = "none"]
  /\ UNCHANGED <<committed, up, writer, memVars, dir, temp, jfile, call>>

\* read_snapshot of the file latest_snapshot names succeeds.
LatestReadable == Latest # 0 /\ file[Latest] = "whole"

\* The process resumes from the latest snapshot and the records after it;
\* the records of the file are read back into the new save journal.
Resume ==
  /\ ~up /\ LatestReadable
  /\ up' = TRUE
  /\ committed' = Max({Latest} \cup jfile)
  /\ inner' \in Ascending({t \in jfile : t > Latest})
  /\ UNCHANGED <<writer, entries, diskVars, call>>

\* No snapshot at all: a new game starts and its journal is empty.
NewGame ==
  /\ ~up /\ Latest = 0
  /\ up' = TRUE /\ committed' = 0 /\ jfile' = {}
  /\ UNCHANGED <<writer, memVars, dir, file, temp, call>>

SaveStep ==
  \/ AppendRecord \/ AppendAtThreshold \/ AppendFails
  \/ BeginCheckpoint \/ BeginSave \/ FinishWrite \/ Rename
  \/ DeleteVictim \/ RetentionDone \/ TruncateJournal \/ CallFails
  \/ \E t \in Gens : TruncateBefore(t)
  \/ Crash \/ NewGame
  \/ \E g \in Gens : DeleteTorn(g)

-----------------------------------------------------------------------------
(* Hashes                                                                  *)

\* The state hash accumulated by the live run, and stored in a header.
LiveHash(t) == FoldFunction(LAMBDA h, acc : (h + acc) % HashMod, 0,
                            [u \in 1 .. t |-> RecordHash[u]])

\* Mutant: the record the snapshot was taken at is replayed again.
ReplayDiffsInclusive(base, records) ==
  FoldFunction(LAMBDA h, acc : (h + acc) % HashMod, LiveHash(base),
               [i \in DOMAIN records |->
                  IF records[i] >= base THEN RecordHash[records[i]] ELSE 0])

\* replay_diffs: the header's hash and that of every record after base.
ReplayDiffs(base, records) ==
  FoldFunction(LAMBDA h, acc : (h + acc) % HashMod, LiveHash(base),
               [i \in DOMAIN records |->
                  IF records[i] > base THEN RecordHash[records[i]] ELSE 0])
=============================================================================
