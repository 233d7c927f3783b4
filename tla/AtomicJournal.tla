--------------------------- MODULE AtomicJournal ----------------------------
(***************************************************************************)
(* What Journal::commit promises its callers, with the commit cycle seen   *)
(* as one atomic step.                                                     *)
(*                                                                         *)
(* Submissions accumulate in two pending queues for the open tick.  A      *)
(* commit either succeeds - the queues become the record of that tick, the *)
(* tick advances by one, the stored batches of the tables the diffs name   *)
(* may change, and the query engine publishes exactly that tick - or fails *)
(* and changes nothing at all, which is a stuttering step here.            *)
(***************************************************************************)
EXTENDS Naturals, Sequences

CONSTANTS
  Table,        \* the tables of the store
  Diff,         \* the diffs that can be submitted
  Command,      \* the commands that can be submitted
  MaxHistory    \* MAX_COMMIT_HISTORY

VARIABLES
  tick,             \* the tick open for submissions
  pendingDiffs,
  pendingCommands,
  history,          \* the bounded in-memory commit history
  versions,         \* [Table -> batches by tick]
  published         \* what the query engine serves: [tick, cache, snapshot]

vars == <<tick, pendingDiffs, pendingCommands, history, versions, published>>

Touched(diffs) == {diffs[i].table : i \in DOMAIN diffs}

CommitRecord(t, diffs, commands) ==
  [tick |-> t, diffs |-> diffs, commands |-> commands]

PushBounded(h, rec) ==
  IF Len(h) >= MaxHistory THEN Append(Tail(h), rec) ELSE Append(h, rec)

Init ==
  /\ tick = 0
  /\ pendingDiffs = <<>> /\ pendingCommands = <<>>
  /\ history = <<>>

SubmitDiff ==
  /\ \E d \in Diff : pendingDiffs' = Append(pendingDiffs, d)
  /\ UNCHANGED <<tick, pendingCommands, history, versions, published>>

SubmitCommand ==
  /\ \E c \in Command :
       pendingCommands' = Append(pendingCommands, [command |-> c, tick |-> tick])
  /\ UNCHANGED <<tick, pendingDiffs, history, versions, published>>

ClearPending ==
  /\ pendingDiffs' = <<>> /\ pendingCommands' = <<>>
  /\ UNCHANGED <<tick, history, versions, published>>

Commit ==
  /\ history' = PushBounded(history, CommitRecord(tick, pendingDiffs, pendingCommands))
  /\ tick' = tick + 1
  /\ pendingDiffs' = <<>> /\ pendingCommands' = <<>>
  /\ \A t \in Table \ Touched(pendingDiffs) : versions'[t] = versions[t]
  /\ published'.tick = tick
  /\ published'.snapshot.tick = tick
  /\ \A t \in Table : published'.cache[t].tick = tick

Next == SubmitDiff \/ SubmitCommand \/ ClearPending \/ Commit

Spec == Init /\ [][Next]_vars
=============================================================================
