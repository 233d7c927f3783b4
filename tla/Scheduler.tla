----------------------------- MODULE Scheduler ------------------------------
(***************************************************************************)
(* Scheduler::tick (scharnhorst_scheduler/src/scheduler.rs) and the        *)
(* RefreshSignalBus (refresh_signal.rs): commands are drained from the     *)
(* queue into the journal, every system runs once in phase order, the      *)
(* journal commits, the counters advance and the consumers are signalled.  *)
(* One thread drives tick(); any thread enqueues commands and registers or *)
(* unregisters systems and consumers meanwhile.                            *)
(*                                                                         *)
(* Journal::commit is one step that commits everything pending or changes  *)
(* nothing: what module AtomicJournal promises and Journal implements.     *)
(* The diffs of one execution of a system are represented by the system.   *)
(* Not modelled: poisoned locks, journal_mut and attach_query_engine.      *)
(***************************************************************************)
EXTENDS Naturals, Sequences

CONSTANTS
  System,        \* ids of the systems that may be registered
  Phase,         \* [System -> Nat], Phase::order_index
  Reads,         \* [System -> set of tables], declared
  Writes,        \* [System -> set of tables], declared
  HasCallback,   \* the systems with a refresh_callback
  Consumer,      \* names of the external consumers
  Settings,      \* how the scheduler is used: which consumers may return an
                 \* error, and whether commands are enqueued while tick() runs
  MaxTick,       \* bound: ticks are 0 .. MaxTick
  MaxCommands    \* bound: commands enqueued

Name == System \cup Consumer      \* keys of the RefreshSignalBus

ASSUME SchedulerAssumption ==
  /\ Phase \in [System -> Nat]
  /\ DOMAIN Reads = System /\ DOMAIN Writes = System
  /\ HasCallback \subseteq System
  /\ Settings \subseteq [faulty : SUBSET Name, concurrent : BOOLEAN]
  /\ MaxTick \in Nat /\ MaxCommands \in Nat

VARIABLES
  \* SchemaRegistry::is_frozen and the scheduler's own state
  frozen, initialized, registered, queue, tick, generation, consumers,
  \* Journal
  journalTick, pendingCommands, pendingDiffs, history,
  \* locals of the running tick()
  pc,         \* the next step of tick(), "idle" when none is running
  consumed,   \* what consume_pending_commands returned
  plan,       \* the systems of systems_by_phase still to run
  phase,      \* order_index of the phase running, or of the last one
  toSignal,   \* the consumers that broadcast has still to call
  setting,    \* one of Settings, for the whole behaviour
  \* history variables
  sent,       \* how many commands were enqueued; a command is its number
  acked       \* the generation each consumer last acknowledged

setupVars    == <<frozen, initialized, registered, setting>>
counterVars  == <<tick, generation>>
journalVars  == <<journalTick, pendingCommands, pendingDiffs, history>>
phaseVars    == <<plan, phase>>
busVars      == <<consumers, toSignal, acked>>
vars == <<setupVars, counterVars, queue, sent, busVars, journalVars, pc,
          consumed, phaseVars>>

Ticks    == 0 .. MaxTick
Envelope == [command : 1 .. MaxCommands, tick : Ticks]
Record   == [tick : Ticks, commands : Seq(Envelope), systems : Seq(System)]
Step     == {"idle", "plan", "run", "advance", "broadcast", "signal",
             "clear", "requeue"}

Init ==
  /\ setting \in Settings
  /\ frozen = FALSE /\ initialized = FALSE /\ registered = {}
  /\ queue = <<>> /\ tick = 0 /\ generation = 0 /\ consumers = {}
  /\ journalTick = 0 /\ pendingCommands = <<>> /\ pendingDiffs = <<>>
  /\ history = <<>>
  /\ pc = "idle" /\ consumed = <<>> /\ plan = {} /\ phase = 0 /\ toSignal = {}
  /\ sent = 0 /\ acked = [c \in Name |-> 0]

-----------------------------------------------------------------------------
(* Set-up                                                                  *)

\* run_phase holds the systems lock from its first system to its last.
SystemsLocked == pc = "run" /\ \E s \in plan : Phase[s] = phase

\* Mutant: the conflict test compares the wrong table set.
ConflictOnReads(a, b) == Phase[a] = Phase[b] /\ Reads[a] \cap Writes[b] # {}

HasWriteConflict(a, b) == Phase[a] = Phase[b] /\ Writes[a] \cap Writes[b] # {}

\* Entering the bus: the consumer starts from the current generation.
Join(names) ==
  /\ consumers' = consumers \cup names
  /\ acked' = [c \in Name |-> IF c \in names THEN generation ELSE acked[c]]

RegisterSystem(s) ==
  /\ ~initialized /\ s \notin registered /\ ~SystemsLocked
  /\ \A other \in registered : ~HasWriteConflict(s, other)
  /\ Join({s} \cap HasCallback)
  /\ registered' = registered \cup {s}
  /\ UNCHANGED <<frozen, initialized, setting, counterVars, queue, sent, toSignal,
                 journalVars, pc, consumed, phaseVars>>

\* Allowed at any time; a running broadcast still holds the callback.
UnregisterSystem(s) ==
  /\ s \in registered /\ ~SystemsLocked
  /\ registered' = registered \ {s}
  /\ consumers' = consumers \ {s}
  /\ UNCHANGED <<frozen, initialized, setting, counterVars, queue, sent, toSignal, acked,
                 journalVars, pc, consumed, phaseVars>>

RegisterConsumer(c) ==
  /\ c \notin consumers
  /\ Join({c})
  /\ UNCHANGED <<setupVars, counterVars, queue, sent, toSignal, journalVars, pc,
                 consumed, phaseVars>>

UnregisterConsumer(c) ==
  /\ c \in consumers
  /\ consumers' = consumers \ {c}
  /\ UNCHANGED <<setupVars, counterVars, queue, sent, toSignal, acked,
                 journalVars, pc, consumed, phaseVars>>

FreezeSchema ==
  /\ ~frozen
  /\ frozen' = TRUE
  /\ UNCHANGED <<initialized, registered, setting, counterVars, queue, sent, busVars,
                 journalVars, pc, consumed, phaseVars>>

Initialize ==
  /\ ~initialized /\ frozen
  /\ \A s \in registered : Reads[s] \cup Writes[s] # {}
  /\ \A a, b \in registered : a # b => ~HasWriteConflict(a, b)
  /\ initialized' = TRUE
  /\ UNCHANGED <<frozen, registered, setting, counterVars, queue, sent, busVars,
                 journalVars, pc, consumed, phaseVars>>

-----------------------------------------------------------------------------
(* tick()                                                                  *)

\* The caller stamps the envelope with the scheduler's current tick.
EnqueueCommand ==
  /\ sent < MaxCommands
  /\ setting.concurrent \/ pc = "idle"
  /\ queue' = Append(queue, [command |-> sent + 1, tick |-> tick])
  /\ sent' = sent + 1
  /\ UNCHANGED <<setupVars, counterVars, busVars, journalVars, pc, consumed,
                 phaseVars>>

\* Journal::submit_command refuses any other tick with InvalidTick.
Stale(i) == queue[i].tick # journalTick

StartTick == pc = "idle" /\ initialized /\ tick < MaxTick

\* consume_pending_commands, under the queue's and the journal's locks.
ConsumePendingCommands ==
  /\ StartTick
  /\ \A i \in DOMAIN queue : ~Stale(i)
  /\ consumed' = queue
  /\ pendingCommands' = pendingCommands \o queue
  /\ queue' = <<>>
  /\ pc' = "plan"
  /\ UNCHANGED <<setupVars, counterVars, sent, busVars, journalTick,
                 pendingDiffs, history, phaseVars>>

\* The `?` on a refused command: the queue is drained already, the commands
\* before it stay pending in the journal and tick() returns.
ConsumeRefused ==
  /\ StartTick
  /\ \E i \in DOMAIN queue :
       /\ Stale(i) /\ \A j \in 1 .. i - 1 : ~Stale(j)
       /\ pendingCommands' = pendingCommands \o SubSeq(queue, 1, i - 1)
  /\ queue' = <<>>
  /\ UNCHANGED <<setupVars, counterVars, sent, busVars, journalTick,
                 pendingDiffs, history, pc, consumed, phaseVars>>

SystemsByPhase ==
  /\ pc = "plan"
  /\ plan' = registered /\ phase' = 0
  /\ pc' = "run"
  /\ UNCHANGED <<setupVars, counterVars, queue, sent, busVars, journalVars,
                 consumed>>

\* A system of the earliest phase left, in the order of a HashMap: any.
Ready(s) == pc = "run" /\ s \in plan /\ \A o \in plan : Phase[s] <= Phase[o]

RunSystem(s) ==
  /\ Ready(s) /\ s \in registered
  /\ pendingDiffs' = Append(pendingDiffs, s)
  /\ plan' = plan \ {s} /\ phase' = Phase[s]
  /\ UNCHANGED <<setupVars, counterVars, queue, sent, busVars, journalTick,
                 pendingCommands, history, pc, consumed>>

\* execute() returns an error, or the system was unregistered after
\* systems_by_phase (SystemNotFound).
RunSystemFails(s) ==
  /\ Ready(s)
  /\ plan' = {} /\ phase' = 0
  /\ pc' = "clear"
  /\ UNCHANGED <<setupVars, counterVars, queue, sent, busVars, journalVars,
                 consumed>>

Commit ==
  /\ pc = "run" /\ plan = {}
  /\ history' = Append(history, [tick |-> journalTick,
                                 commands |-> pendingCommands,
                                 systems |-> pendingDiffs])
  /\ journalTick' = journalTick + 1
  /\ pendingCommands' = <<>> /\ pendingDiffs' = <<>>
  /\ phase' = 0 /\ pc' = "advance"
  /\ UNCHANGED <<setupVars, counterVars, queue, sent, busVars, consumed, plan>>

\* A failed commit leaves the journal as it was.
CommitFails ==
  /\ pc = "run" /\ plan = {}
  /\ phase' = 0 /\ pc' = "clear"
  /\ UNCHANGED <<setupVars, counterVars, queue, sent, busVars, journalVars,
                 consumed, plan>>

\* Mutant: atomic_commit and tick() both advance the tick.
AdvanceTickTwice ==
  /\ pc = "advance"
  /\ generation' = generation + 1 /\ tick' = tick + 2
  /\ pc' = "broadcast"
  /\ UNCHANGED <<setupVars, queue, sent, busVars, journalVars, consumed,
                 phaseVars>>

\* generation.fetch_add and advance_tick.  Between the two only the driver
\* looks at either.
AdvanceTick ==
  /\ pc = "advance"
  /\ generation' = generation + 1 /\ tick' = tick + 1
  /\ pc' = "broadcast"
  /\ UNCHANGED <<setupVars, queue, sent, busVars, journalVars, consumed,
                 phaseVars>>

\* Mutant: only the callbacks of systems are collected.
BroadcastToSystems ==
  /\ pc = "broadcast"
  /\ toSignal' = consumers \cap registered
  /\ pc' = "signal"
  /\ UNCHANGED <<setupVars, counterVars, queue, sent, consumers, acked,
                 journalVars, consumed, phaseVars>>

\* broadcast copies the callbacks under the lock and calls them without it.
Broadcast ==
  /\ pc = "broadcast"
  /\ toSignal' = consumers
  /\ pc' = "signal"
  /\ UNCHANGED <<setupVars, counterVars, queue, sent, consumers, acked,
                 journalVars, consumed, phaseVars>>

Signal(c) ==
  /\ pc = "signal" /\ c \in toSignal
  /\ acked' = [acked EXCEPT ![c] = generation]
  /\ toSignal' = toSignal \ {c}
  /\ UNCHANGED <<setupVars, counterVars, queue, sent, consumers, journalVars,
                 pc, consumed, phaseVars>>

\* Mutant: a failed broadcast is handled like a failed commit.
SignalFailsRollingBack(c) ==
  /\ pc = "signal" /\ c \in toSignal \cap setting.faulty
  /\ toSignal' = {} /\ pc' = "clear"
  /\ UNCHANGED <<setupVars, counterVars, queue, sent, consumers, acked,
                 consumed, journalVars, phaseVars>>

\* The first error ends the broadcast, and tick() returns it.
SignalFails(c) ==
  /\ pc = "signal" /\ c \in toSignal \cap setting.faulty
  /\ toSignal' = {} /\ consumed' = <<>> /\ pc' = "idle"
  /\ UNCHANGED <<setupVars, counterVars, queue, sent, consumers, acked,
                 journalVars, phaseVars>>

TickReturns ==
  /\ pc = "signal" /\ toSignal = {}
  /\ consumed' = <<>> /\ pc' = "idle"
  /\ UNCHANGED <<setupVars, counterVars, queue, sent, busVars, journalVars,
                 phaseVars>>

\* Mutant: the rollback clears the commands and forgets the diffs.
ClearPendingCommands ==
  /\ pc = "clear"
  /\ pendingCommands' = <<>>
  /\ pc' = "requeue"
  /\ UNCHANGED <<setupVars, counterVars, queue, sent, busVars, journalTick,
                 pendingDiffs, history, consumed, phaseVars>>

\* rollback_consumed_commands: the journal is cleared under its lock ...
ClearPending ==
  /\ pc = "clear"
  /\ pendingCommands' = <<>> /\ pendingDiffs' = <<>>
  /\ pc' = "requeue"
  /\ UNCHANGED <<setupVars, counterVars, queue, sent, busVars, journalTick,
                 history, consumed, phaseVars>>

\* Mutant: the commands are left to the journal, which was just cleared.
RequeueDropped ==
  /\ pc = "requeue"
  /\ consumed' = <<>> /\ pc' = "idle"
  /\ UNCHANGED <<setupVars, counterVars, queue, sent, busVars, journalVars,
                 phaseVars>>

\* ... and then the queue gets its commands back, in front, under its own.
Requeue ==
  /\ pc = "requeue"
  /\ queue' = consumed \o queue
  /\ consumed' = <<>> /\ pc' = "idle"
  /\ UNCHANGED <<setupVars, counterVars, sent, busVars, journalVars, phaseVars>>

Next ==
  \/ \E s \in System : RegisterSystem(s) \/ UnregisterSystem(s)
  \/ \E c \in Consumer : RegisterConsumer(c) \/ UnregisterConsumer(c)
  \/ FreezeSchema \/ Initialize
  \/ EnqueueCommand
  \/ ConsumePendingCommands \/ ConsumeRefused
  \/ SystemsByPhase
  \/ \E s \in System : RunSystem(s) \/ RunSystemFails(s)
  \/ Commit \/ CommitFails \/ AdvanceTick
  \/ Broadcast \/ TickReturns
  \/ \E c \in Name : Signal(c) \/ SignalFails(c)
  \/ ClearPending \/ Requeue

Spec == Init /\ [][Next]_vars

-----------------------------------------------------------------------------
(* Properties                                                              *)

TypeOK ==
  /\ setting \in Settings
  /\ frozen \in BOOLEAN /\ initialized \in BOOLEAN /\ registered \subseteq System
  /\ queue \in Seq(Envelope) /\ tick \in Ticks /\ generation \in Ticks
  /\ consumers \subseteq Name
  /\ journalTick \in Ticks /\ pendingCommands \in Seq(Envelope)
  /\ pendingDiffs \in Seq(System) /\ history \in Seq(Record)
  /\ pc \in Step /\ consumed \in Seq(Envelope)
  /\ plan \subseteq System /\ phase \in Nat /\ toSignal \subseteq Name
  /\ sent \in 0 .. MaxCommands /\ acked \in [Name -> Ticks]

\* Where the commands are: in the committed records, in the journal or with
\* the rollback, in the queue - oldest first.
inFlight == IF pc = "requeue" THEN consumed ELSE pendingCommands

commandLog ==
  [i \in 1 .. Len(history) + 2 |->
     IF i <= Len(history) THEN history[i].commands
     ELSE IF i = Len(history) + 1 THEN inFlight ELSE queue]

\* The commands committed, in flight and queued are in the order in which they
\* were enqueued, each at most once: no failure at any step of tick() and no
\* enqueue racing it makes a command run twice or overtake another.
CommandsInOrder ==
  \A i, j \in DOMAIN commandLog :
    \A k \in DOMAIN commandLog[i], l \in DOMAIN commandLog[j] :
      i < j \/ (i = j /\ k < l) =>
        commandLog[i][k].command < commandLog[j][l].command

\* Every command enqueued is committed, in flight or queued: what the comments
\* of scheduler.rs promise of a failed tick().
NoCommandLost ==
  \A c \in 1 .. sent : \E i \in DOMAIN commandLog :
    \E k \in DOMAIN commandLog[i] : commandLog[i][k].command = c

\* A committed record holds one pass over the systems: no system twice - not
\* even when earlier attempts at the tick failed half-way - phases in order, and
\* only commands stamped with the tick of the record.
RecordIsOnePass ==
  \A i \in DOMAIN history :
    LET rec == history[i] IN
      /\ \A j, k \in DOMAIN rec.systems : j < k =>
           /\ rec.systems[j] # rec.systems[k]
           /\ Phase[rec.systems[j]] <= Phase[rec.systems[k]]
      /\ \A j \in DOMAIN rec.commands : rec.commands[j].tick = rec.tick

\* The HashMap order in which systems of one phase run cannot be seen in the
\* tables: two writers of one table in a record are in different phases.
WritersOrdered ==
  \A i \in DOMAIN history : \A j, k \in DOMAIN history[i].systems :
    LET a == history[i].systems[j]  b == history[i].systems[k] IN
      j # k /\ Writes[a] \cap Writes[b] # {} => Phase[a] # Phase[b]

\* As long as commands are enqueued between ticks only, none is lost, whichever
\* steps of tick() fail and however often it is retried.
SerialKeepsCommands == setting.concurrent \/ NoCommandLost

\* After any tick(), failed or not, the scheduler's tick, its generation, the
\* journal's tick and the number of committed records are one number - whether
\* a system failed, the commit or, after it, a consumer - and, with commands
\* between ticks only, nothing is pending in the journal: "a retry starts from a
\* clean slate".
CleanSlate ==
  pc = "idle" =>
    /\ tick = journalTick /\ generation = journalTick /\ Len(history) = journalTick
    /\ ~setting.concurrent => pendingCommands = <<>> /\ pendingDiffs = <<>>

\* No system runs while a registered consumer has not acknowledged the last
\* committed generation, if no consumer returns an error.
RefreshAcknowledged ==
  pc \in {"plan", "run"} /\ setting.faulty = {} => \A c \in consumers : acked[c] = generation
=============================================================================
