--------------------------- MODULE SchedulerProofs --------------------------
(***************************************************************************)
(* Proofs about Scheduler, for every set of systems, phases and consumers, *)
(* every number of commands and ticks, and every setting.                  *)
(***************************************************************************)
EXTENDS Scheduler, SequenceTheorems, TLAPS

-----------------------------------------------------------------------------
(* The inductive invariant                                                 *)

\* The scheduler's counters follow the journal's tick, and a tick() that is
\* running has room for one more.
CounterInv ==
  /\ Len(history) = journalTick /\ generation = tick
  /\ journalTick = IF pc = "advance" THEN tick + 1 ELSE tick
  /\ pc \in {"plan", "run", "advance", "clear", "requeue"} => tick < MaxTick

\* What is pending in the journal belongs to the attempt at the open tick.
Stamped(cmds) == \A k \in DOMAIN cmds : cmds[k].tick = journalTick
PendingInv ==
  /\ pc \notin {"run", "clear"} => pendingDiffs = <<>>
  /\ pc \in {"advance", "broadcast", "signal", "requeue"} => pendingCommands = <<>>
  /\ Stamped(pendingCommands)

\* With commands between ticks only, a running tick() holds them all.
holding == pc \in {"plan", "run", "clear", "requeue"}
SerialInv ==
  ~setting.concurrent =>
    /\ pc = "idle" => pendingCommands = <<>>
    /\ pc # "idle" => queue = <<>>
    /\ pc \in {"plan", "run", "clear"} => pendingCommands = consumed
    /\ holding => Stamped(consumed)
    /\ Stamped(queue)

\* Commands in the order of their numbers, within a sequence and across two.
Sorted(cmds) == \A k, l \in DOMAIN cmds : k < l => cmds[k].command < cmds[l].command
Before(cs, ds) ==
  \A k \in DOMAIN cs, l \in DOMAIN ds : cs[k].command < ds[l].command
Sent(cmds) == \A k \in DOMAIN cmds : cmds[k].command <= sent
OrderInv ==
  /\ \A i \in DOMAIN history :
       /\ Sorted(history[i].commands) /\ Sent(history[i].commands)
       /\ Before(history[i].commands, pendingCommands)
       /\ Before(history[i].commands, queue)
       /\ holding => Before(history[i].commands, consumed)
  /\ \A i, j \in DOMAIN history :
       i < j => Before(history[i].commands, history[j].commands)
  /\ Sorted(pendingCommands) /\ Sent(pendingCommands) /\ Before(pendingCommands, queue)
  /\ Sorted(queue) /\ Sent(queue)
  /\ holding => Sorted(consumed) /\ Sent(consumed) /\ Before(consumed, queue)

\* With commands between ticks only, every command is somewhere.
Holds(cmds, c) == \E k \in DOMAIN cmds : cmds[k].command = c
CoverInv ==
  ~setting.concurrent =>
    \A c \in 1 .. sent :
      \/ \E i \in DOMAIN history : Holds(history[i].commands, c)
      \/ Holds(inFlight, c) \/ Holds(queue, c)

\* The systems that have run in this pass, and what is left of its plan.
OnePass(systems) ==
  \A j, k \in DOMAIN systems :
    j < k => systems[j] # systems[k] /\ Phase[systems[j]] <= Phase[systems[k]]
ConflictFree(systems) ==
  \A a, b \in systems : a # b => ~HasWriteConflict(a, b)
ran == {pendingDiffs[j] : j \in DOMAIN pendingDiffs}
GoodRecord(rec) ==
  /\ OnePass(rec.systems)
  /\ ConflictFree({rec.systems[j] : j \in DOMAIN rec.systems})
  /\ \A j \in DOMAIN rec.commands : rec.commands[j].tick = rec.tick
PassInv ==
  /\ ConflictFree(registered)
  /\ pc = "run" =>
       /\ OnePass(pendingDiffs) /\ ConflictFree(plan \cup ran)
       /\ \A a \in ran, b \in plan : a # b /\ Phase[a] <= Phase[b]
  /\ \A i \in DOMAIN history : GoodRecord(history[i])

\* The consumers that a broadcast without errors leaves behind.
AckInv ==
  setting.faulty = {} =>
    /\ pc \notin {"broadcast", "signal"} => \A c \in consumers : acked[c] = generation
    /\ pc = "signal" => \A c \in consumers \ toSignal : acked[c] = generation

IInv ==
  /\ TypeOK /\ CounterInv /\ PendingInv /\ SerialInv /\ OrderInv /\ CoverInv
  /\ PassInv /\ AckInv

-----------------------------------------------------------------------------
(* Types and counters                                                      *)

\* The start of the scheduler satisfies every part of the invariant.
LEMMA InitIInv == Init => IInv
<1> SUFFICES ASSUME Init PROVE IInv
  OBVIOUS
<1>1. TypeOK
  <2>1. 0 \in Ticks /\ 0 \in 0 .. MaxCommands
    BY SchedulerAssumption DEF Ticks
  <2>2. acked \in [Name -> Ticks]
    BY <2>1 DEF Init
  <2>3. /\ queue \in Seq(Envelope) /\ pendingCommands \in Seq(Envelope)
        /\ consumed \in Seq(Envelope) /\ pendingDiffs \in Seq(System)
        /\ history \in Seq(Record)
    BY DEF Init
  <2>4. /\ setting \in Settings /\ frozen \in BOOLEAN /\ initialized \in BOOLEAN
        /\ pc \in Step /\ phase \in Nat
    BY DEF Init, Step
  <2>5. registered \subseteq System /\ consumers \subseteq Name /\ plan \subseteq System
        /\ toSignal \subseteq Name
    BY DEF Init
  <2> QED  BY <2>1, <2>2, <2>3, <2>4, <2>5 DEF Init, TypeOK
<1>2. CounterInv /\ PendingInv /\ SerialInv
  BY DEF Init, CounterInv, PendingInv, SerialInv, Stamped, holding
<1>3. OrderInv
  BY DEF Init, OrderInv, Sorted, Before, Sent, holding
<1>4. PassInv
  BY DEF Init, PassInv, ConflictFree
<1>5. AckInv
  BY DEF Init, AckInv
<1>6. CoverInv
  BY DEF Init, CoverInv
<1> QED  BY <1>1, <1>2, <1>3, <1>4, <1>5, <1>6 DEF IInv

\* Every step keeps the types: the ticks stay within their bound because a
\* tick() only starts below it.
LEMMA NextTypeOK ==
  ASSUME TypeOK, CounterInv, [Next]_vars
  PROVE  TypeOK'
<1> USE DEF setupVars, counterVars, journalVars, phaseVars, busVars
<1>1. ASSUME NEW s \in System, RegisterSystem(s) PROVE TypeOK'
  BY <1>1 DEF RegisterSystem, Join, TypeOK, Name
<1>2. ASSUME NEW s \in System, UnregisterSystem(s) PROVE TypeOK'
  BY <1>2 DEF UnregisterSystem, TypeOK
<1>3. ASSUME NEW c \in Consumer, RegisterConsumer(c) PROVE TypeOK'
  BY <1>3 DEF RegisterConsumer, Join, TypeOK, Name
<1>4. ASSUME NEW c \in Consumer, UnregisterConsumer(c) PROVE TypeOK'
  BY <1>4 DEF UnregisterConsumer, TypeOK
<1>5. FreezeSchema \/ Initialize => TypeOK'
  BY DEF FreezeSchema, Initialize, TypeOK
<1>6. CASE EnqueueCommand
  <2>1. sent' \in 0 .. MaxCommands /\ sent + 1 \in 1 .. MaxCommands
    BY <1>6, SchedulerAssumption DEF EnqueueCommand, TypeOK
  <2>2. [command |-> sent + 1, tick |-> tick] \in Envelope
    BY <2>1 DEF Envelope, TypeOK
  <2> QED  BY <1>6, <2>1, <2>2 DEF EnqueueCommand, TypeOK
<1>7. CASE ConsumePendingCommands
  BY <1>7 DEF ConsumePendingCommands, TypeOK, Step
<1>8. CASE ConsumeRefused
  <2>1. PICK i \in DOMAIN queue : pendingCommands' = pendingCommands \o SubSeq(queue, 1, i - 1)
    BY <1>8 DEF ConsumeRefused
  <2>2. SubSeq(queue, 1, i - 1) \in Seq(Envelope)
    BY <2>1 DEF TypeOK
  <2>3. pendingCommands \in Seq(Envelope) /\ pendingCommands' \in Seq(Envelope)
    BY <2>1, <2>2 DEF TypeOK
  <2>4. queue' \in Seq(Envelope)
    BY <1>8 DEF ConsumeRefused
  <2> QED  BY <1>8, <2>3, <2>4 DEF ConsumeRefused, TypeOK
<1>9. CASE SystemsByPhase
  BY <1>9 DEF SystemsByPhase, TypeOK, Step
<1>10. ASSUME NEW s \in System, RunSystem(s) PROVE TypeOK'
  BY <1>10, SchedulerAssumption DEF RunSystem, TypeOK
<1>11. ASSUME NEW s \in System, RunSystemFails(s) PROVE TypeOK'
  BY <1>11 DEF RunSystemFails, TypeOK, Step
<1>12. CASE Commit
  <2>1. [tick |-> journalTick, commands |-> pendingCommands, systems |-> pendingDiffs]
          \in Record
    BY DEF TypeOK, Record
  <2>2. history' \in Seq(Record)
    BY <1>12, <2>1 DEF Commit, TypeOK
  <2>3. journalTick' \in Ticks
    BY <1>12, SchedulerAssumption DEF Commit, CounterInv, TypeOK, Ticks
  <2> QED  BY <1>12, <2>2, <2>3 DEF Commit, TypeOK, Step
<1>13. CASE CommitFails
  BY <1>13 DEF CommitFails, TypeOK, Step
<1>14. CASE AdvanceTick
  <2>1. tick' \in Ticks /\ generation' \in Ticks
    BY <1>14, SchedulerAssumption DEF AdvanceTick, CounterInv, TypeOK, Ticks
  <2> QED  BY <1>14, <2>1 DEF AdvanceTick, TypeOK, Step
<1>15. CASE Broadcast
  BY <1>15 DEF Broadcast, TypeOK, Step
<1>20. CASE TickReturns
  <2>1. consumed' \in Seq(Envelope)
    BY <1>20 DEF TickReturns
  <2> QED  BY <1>20, <2>1 DEF TickReturns, TypeOK, Step
<1>16. ASSUME NEW c \in Name, Signal(c) PROVE TypeOK'
  BY <1>16 DEF Signal, TypeOK
<1>17. ASSUME NEW c \in Name, SignalFails(c) PROVE TypeOK'
  BY <1>17 DEF SignalFails, TypeOK, Step
<1>18. CASE ClearPending
  <2>1. pendingCommands' \in Seq(Envelope) /\ pendingDiffs' \in Seq(System)
    BY <1>18 DEF ClearPending
  <2> QED  BY <1>18, <2>1 DEF ClearPending, TypeOK, Step
<1>21. CASE Requeue
  <2>1. queue' \in Seq(Envelope) /\ consumed' \in Seq(Envelope)
    BY <1>21 DEF Requeue, TypeOK
  <2> QED  BY <1>21, <2>1 DEF Requeue, TypeOK, Step
<1>19. CASE UNCHANGED vars
  BY <1>19 DEF vars, TypeOK
<1> QED
  BY <1>1, <1>2, <1>3, <1>4, <1>5, <1>6, <1>7, <1>8, <1>9, <1>10, <1>11, <1>12, <1>13,
     <1>14, <1>15, <1>16, <1>17, <1>18, <1>19, <1>20, <1>21 DEF Next

\* The steps of other threads, and those of tick() that only move consumers:
\* the queue, the journal and the counters stay as they are.
Aside == UNCHANGED <<setting, tick, generation, journalVars, queue, sent, pc, consumed, plan>>

\* Every step is one of them, or one of the listed steps of tick().
LEMMA StepKinds ==
  ASSUME [Next]_vars
  PROVE  \/ Aside
         \/ EnqueueCommand \/ ConsumePendingCommands \/ ConsumeRefused
         \/ SystemsByPhase
         \/ \E s \in System : RunSystem(s) \/ RunSystemFails(s)
         \/ Commit \/ CommitFails \/ AdvanceTick
         \/ Broadcast \/ TickReturns \/ \E c \in Name : SignalFails(c)
         \/ ClearPending \/ Requeue
<1> USE DEF setupVars, counterVars, journalVars, phaseVars, busVars, Aside
<1>1. ASSUME NEW s \in System, RegisterSystem(s) \/ UnregisterSystem(s) PROVE Aside
  BY <1>1 DEF RegisterSystem, UnregisterSystem
<1>2. ASSUME NEW c \in Consumer, RegisterConsumer(c) \/ UnregisterConsumer(c) PROVE Aside
  BY <1>2 DEF RegisterConsumer, UnregisterConsumer
<1>3. FreezeSchema \/ Initialize \/ UNCHANGED vars => Aside
  BY DEF FreezeSchema, Initialize, vars
<1>4. ASSUME NEW c \in Name, Signal(c) PROVE Aside
  BY <1>4 DEF Signal
<1> QED  BY <1>1, <1>2, <1>3, <1>4 DEF Next

\* The counters move together.
LEMMA NextCounterInv ==
  ASSUME TypeOK, CounterInv, [Next]_vars
  PROVE  CounterInv'
<1> USE DEF setupVars, counterVars, journalVars, phaseVars, busVars, CounterInv
<1>1. CASE Aside
  BY <1>1 DEF Aside
<1>2. EnqueueCommand \/ ConsumePendingCommands \/ ConsumeRefused \/ SystemsByPhase
        => CounterInv'
  BY DEF EnqueueCommand, ConsumePendingCommands, ConsumeRefused, SystemsByPhase, StartTick
<1>3. ASSUME NEW s \in System, RunSystem(s) \/ RunSystemFails(s) PROVE CounterInv'
  BY <1>3 DEF RunSystem, RunSystemFails, Ready
<1>4. CASE Commit
  <2>1. Len(history') = Len(history) + 1
    BY <1>4 DEF Commit, TypeOK
  <2> QED  BY <1>4, <2>1 DEF Commit
<1>5. CASE AdvanceTick
  BY <1>5 DEF AdvanceTick
<1>6. CommitFails \/ Broadcast \/ TickReturns \/ ClearPending \/ Requeue => CounterInv'
  BY DEF CommitFails, Broadcast, TickReturns, ClearPending, Requeue
<1>7. ASSUME NEW c \in Name, SignalFails(c) PROVE CounterInv'
  BY <1>7 DEF SignalFails
<1> QED  BY <1>1, <1>2, <1>3, <1>4, <1>5, <1>6, <1>7, StepKinds

-----------------------------------------------------------------------------
(* Command sequences                                                       *)

\* The elements of a concatenation are those of its two parts.
LEMMA ConcatElements ==
  ASSUME NEW S, NEW s \in Seq(S), NEW t \in Seq(S)
  PROVE  /\ s \o t \in Seq(S)
         /\ \A k \in DOMAIN (s \o t) :
              \/ k \in DOMAIN s /\ (s \o t)[k] = s[k]
              \/ k - Len(s) \in DOMAIN t /\ (s \o t)[k] = t[k - Len(s)]
         /\ \A k \in DOMAIN s : k \in DOMAIN (s \o t) /\ (s \o t)[k] = s[k]
         /\ \A k \in DOMAIN t : k + Len(s) \in DOMAIN (s \o t)
                                /\ (s \o t)[k + Len(s)] = t[k]
  OBVIOUS

\* The elements of an extended sequence are the old ones and the new one.
LEMMA AppendElements ==
  ASSUME NEW S, NEW s \in Seq(S), NEW e \in S
  PROVE  /\ Append(s, e) \in Seq(S) /\ Len(Append(s, e)) = Len(s) + 1
         /\ \A k \in DOMAIN Append(s, e) :
              \/ k \in DOMAIN s /\ Append(s, e)[k] = s[k]
              \/ k = Len(s) + 1 /\ Append(s, e)[k] = e
         /\ \A k \in DOMAIN s : k \in DOMAIN Append(s, e) /\ Append(s, e)[k] = s[k]
         /\ Len(s) + 1 \in DOMAIN Append(s, e) /\ Append(s, e)[Len(s) + 1] = e
  OBVIOUS

\* A command is its number.
LEMMA EnvelopeNumber ==
  ASSUME NEW s \in Seq(Envelope), NEW k \in DOMAIN s
  PROVE  s[k] \in Envelope /\ s[k].command \in Nat
<1>1. s[k] \in Envelope
  OBVIOUS
<1> QED  BY <1>1 DEF Envelope

\* Two ordered sequences, one before the other, make one.
LEMMA ConcatOrder ==
  ASSUME NEW s \in Seq(Envelope), NEW t \in Seq(Envelope)
  PROVE  /\ Sorted(s) /\ Sorted(t) /\ Before(s, t) => Sorted(s \o t)
         /\ \A u \in Seq(Envelope) :
              /\ Before(u, s) /\ Before(u, t) => Before(u, s \o t)
              /\ Before(s, u) /\ Before(t, u) => Before(s \o t, u)
         /\ Sent(s) /\ Sent(t) => Sent(s \o t)
         /\ Stamped(s) /\ Stamped(t) => Stamped(s \o t)
         /\ \A c \in Nat : Holds(s, c) \/ Holds(t, c) => Holds(s \o t, c)
<1>0. \A k \in DOMAIN (s \o t) :
        \/ k \in DOMAIN s /\ (s \o t)[k] = s[k]
        \/ k - Len(s) \in DOMAIN t /\ (s \o t)[k] = t[k - Len(s)]
  BY ConcatElements
<1>1. Sorted(s) /\ Sorted(t) /\ Before(s, t) => Sorted(s \o t)
  <2> SUFFICES ASSUME Sorted(s), Sorted(t), Before(s, t),
                      NEW k \in DOMAIN (s \o t), NEW l \in DOMAIN (s \o t), k < l
               PROVE  (s \o t)[k].command < (s \o t)[l].command
    BY DEF Sorted
  <2>1. CASE l \in DOMAIN s /\ (s \o t)[l] = s[l]
    <3>1. k \in DOMAIN s /\ (s \o t)[k] = s[k]
      BY <2>1
    <3> QED  BY <2>1, <3>1 DEF Sorted
  <2>2. CASE l - Len(s) \in DOMAIN t /\ (s \o t)[l] = t[l - Len(s)]
    <3>1. CASE k \in DOMAIN s /\ (s \o t)[k] = s[k]
      BY <2>2, <3>1 DEF Before
    <3>2. CASE k - Len(s) \in DOMAIN t /\ (s \o t)[k] = t[k - Len(s)]
      <4>1. k - Len(s) < l - Len(s)
        OBVIOUS
      <4> QED  BY <2>2, <3>2, <4>1 DEF Sorted
    <3> QED  BY <3>1, <3>2, ConcatElements
  <2> QED  BY <2>1, <2>2, ConcatElements
<1>2. ASSUME NEW u \in Seq(Envelope)
      PROVE  /\ Before(u, s) /\ Before(u, t) => Before(u, s \o t)
             /\ Before(s, u) /\ Before(t, u) => Before(s \o t, u)
  <2> DEFINE st == s \o t
  <2>1. \A k \in DOMAIN st : \/ k \in DOMAIN s /\ st[k] = s[k]
                             \/ k - Len(s) \in DOMAIN t /\ st[k] = t[k - Len(s)]
    BY <1>0
  <2> HIDE DEF st
  <2>2. Before(u, s) /\ Before(u, t) => Before(u, st)
    BY <2>1 DEF Before
  <2>3. Before(s, u) /\ Before(t, u) => Before(st, u)
    BY <2>1 DEF Before
  <2> QED  BY <2>2, <2>3 DEF st
<1>3. Sent(s) /\ Sent(t) => Sent(s \o t)
  BY ConcatElements DEF Sent
<1>4. Stamped(s) /\ Stamped(t) => Stamped(s \o t)
  BY ConcatElements DEF Stamped
<1>5. ASSUME NEW c \in Nat, Holds(s, c) \/ Holds(t, c) PROVE Holds(s \o t, c)
  <2>1. CASE Holds(s, c)
    <3>1. PICK k \in DOMAIN s : s[k].command = c
      BY <2>1 DEF Holds
    <3>2. k \in DOMAIN (s \o t) /\ (s \o t)[k] = s[k]
      BY ConcatElements
    <3> QED  BY <3>1, <3>2 DEF Holds
  <2>2. CASE Holds(t, c)
    <3>1. PICK k \in DOMAIN t : t[k].command = c
      BY <2>2 DEF Holds
    <3>2. k + Len(s) \in DOMAIN (s \o t) /\ (s \o t)[k + Len(s)] = t[k]
      BY ConcatElements
    <3> QED  BY <3>1, <3>2 DEF Holds
  <2> QED  BY <1>5, <2>1, <2>2
<1> QED  BY <1>1, <1>2, <1>3, <1>4, <1>5

\* A new command comes after all the others.
LEMMA AppendOrder ==
  ASSUME NEW s \in Seq(Envelope), NEW e \in Envelope,
         \A k \in DOMAIN s : s[k].command < e.command
  PROVE  /\ Sorted(s) => Sorted(Append(s, e))
         /\ \A u \in Seq(Envelope) :
              Before(u, s) /\ (\A k \in DOMAIN u : u[k].command < e.command)
                => Before(u, Append(s, e))
         /\ \A c \in Nat : Holds(s, c) \/ c = e.command => Holds(Append(s, e), c)
         /\ Stamped(s) /\ e.tick = journalTick => Stamped(Append(s, e))
<1> DEFINE se == Append(s, e)
<1>1. /\ \A k \in DOMAIN se : \/ k \in DOMAIN s /\ se[k] = s[k]
                              \/ k = Len(s) + 1 /\ se[k] = e
      /\ \A k \in DOMAIN s : k \in DOMAIN se /\ se[k] = s[k]
      /\ Len(s) + 1 \in DOMAIN se /\ se[Len(s) + 1] = e
  BY AppendElements
<1>2. \A k \in DOMAIN s : k \in Nat /\ k <= Len(s)
  OBVIOUS
<1> HIDE DEF se
<1>3. Sorted(s) => Sorted(se)
  <2> SUFFICES ASSUME Sorted(s), NEW k \in DOMAIN se, NEW l \in DOMAIN se, k < l
               PROVE  se[k].command < se[l].command
    BY DEF Sorted
  <2>1. k \in DOMAIN s /\ se[k] = s[k]
    BY <1>1, <1>2
  <2> QED  BY <1>1, <2>1 DEF Sorted
<1>4. ASSUME NEW u \in Seq(Envelope), Before(u, s), \A k \in DOMAIN u : u[k].command < e.command
      PROVE  Before(u, se)
  BY <1>1, <1>4 DEF Before
<1>5. ASSUME NEW c \in Nat, Holds(s, c) \/ c = e.command PROVE Holds(se, c)
  BY <1>1, <1>5 DEF Holds
<1>6. Stamped(s) /\ e.tick = journalTick => Stamped(se)
  BY <1>1 DEF Stamped
<1> QED  BY <1>3, <1>4, <1>5, <1>6 DEF se

\* The commands before a refused one are as ordered as the whole queue.
LEMMA PrefixOrder ==
  ASSUME NEW s \in Seq(Envelope), NEW n \in Nat, n < Len(s)
  PROVE  LET p == SubSeq(s, 1, n) IN
         /\ p \in Seq(Envelope)
         /\ \A k \in DOMAIN p : k \in 1 .. n /\ k \in DOMAIN s /\ p[k] = s[k]
         /\ Sorted(s) => Sorted(p)
         /\ Sent(s) => Sent(p)
         /\ \A u \in Seq(Envelope) : Before(u, s) => Before(u, p)
<1> DEFINE p == SubSeq(s, 1, n)
<1>1. p \in Seq(Envelope) /\ \A k \in DOMAIN p : k \in 1 .. n /\ k \in DOMAIN s /\ p[k] = s[k]
  OBVIOUS
<1> HIDE DEF p
<1>2. Sorted(s) => Sorted(p)
  BY <1>1 DEF Sorted
<1>3. Sent(s) => Sent(p)
  BY <1>1 DEF Sent
<1>4. ASSUME NEW u \in Seq(Envelope), Before(u, s) PROVE Before(u, p)
  BY <1>1, <1>4 DEF Before
<1> QED  BY <1>1, <1>2, <1>3, <1>4 DEF p

-----------------------------------------------------------------------------
(* What is pending, and where the commands are                             *)

\* A rollback or a commit leaves nothing of the attempt in the journal.
LEMMA NextPendingInv ==
  ASSUME TypeOK, CounterInv, PendingInv, [Next]_vars
  PROVE  PendingInv'
<1> USE DEF setupVars, counterVars, journalVars, phaseVars, busVars
<1>1. CASE Aside
  BY <1>1 DEF Aside, PendingInv, Stamped
<1>2. CASE EnqueueCommand
  BY <1>2 DEF EnqueueCommand, PendingInv, Stamped
<1>3. CASE ConsumePendingCommands
  <2>1. Stamped(queue)
    BY <1>3 DEF ConsumePendingCommands, Stale, Stamped
  <2>2. Stamped(pendingCommands \o queue)
    BY <2>1, ConcatOrder DEF TypeOK, PendingInv
  <2> QED  BY <1>3, <2>2 DEF ConsumePendingCommands, StartTick, PendingInv, Stamped
<1>4. CASE ConsumeRefused
  <2>1. PICK i \in DOMAIN queue : /\ \A j \in 1 .. i - 1 : ~Stale(j)
                                 /\ pendingCommands' = pendingCommands \o SubSeq(queue, 1, i - 1)
    BY <1>4 DEF ConsumeRefused
  <2> DEFINE p == SubSeq(queue, 1, i - 1)
  <2>2. i - 1 \in Nat /\ i - 1 < Len(queue)
    BY DEF TypeOK
  <2>3. p \in Seq(Envelope) /\ \A k \in DOMAIN p : k \in 1 .. i - 1 /\ p[k] = queue[k]
    BY <2>2, PrefixOrder DEF TypeOK
  <2>4. Stamped(p)
    BY <2>1, <2>3 DEF Stamped, Stale
  <2>5. Stamped(pendingCommands \o p)
    BY <2>3, <2>4, ConcatOrder DEF TypeOK, PendingInv
  <2> QED  BY <1>4, <2>1, <2>5 DEF ConsumeRefused, StartTick, PendingInv, Stamped
<1>5. CASE SystemsByPhase
  BY <1>5 DEF SystemsByPhase, PendingInv, Stamped
<1>6. ASSUME NEW s \in System, RunSystem(s) \/ RunSystemFails(s) PROVE PendingInv'
  BY <1>6 DEF RunSystem, RunSystemFails, Ready, PendingInv, Stamped
<1>7. CASE Commit
  BY <1>7 DEF Commit, PendingInv, Stamped
<1>8. CommitFails \/ AdvanceTick \/ Broadcast \/ TickReturns => PendingInv'
  BY DEF CommitFails, AdvanceTick, Broadcast, TickReturns, PendingInv, Stamped
<1>9. ASSUME NEW c \in Name, SignalFails(c) PROVE PendingInv'
  BY <1>9 DEF SignalFails, PendingInv, Stamped
<1>10. ClearPending \/ Requeue => PendingInv'
  BY DEF ClearPending, Requeue, PendingInv, Stamped
<1> QED  BY <1>1, <1>2, <1>3, <1>4, <1>5, <1>6, <1>7, <1>8, <1>9, <1>10, StepKinds

\* With commands between ticks only, none is ever refused, and what tick()
\* consumed is exactly what is pending until it commits or rolls back.
LEMMA NextSerialInv ==
  ASSUME TypeOK, CounterInv, PendingInv, SerialInv, [Next]_vars
  PROVE  SerialInv'
<1> USE DEF setupVars, counterVars, journalVars, phaseVars, busVars
<1> SUFFICES ASSUME ~setting.concurrent, ~setting'.concurrent
             PROVE  SerialInv'
  BY StepKinds DEF SerialInv, Aside, EnqueueCommand, ConsumePendingCommands, ConsumeRefused,
     SystemsByPhase, RunSystem, RunSystemFails, Commit, CommitFails, AdvanceTick, Broadcast,
     TickReturns, SignalFails, ClearPending, Requeue
<1>0. /\ pc = "idle" => pendingCommands = <<>>
      /\ pc # "idle" => queue = <<>>
      /\ pc \in {"plan", "run", "clear"} => pendingCommands = consumed
      /\ holding => Stamped(consumed)
      /\ Stamped(queue)
  BY DEF SerialInv
<1>1. CASE Aside
  BY <1>0, <1>1 DEF Aside, SerialInv, Stamped, holding
<1>2. CASE EnqueueCommand
  <2>1. [command |-> sent + 1, tick |-> tick] \in Envelope
    BY <1>2, SchedulerAssumption DEF EnqueueCommand, TypeOK, Envelope
  <2>2. pc = "idle" /\ tick = journalTick
    BY <1>2 DEF EnqueueCommand, CounterInv
  <2>3. Stamped(Append(queue, [command |-> sent + 1, tick |-> tick]))
    BY <2>1, <2>2, <1>0, AppendElements DEF TypeOK, Stamped
  <2> QED  BY <1>0, <1>2, <2>2, <2>3 DEF EnqueueCommand, SerialInv, Stamped, holding
<1>3. CASE ConsumePendingCommands
  <2>1. pendingCommands' = queue
    BY <1>0, <1>3 DEF ConsumePendingCommands, StartTick, TypeOK
  <2> QED  BY <1>0, <1>3, <2>1 DEF ConsumePendingCommands, SerialInv, Stamped, holding
<1>4. CASE ConsumeRefused
  BY <1>0, <1>4 DEF ConsumeRefused, Stamped, Stale
<1>5. CASE SystemsByPhase
  BY <1>0, <1>5 DEF SystemsByPhase, SerialInv, Stamped, holding
<1>6. ASSUME NEW s \in System, RunSystem(s) \/ RunSystemFails(s) PROVE SerialInv'
  BY <1>0, <1>6 DEF RunSystem, RunSystemFails, Ready, SerialInv, Stamped, holding
<1>7. CASE Commit
  BY <1>0, <1>7 DEF Commit, SerialInv, Stamped, holding
<1>8. CommitFails \/ AdvanceTick \/ Broadcast => SerialInv'
  BY <1>0 DEF CommitFails, AdvanceTick, Broadcast, SerialInv, Stamped, holding
<1>9. CASE TickReturns
  BY <1>0, <1>9 DEF TickReturns, PendingInv, SerialInv, Stamped, holding
<1>10. ASSUME NEW c \in Name, SignalFails(c) PROVE SerialInv'
  BY <1>0, <1>10 DEF SignalFails, PendingInv, SerialInv, Stamped, holding
<1>11. CASE ClearPending
  BY <1>0, <1>11 DEF ClearPending, SerialInv, Stamped, holding
<1>12. CASE Requeue
  <2>1. queue' = consumed
    BY <1>0, <1>12 DEF Requeue, TypeOK
  <2> QED  BY <1>0, <1>12, <2>1 DEF Requeue, PendingInv, SerialInv, Stamped, holding
<1> QED  BY <1>1, <1>2, <1>3, <1>4, <1>5, <1>6, <1>7, <1>8, <1>9, <1>10, <1>11, <1>12, StepKinds

\* No step reorders commands, and none duplicates one: a failure that leaves
\* them pending in the journal, a rollback and an enqueue racing either included.
LEMMA NextOrderInv ==
  ASSUME TypeOK, PendingInv, OrderInv, [Next]_vars
  PROVE  OrderInv'
<1> USE DEF setupVars, counterVars, journalVars, phaseVars, busVars
<1>0. \A i \in DOMAIN history : history[i].commands \in Seq(Envelope)
  <2>1. \A i \in DOMAIN history : history[i] \in Record
    BY DEF TypeOK
  <2> QED  BY <2>1 DEF Record
<1>1. CASE Aside
  BY <1>1 DEF Aside, OrderInv, Sorted, Before, Sent, holding
<1>2. CASE EnqueueCommand
  <2> DEFINE e == [command |-> sent + 1, tick |-> tick]
  <2>1. e \in Envelope /\ e.command = sent + 1
    BY <1>2, SchedulerAssumption DEF EnqueueCommand, TypeOK, Envelope
  <2> HIDE DEF e
  <2>2. queue' = Append(queue, e) /\ sent' = sent + 1
    BY <1>2 DEF EnqueueCommand, e
  <2>3. \A cmds \in Seq(Envelope) : Sent(cmds) => /\ Sent(cmds)'
                                                 /\ \A k \in DOMAIN cmds : cmds[k].command < e.command
    BY <2>1, <2>2, EnvelopeNumber DEF Sent, TypeOK
  <2>4. \A k \in DOMAIN queue : queue[k].command < e.command
    BY <2>3 DEF OrderInv, TypeOK
  <2>5. Sorted(queue')
    BY <2>1, <2>2, <2>4, AppendOrder DEF OrderInv, TypeOK
  <2>6. \A u \in Seq(Envelope) : Before(u, queue) /\ Sent(u) => Before(u, queue')
    BY <2>1, <2>2, <2>3, <2>4, AppendOrder DEF TypeOK
  <2>7. Sent(queue)'
    <3>1. \A k \in DOMAIN queue' : (k \in DOMAIN queue /\ queue'[k] = queue[k]) \/ queue'[k] = e
      BY <2>1, <2>2, AppendElements DEF TypeOK
    <3>2. \A k \in DOMAIN queue : queue[k].command \in Nat
      BY EnvelopeNumber DEF TypeOK
    <3> QED  BY <2>1, <2>2, <2>4, <3>1, <3>2 DEF Sent, TypeOK
  <2>8. UNCHANGED <<history, pendingCommands, consumed, pc>>
    BY <1>2 DEF EnqueueCommand
  <2>9. \A i \in DOMAIN history' :
          /\ Sorted(history[i].commands)' /\ Sent(history[i].commands)'
          /\ Before(history[i].commands, pendingCommands)'
          /\ Before(history[i].commands, queue)'
          /\ holding' => Before(history[i].commands, consumed)'
    BY <1>0, <2>3, <2>6, <2>8 DEF OrderInv, Sorted, Before, holding
  <2>10. \A i, j \in DOMAIN history' :
           i < j => Before(history[i].commands, history[j].commands)'
    BY <2>8 DEF OrderInv, Before
  <2>11. Sorted(pendingCommands)' /\ Sent(pendingCommands)' /\ Before(pendingCommands, queue)'
    BY <2>3, <2>6, <2>8 DEF OrderInv, TypeOK, Sorted, Before
  <2>12. holding' => Sorted(consumed)' /\ Sent(consumed)' /\ Before(consumed, queue)'
    BY <2>3, <2>6, <2>8 DEF OrderInv, TypeOK, Sorted, Before, holding
  <2> QED  BY <2>5, <2>7, <2>9, <2>10, <2>11, <2>12 DEF OrderInv, Sorted
<1>3. CASE ConsumePendingCommands
  <2>1. /\ consumed' = queue /\ pendingCommands' = pendingCommands \o queue /\ queue' = <<>>
        /\ sent' = sent /\ history' = history
    BY <1>3 DEF ConsumePendingCommands
  <2>2. Sorted(pendingCommands') /\ Sent(pendingCommands')
    BY <2>1, ConcatOrder DEF OrderInv, TypeOK
  <2>3. \A i \in DOMAIN history : Before(history[i].commands, pendingCommands')
    BY <1>0, <2>1, ConcatOrder DEF OrderInv, TypeOK
  <2> QED  BY <2>1, <2>2, <2>3 DEF OrderInv, Sorted, Before, Sent
<1>4. CASE ConsumeRefused
  <2>1. PICK i \in DOMAIN queue : pendingCommands' = pendingCommands \o SubSeq(queue, 1, i - 1)
    BY <1>4 DEF ConsumeRefused
  <2> DEFINE p == SubSeq(queue, 1, i - 1)
  <2>2. i - 1 \in Nat /\ i - 1 < Len(queue)
    BY DEF TypeOK
  <2>3. /\ p \in Seq(Envelope) /\ Sorted(p) /\ Sent(p)
        /\ \A u \in Seq(Envelope) : Before(u, queue) => Before(u, p)
    BY <2>2, PrefixOrder DEF TypeOK, OrderInv
  <2> HIDE DEF p
  <2>4. /\ pendingCommands' = pendingCommands \o p /\ queue' = <<>>
        /\ sent' = sent /\ history' = history /\ pc = "idle" /\ pc' = "idle"
    BY <1>4, <2>1 DEF ConsumeRefused, StartTick, p
  <2>5. Sorted(pendingCommands') /\ Sent(pendingCommands')
    BY <2>3, <2>4, ConcatOrder DEF OrderInv, TypeOK
  <2>6. \A j \in DOMAIN history : Before(history[j].commands, pendingCommands')
    BY <1>0, <2>3, <2>4, ConcatOrder DEF OrderInv, TypeOK
  <2> QED  BY <2>4, <2>5, <2>6 DEF OrderInv, Sorted, Before, Sent, holding
<1>5. CASE SystemsByPhase
  BY <1>5 DEF SystemsByPhase, OrderInv, Sorted, Before, Sent, holding
<1>6. ASSUME NEW s \in System, RunSystem(s) \/ RunSystemFails(s) PROVE OrderInv'
  BY <1>6 DEF RunSystem, RunSystemFails, Ready, OrderInv, Sorted, Before, Sent, holding
<1>7. CASE Commit
  <2> DEFINE rec == [tick |-> journalTick, commands |-> pendingCommands,
                     systems |-> pendingDiffs]
  <2>1. rec \in Record /\ rec.commands = pendingCommands
    BY DEF TypeOK, Record
  <2> HIDE DEF rec
  <2>2. /\ history' = Append(history, rec) /\ pendingCommands' = <<>> /\ ~holding'
        /\ queue' = queue /\ sent' = sent
    BY <1>7 DEF Commit, holding, rec
  <2>3. \A i \in DOMAIN history' :
          \/ i \in DOMAIN history /\ history'[i] = history[i]
          \/ i = Len(history) + 1 /\ history'[i] = rec
    BY <2>1, <2>2, AppendElements DEF TypeOK
  <2>4. \A i \in DOMAIN history' :
          /\ Sorted(history'[i].commands) /\ Sent(history'[i].commands)
          /\ Before(history'[i].commands, queue)
    BY <2>1, <2>3 DEF OrderInv
  <2>5. ASSUME NEW i \in DOMAIN history', NEW j \in DOMAIN history', i < j
        PROVE  Before(history'[i].commands, history'[j].commands)
    <3>1. i \in DOMAIN history /\ history'[i] = history[i]
      BY <2>3, <2>5 DEF TypeOK
    <3> QED  BY <2>1, <2>3, <2>5, <3>1 DEF OrderInv
  <2> QED  BY <2>2, <2>4, <2>5 DEF OrderInv, Sorted, Before, Sent
<1>8. CommitFails \/ AdvanceTick \/ Broadcast \/ TickReturns => OrderInv'
  BY DEF CommitFails, AdvanceTick, Broadcast, TickReturns, OrderInv, Sorted, Before, Sent, holding
<1>9. ASSUME NEW c \in Name, SignalFails(c) PROVE OrderInv'
  BY <1>9 DEF SignalFails, OrderInv, Sorted, Before, Sent, holding
<1>10. CASE ClearPending
  BY <1>10 DEF ClearPending, OrderInv, Sorted, Before, Sent, holding
<1>11. CASE Requeue
  <2>1. /\ queue' = consumed \o queue /\ ~holding' /\ sent' = sent /\ history' = history
        /\ pendingCommands' = pendingCommands /\ pendingCommands = <<>> /\ holding
    BY <1>11 DEF Requeue, PendingInv, holding
  <2>2. Sorted(queue') /\ Sent(queue')
    BY <2>1, ConcatOrder DEF OrderInv, TypeOK
  <2>3. \A i \in DOMAIN history : Before(history[i].commands, queue')
    BY <1>0, <2>1, ConcatOrder DEF OrderInv, TypeOK
  <2> QED  BY <2>1, <2>2, <2>3 DEF OrderInv, Sorted, Before, Sent
<1> QED  BY <1>1, <1>2, <1>3, <1>4, <1>5, <1>6, <1>7, <1>8, <1>9, <1>10, <1>11, StepKinds

\* With commands between ticks only, no step drops a command.
LEMMA NextCoverInv ==
  ASSUME TypeOK, CounterInv, PendingInv, SerialInv, CoverInv, [Next]_vars
  PROVE  CoverInv'
<1> USE DEF setupVars, counterVars, journalVars, phaseVars, busVars
<1> SUFFICES ASSUME ~setting.concurrent, ~setting'.concurrent
             PROVE  CoverInv'
  BY StepKinds DEF CoverInv, Aside, EnqueueCommand, ConsumePendingCommands, ConsumeRefused,
     SystemsByPhase, RunSystem, RunSystemFails, Commit, CommitFails, AdvanceTick, Broadcast,
     TickReturns, SignalFails, ClearPending, Requeue
<1>0. \A c \in 1 .. sent :
        \/ \E i \in DOMAIN history : Holds(history[i].commands, c)
        \/ Holds(inFlight, c) \/ Holds(queue, c)
  BY DEF CoverInv
<1>1. ASSUME UNCHANGED <<history, sent, queue>>, inFlight' = inFlight PROVE CoverInv'
  BY <1>0, <1>1 DEF CoverInv, Holds
<1>2. CASE Aside
  BY <1>1, <1>2 DEF Aside, inFlight
<1>3. CASE EnqueueCommand
  <2> DEFINE e == [command |-> sent + 1, tick |-> tick]
  <2>1. e \in Envelope /\ e.command = sent + 1
    BY <1>3, SchedulerAssumption DEF EnqueueCommand, TypeOK, Envelope
  <2> HIDE DEF e
  <2>2. queue' = Append(queue, e) /\ sent' = sent + 1 /\ history' = history /\ inFlight' = inFlight
    BY <1>3 DEF EnqueueCommand, e, inFlight
  <2>3. \A c : Holds(queue, c) \/ c = e.command => Holds(queue', c)
    BY <2>1, <2>2, AppendElements DEF TypeOK, Holds
  <2>4. \A c \in 1 .. sent' : c \in 1 .. sent \/ c = e.command
    BY <2>1, <2>2 DEF TypeOK
  <2> QED  BY <1>0, <2>2, <2>3, <2>4 DEF CoverInv, Holds
<1>4. CASE ConsumePendingCommands
  <2>1. inFlight = <<>> /\ inFlight' = queue /\ UNCHANGED <<history, sent>>
    BY <1>4 DEF ConsumePendingCommands, StartTick, SerialInv, inFlight, TypeOK
  <2> QED  BY <1>0, <2>1 DEF CoverInv, Holds
<1>5. CASE ConsumeRefused
  BY <1>5 DEF ConsumeRefused, SerialInv, Stamped, Stale
<1>6. CASE SystemsByPhase
  BY <1>1, <1>6 DEF SystemsByPhase, inFlight
<1>7. ASSUME NEW s \in System, RunSystem(s) \/ RunSystemFails(s) PROVE CoverInv'
  BY <1>1, <1>7 DEF RunSystem, RunSystemFails, Ready, inFlight
<1>8. CASE Commit
  <2> DEFINE rec == [tick |-> journalTick, commands |-> pendingCommands,
                     systems |-> pendingDiffs]
  <2>1. rec \in Record /\ rec.commands = inFlight
    BY <1>8 DEF TypeOK, Record, Commit, inFlight
  <2> HIDE DEF rec
  <2>2. history' = Append(history, rec) /\ UNCHANGED <<queue, sent>>
    BY <1>8 DEF Commit, rec
  <2>3. /\ \A i \in DOMAIN history : i \in DOMAIN history' /\ history'[i] = history[i]
        /\ Len(history) + 1 \in DOMAIN history' /\ history'[Len(history) + 1] = rec
    BY <2>1, <2>2, AppendElements DEF TypeOK
  <2>4. \A c \in 1 .. sent :
          \/ \E i \in DOMAIN history' : Holds(history'[i].commands, c)
          \/ Holds(queue', c)
    BY <1>0, <2>1, <2>2, <2>3 DEF Holds
  <2> QED  BY <2>2, <2>4 DEF CoverInv, Holds
<1>9. CommitFails \/ AdvanceTick \/ Broadcast \/ TickReturns => CoverInv'
  BY <1>1 DEF CommitFails, AdvanceTick, Broadcast, TickReturns, inFlight
<1>10. ASSUME NEW c \in Name, SignalFails(c) PROVE CoverInv'
  BY <1>1, <1>10 DEF SignalFails, inFlight
<1>11. CASE ClearPending
  BY <1>1, <1>11 DEF ClearPending, SerialInv, inFlight
<1>12. CASE Requeue
  <2>1. inFlight = consumed /\ queue' = consumed \o queue /\ UNCHANGED <<history, sent>>
    BY <1>12 DEF Requeue, inFlight
  <2>2. \A c \in Nat : Holds(consumed, c) \/ Holds(queue, c) => Holds(queue', c)
    BY <2>1, ConcatOrder DEF TypeOK
  <2>3. ASSUME NEW c \in 1 .. sent'
        PROVE  (\E i \in DOMAIN history' : Holds(history'[i].commands, c)) \/ Holds(queue', c)
    BY <1>0, <2>1, <2>2 DEF TypeOK
  <2> QED  BY <2>3 DEF CoverInv, Holds
<1> QED  BY <1>2, <1>3, <1>4, <1>5, <1>6, <1>7, <1>8, <1>9, <1>10, <1>11, <1>12, StepKinds

-----------------------------------------------------------------------------
(* The pass over the systems, and the consumers                            *)

\* The next system in a pass comes after those that have run, and no two of
\* one phase write one table.
LEMMA NextPassInv ==
  ASSUME TypeOK, PendingInv, PassInv, [Next]_vars
  PROVE  PassInv'
<1> USE DEF setupVars, counterVars, journalVars, phaseVars, busVars
<1>0. /\ ConflictFree(registered)
      /\ \A i \in DOMAIN history : GoodRecord(history[i])
  BY DEF PassInv
<1>1. ASSUME UNCHANGED <<history, pendingDiffs, plan>>, ConflictFree(registered'),
             pc' = "run" => pc = "run"
      PROVE  PassInv'
  BY <1>1 DEF PassInv, OnePass, ConflictFree, ran, HasWriteConflict
<1>2. ASSUME registered' = registered PROVE ConflictFree(registered')
  BY <1>0, <1>2
<1>3. ASSUME NEW s \in System, RegisterSystem(s) PROVE PassInv'
  <2>1. \A o \in registered : ~HasWriteConflict(s, o) /\ ~HasWriteConflict(o, s)
    BY <1>3 DEF RegisterSystem, HasWriteConflict
  <2>2. ConflictFree(registered')
    BY <1>0, <1>3, <2>1 DEF RegisterSystem, ConflictFree
  <2> QED  BY <1>1, <1>3, <2>2 DEF RegisterSystem
<1>4. ASSUME NEW s \in System, UnregisterSystem(s) PROVE PassInv'
  <2>1. ConflictFree(registered')
    BY <1>0, <1>4 DEF UnregisterSystem, ConflictFree
  <2> QED  BY <1>1, <1>4, <2>1 DEF UnregisterSystem
<1>5. ASSUME NEW c \in Consumer, RegisterConsumer(c) \/ UnregisterConsumer(c) PROVE PassInv'
  BY <1>1, <1>2, <1>5 DEF RegisterConsumer, UnregisterConsumer
<1>6. FreezeSchema \/ Initialize \/ EnqueueCommand \/ UNCHANGED vars => PassInv'
  BY <1>1, <1>2 DEF FreezeSchema, Initialize, EnqueueCommand, vars
<1>7. ConsumePendingCommands \/ ConsumeRefused => PassInv'
  BY <1>1, <1>2 DEF ConsumePendingCommands, ConsumeRefused
<1>8. CASE SystemsByPhase
  <2>1. /\ plan' = registered /\ pendingDiffs' = <<>> /\ registered' = registered
        /\ history' = history /\ pc' = "run"
    BY <1>8 DEF SystemsByPhase, PendingInv
  <2>2. ran' = {} /\ OnePass(pendingDiffs')
    BY <2>1 DEF ran, OnePass
  <2>3. ConflictFree(plan' \cup ran')
    BY <1>0, <2>1, <2>2 DEF ConflictFree
  <2>4. \A a \in ran', b \in plan' : a # b /\ Phase[a] <= Phase[b]
    BY <2>2
  <2> QED  BY <1>0, <2>1, <2>2, <2>3, <2>4 DEF PassInv
<1>9. ASSUME NEW s \in System, RunSystem(s) PROVE PassInv'
  <2>1. /\ pc = "run" /\ pc' = "run" /\ s \in plan /\ \A o \in plan : Phase[s] <= Phase[o]
        /\ pendingDiffs' = Append(pendingDiffs, s) /\ plan' = plan \ {s}
        /\ history' = history /\ registered' = registered
    BY <1>9 DEF RunSystem, Ready
  <2>2. /\ \A k \in DOMAIN pendingDiffs' :
             \/ k \in DOMAIN pendingDiffs /\ pendingDiffs'[k] = pendingDiffs[k]
             \/ k = Len(pendingDiffs) + 1 /\ pendingDiffs'[k] = s
        /\ \A k \in DOMAIN pendingDiffs : k \in 1 .. Len(pendingDiffs)
    BY <2>1, AppendElements DEF TypeOK
  <2>3. ran' \subseteq ran \cup {s}
    BY <2>2 DEF ran
  <2>4. /\ OnePass(pendingDiffs) /\ ConflictFree(plan \cup ran)
        /\ \A a \in ran, b \in plan : a # b /\ Phase[a] <= Phase[b]
    BY <2>1 DEF PassInv
  <2>5. OnePass(pendingDiffs')
    <3> SUFFICES ASSUME NEW j \in DOMAIN pendingDiffs', NEW k \in DOMAIN pendingDiffs', j < k
                 PROVE  /\ pendingDiffs'[j] # pendingDiffs'[k]
                        /\ Phase[pendingDiffs'[j]] <= Phase[pendingDiffs'[k]]
      BY DEF OnePass
    <3>1. j \in DOMAIN pendingDiffs /\ pendingDiffs'[j] = pendingDiffs[j]
      BY <2>2
    <3>2. pendingDiffs[j] \in ran
      BY <3>1 DEF ran
    <3> QED  BY <2>1, <2>2, <2>4, <3>1, <3>2 DEF OnePass
  <2>6. plan' \cup ran' \subseteq plan \cup ran
    BY <2>1, <2>3
  <2>7. ConflictFree(plan' \cup ran')
    BY <2>4, <2>6 DEF ConflictFree
  <2>8. \A a \in ran', b \in plan' : a # b /\ Phase[a] <= Phase[b]
    BY <2>1, <2>3, <2>4
  <2> QED  BY <1>0, <2>1, <2>5, <2>7, <2>8 DEF PassInv
<1>10. ASSUME NEW s \in System, RunSystemFails(s) PROVE PassInv'
  <2>1. pc' # "run" /\ UNCHANGED <<history, registered>>
    BY <1>10 DEF RunSystemFails
  <2> QED  BY <1>0, <2>1 DEF PassInv
<1>11. CASE Commit
  <2> DEFINE rec == [tick |-> journalTick, commands |-> pendingCommands,
                     systems |-> pendingDiffs]
  <2>1. /\ rec \in Record /\ rec.commands = pendingCommands /\ rec.systems = pendingDiffs
        /\ rec.tick = journalTick
    BY DEF TypeOK, Record
  <2> HIDE DEF rec
  <2>2. /\ history' = Append(history, rec) /\ registered' = registered
        /\ pc = "run" /\ pc' # "run" /\ plan = {}
    BY <1>11 DEF Commit, rec
  <2>3. \A i \in DOMAIN history' :
          \/ i \in DOMAIN history /\ history'[i] = history[i]
          \/ i = Len(history) + 1 /\ history'[i] = rec
    BY <2>1, <2>2, AppendElements DEF TypeOK
  <2>4. OnePass(rec.systems) /\ ConflictFree({rec.systems[j] : j \in DOMAIN rec.systems})
    BY <2>1, <2>2 DEF PassInv, ran
  <2>5. \A j \in DOMAIN rec.commands : rec.commands[j].tick = rec.tick
    BY <2>1 DEF PendingInv, Stamped
  <2>6. \A i \in DOMAIN history' : GoodRecord(history'[i])
    <3> SUFFICES ASSUME NEW i \in DOMAIN history' PROVE GoodRecord(history'[i])
      OBVIOUS
    <3>1. CASE i \in DOMAIN history /\ history'[i] = history[i]
      BY <1>0, <3>1
    <3>2. CASE history'[i] = rec
      BY <2>4, <2>5, <3>2 DEF GoodRecord
    <3> QED  BY <2>3, <3>1, <3>2
  <2> QED  BY <1>0, <2>2, <2>6 DEF PassInv
<1>12. CommitFails \/ AdvanceTick \/ Broadcast \/ TickReturns \/ Requeue => PassInv'
  BY <1>1, <1>2 DEF CommitFails, AdvanceTick, Broadcast, TickReturns, Requeue
<1>13. ASSUME NEW c \in Name, Signal(c) \/ SignalFails(c) PROVE PassInv'
  BY <1>1, <1>2, <1>13 DEF Signal, SignalFails
<1>14. CASE ClearPending
  <2>1. pc' # "run" /\ UNCHANGED <<history, registered>>
    BY <1>14 DEF ClearPending
  <2> QED  BY <1>0, <2>1 DEF PassInv
<1> QED
  BY <1>3, <1>4, <1>5, <1>6, <1>7, <1>8, <1>9, <1>10, <1>11, <1>12, <1>13, <1>14 DEF Next

\* If no consumer returns an error, a broadcast leaves none behind: one that
\* joins while it runs starts from the generation being signalled.
LEMMA NextAckInv ==
  ASSUME TypeOK, CounterInv, AckInv, [Next]_vars
  PROVE  AckInv'
<1> USE DEF setupVars, counterVars, journalVars, phaseVars, busVars, AckInv
<1>0. ASSUME NEW names \in SUBSET Name, Join(names),
             UNCHANGED <<setting, generation, pc, toSignal>>
      PROVE  AckInv'
  <2>1. \A c \in consumers' : \/ acked'[c] = generation
                              \/ c \in consumers /\ acked'[c] = acked[c]
    BY <1>0 DEF Join, TypeOK
  <2> QED  BY <1>0, <2>1
<1>1. ASSUME NEW s \in System, RegisterSystem(s) PROVE AckInv'
  BY <1>0, <1>1 DEF RegisterSystem, Name
<1>2. ASSUME NEW s \in System, UnregisterSystem(s) PROVE AckInv'
  BY <1>2 DEF UnregisterSystem
<1>3. ASSUME NEW c \in Consumer, RegisterConsumer(c) PROVE AckInv'
  BY <1>0, <1>3 DEF RegisterConsumer, Name
<1>4. ASSUME NEW c \in Consumer, UnregisterConsumer(c) PROVE AckInv'
  BY <1>4 DEF UnregisterConsumer
<1>5. FreezeSchema \/ Initialize \/ EnqueueCommand \/ ConsumePendingCommands \/ ConsumeRefused
        \/ SystemsByPhase \/ UNCHANGED vars => AckInv'
  BY DEF FreezeSchema, Initialize, EnqueueCommand, ConsumePendingCommands, ConsumeRefused,
         SystemsByPhase, StartTick, vars
<1>6. ASSUME NEW s \in System, RunSystem(s) \/ RunSystemFails(s) PROVE AckInv'
  BY <1>6 DEF RunSystem, RunSystemFails, Ready
<1>7. Commit \/ CommitFails \/ AdvanceTick \/ Broadcast \/ ClearPending \/ Requeue => AckInv'
  BY DEF Commit, CommitFails, AdvanceTick, Broadcast, ClearPending, Requeue
<1>8. CASE TickReturns
  BY <1>8 DEF TickReturns
<1>9. ASSUME NEW c \in Name, Signal(c) PROVE AckInv'
  BY <1>9 DEF Signal, TypeOK
<1>10. ASSUME NEW c \in Name, SignalFails(c) PROVE AckInv'
  BY <1>10 DEF SignalFails
<1> QED  BY <1>1, <1>2, <1>3, <1>4, <1>5, <1>6, <1>7, <1>8, <1>9, <1>10 DEF Next

-----------------------------------------------------------------------------
(* The theorems                                                            *)

\* The invariant holds in every reachable state.
THEOREM Invariance == Spec => []IInv
<1>1. IInv /\ [Next]_vars => IInv'
  BY NextTypeOK, NextCounterInv, NextPendingInv, NextSerialInv, NextOrderInv, NextCoverInv,
     NextPassInv, NextAckInv DEF IInv
<1> QED  BY InitIInv, <1>1, PTL DEF Spec

\* The scheduler's state keeps its types, and its ticks their bound.
THEOREM TypeCorrect == Spec => []TypeOK
<1>1. IInv => TypeOK
  BY DEF IInv
<1> QED  BY Invariance, <1>1, PTL

\* After any tick(), failed or not, the scheduler and the journal agree on the
\* tick and the next attempt starts from a clean slate.
THEOREM CleanSlateHolds == Spec => []CleanSlate
<1>1. IInv => CleanSlate
  BY DEF IInv, CounterInv, PendingInv, SerialInv, CleanSlate
<1> QED  BY Invariance, <1>1, PTL

\* The commands of the journal and of the queue are in the order in which they
\* were enqueued, each at most once, whatever fails and whoever enqueues.
THEOREM CommandsStayInOrder == Spec => []CommandsInOrder
<1>1. ASSUME IInv PROVE CommandsInOrder
  <2> DEFINE n == Len(history)
  <2>1. n \in Nat /\ DOMAIN history = 1 .. n
    BY <1>1 DEF IInv, TypeOK
  <2> HIDE DEF n
  <2>2. DOMAIN commandLog = 1 .. n + 2
    BY DEF commandLog, n
  <2>3. \A i \in 1 .. n : commandLog[i] = history[i].commands
    BY <2>1 DEF commandLog, n
  <2>4. commandLog[n + 1] = inFlight /\ commandLog[n + 2] = queue
    BY <2>1 DEF commandLog, n
  <2>5. /\ Sorted(inFlight) /\ Sorted(queue) /\ Before(inFlight, queue)
        /\ \A i \in 1 .. n : /\ Sorted(history[i].commands)
                              /\ Before(history[i].commands, inFlight)
                              /\ Before(history[i].commands, queue)
    BY <1>1, <2>1 DEF IInv, OrderInv, inFlight, holding
  <2>6. \A i, j \in 1 .. n : i < j => Before(history[i].commands, history[j].commands)
    BY <1>1, <2>1 DEF IInv, OrderInv
  <2>7. \A i \in DOMAIN commandLog : Sorted(commandLog[i])
    BY <2>1, <2>2, <2>3, <2>4, <2>5
  <2>8. ASSUME NEW i \in DOMAIN commandLog, NEW j \in DOMAIN commandLog, i < j
        PROVE  Before(commandLog[i], commandLog[j])
    <3>1. CASE j \in 1 .. n
      BY <2>1, <2>2, <2>3, <2>6, <2>8, <3>1
    <3>2. CASE j = n + 1
      BY <2>1, <2>2, <2>3, <2>4, <2>5, <2>8, <3>2
    <3>3. CASE j = n + 2
      <4>1. i \in 1 .. n \/ i = n + 1
        BY <2>1, <2>2, <2>8, <3>3
      <4> QED  BY <2>3, <2>4, <2>5, <3>3, <4>1
    <3> QED  BY <2>1, <2>2, <3>1, <3>2, <3>3
  <2> QED  BY <2>7, <2>8 DEF CommandsInOrder, Sorted, Before
<1> QED  BY Invariance, <1>1, PTL

\* A command enqueued between ticks is never lost.
THEOREM SerialCommandsKept == Spec => []SerialKeepsCommands
<1>1. ASSUME IInv, ~setting.concurrent PROVE NoCommandLost
  <2> DEFINE n == Len(history)
  <2>1. n \in Nat /\ DOMAIN history = 1 .. n
    BY <1>1 DEF IInv, TypeOK
  <2> HIDE DEF n
  <2>2. /\ DOMAIN commandLog = 1 .. n + 2
        /\ \A i \in 1 .. n : commandLog[i] = history[i].commands
        /\ commandLog[n + 1] = inFlight /\ commandLog[n + 2] = queue
    BY <2>1 DEF commandLog, n
  <2>3. \A c \in 1 .. sent : \E i \in DOMAIN commandLog : Holds(commandLog[i], c)
    BY <1>1, <2>1, <2>2 DEF IInv, CoverInv
  <2> QED  BY <2>3 DEF NoCommandLost, Holds
<1>2. IInv => SerialKeepsCommands
  BY <1>1 DEF SerialKeepsCommands
<1> QED  BY Invariance, <1>2, PTL

\* A committed record is one pass over the systems, in phase order.
THEOREM RecordsAreOnePass == Spec => []RecordIsOnePass
<1>1. IInv => RecordIsOnePass
  BY DEF IInv, PassInv, GoodRecord, OnePass, RecordIsOnePass
<1> QED  BY Invariance, <1>1, PTL

\* Two writers of one table in a record are in different phases.
THEOREM WritersStayOrdered == Spec => []WritersOrdered
<1>1. ASSUME IInv PROVE WritersOrdered
  <2> SUFFICES ASSUME NEW i \in DOMAIN history, NEW j \in DOMAIN history[i].systems,
                      NEW k \in DOMAIN history[i].systems, j # k,
                      Writes[history[i].systems[j]] \cap Writes[history[i].systems[k]] # {}
               PROVE  Phase[history[i].systems[j]] # Phase[history[i].systems[k]]
    BY DEF WritersOrdered
  <2>1. history[i].systems \in Seq(System)
    <3>1. history[i] \in Record
      BY <1>1 DEF IInv, TypeOK
    <3> QED  BY <3>1 DEF Record
  <2>2. j < k \/ k < j
    BY <2>1
  <2>3. history[i].systems[j] # history[i].systems[k]
    BY <1>1, <2>2 DEF IInv, PassInv, GoodRecord, OnePass
  <2>4. ConflictFree({history[i].systems[m] : m \in DOMAIN history[i].systems})
    BY <1>1 DEF IInv, PassInv, GoodRecord
  <2> QED  BY <2>3, <2>4 DEF ConflictFree, HasWriteConflict
<1> QED  BY Invariance, <1>1, PTL

\* No system runs while a consumer has not acknowledged the last generation.
THEOREM RefreshesAcknowledged == Spec => []RefreshAcknowledged
<1>1. IInv => RefreshAcknowledged
  BY DEF IInv, AckInv, RefreshAcknowledged
<1> QED  BY Invariance, <1>1, PTL
=============================================================================
