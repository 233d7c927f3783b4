----------------------------- MODULE InputBuffer ----------------------------
(***************************************************************************)
(* InputCommandBuffer (scharnhorst_bevy/src/input_buffer.rs): the queue in *)
(* which the user interface leaves player commands for the simulation.     *)
(* All state is behind one mutex, so each method is one step; consuming    *)
(* a tick is two of them, prepare_for_tick and drain_commands, between     *)
(* which the other thread can push, clear or set the tick.                 *)
(***************************************************************************)
EXTENDS Integers, Sequences, FiniteSets

CONSTANTS MaxTick, MaxPush

ASSUME InputAssumption == MaxTick \in Nat /\ MaxPush \in Nat

VARIABLES
  queue,         \* InputBufferInner::queue: [id, source, tick]
  bufferTick,    \* current_tick, the stamp of a pushed command
  lastConsumed,  \* last_consumed_tick
  prepared,      \* tick_prepared
  pushed,        \* history: commands accepted so far, which numbers them
  delivered,     \* history: the commands handed out, with the tick of the batch
  cleared        \* history: the commands thrown away by clear()

inputVars == <<queue, bufferTick, lastConsumed, prepared, pushed, delivered, cleared>>

Source == {"Player", "Ai", "Internal"}

InputInit ==
  /\ queue = <<>> /\ bufferTick = 0 /\ lastConsumed = 0 /\ prepared = FALSE
  /\ pushed = 0 /\ delivered = <<>> /\ cleared = {}

IsPlayer(source) == source = "Player"

\* push, push_with_source and submit_player_command stamp the command with the
\* tick of the moment; push_ai, and any other source, is refused.
Push(source) ==
  /\ pushed < MaxPush
  /\ IF IsPlayer(source)
       THEN /\ queue' = Append(queue, [id |-> pushed + 1, source |-> source,
                                       tick |-> bufferTick])
            /\ pushed' = pushed + 1
       ELSE UNCHANGED <<queue, pushed>>
  /\ UNCHANGED <<bufferTick, lastConsumed, prepared, delivered, cleared>>

\* set_tick checks nothing: a late frame can set an older tick.
SetTick(tick) ==
  /\ bufferTick' = tick
  /\ UNCHANGED <<queue, lastConsumed, prepared, pushed, delivered, cleared>>

Prepare(tick) ==
  /\ tick >= bufferTick
  /\ bufferTick' = tick /\ prepared' = TRUE
  /\ UNCHANGED <<queue, lastConsumed, pushed, delivered, cleared>>

PrepareRefused(tick) == tick < bufferTick /\ UNCHANGED inputVars

CanDrain(tick) == prepared /\ tick = bufferTick

Hand(tick) == [i \in DOMAIN queue |-> [id |-> queue[i].id, stamp |-> queue[i].tick,
                                       at |-> tick]]

\* Mutant: the queue is emptied before the tick is compared.
DrainRefusedEmptied(tick) ==
  /\ ~CanDrain(tick) /\ queue' = <<>>
  /\ UNCHANGED <<bufferTick, lastConsumed, prepared, pushed, delivered, cleared>>

DrainRefused(tick) == ~CanDrain(tick) /\ UNCHANGED inputVars

DrainCommands(tick) ==
  /\ CanDrain(tick)
  /\ delivered' = delivered \o Hand(tick)
  /\ queue' = <<>> /\ lastConsumed' = tick /\ prepared' = FALSE
  /\ UNCHANGED <<bufferTick, pushed, cleared>>

\* The deprecated drain(): no check, and the tick protocol is left alone.
\* The caller, at its own tick, gets bare envelopes.
LegacyDrain(tick) ==
  /\ queue # <<>>
  /\ delivered' = delivered \o Hand(tick)
  /\ queue' = <<>>
  /\ UNCHANGED <<bufferTick, lastConsumed, prepared, pushed, cleared>>

Clear ==
  /\ queue # <<>>
  /\ cleared' = cleared \cup {queue[i].id : i \in DOMAIN queue}
  /\ queue' = <<>>
  /\ UNCHANGED <<bufferTick, lastConsumed, prepared, pushed, delivered>>

-----------------------------------------------------------------------------
\* I-BB-INPUT-BOUNDARY is part of the type: only player commands are queued.
InputTypeOK ==
  /\ \A i \in DOMAIN queue : /\ queue[i].id \in 1 .. pushed
                             /\ queue[i].source = "Player"
                             /\ queue[i].tick \in 0 .. MaxTick
  /\ bufferTick \in 0 .. MaxTick /\ lastConsumed \in 0 .. MaxTick
  /\ prepared \in BOOLEAN /\ pushed \in 0 .. MaxPush

\* Every command a player has given is handed to the simulation once, in the
\* order given, unless clear() dropped it: a batch refused because the tick
\* moved between prepare and drain loses nothing.  None carries a stamp from
\* after the tick it is delivered at.
DeliveredOnce ==
  LET ids == [i \in DOMAIN delivered |-> delivered[i].id]
             \o [i \in DOMAIN queue |-> queue[i].id]
  IN  /\ {ids[i] : i \in DOMAIN ids} = (1 .. pushed) \ cleared
      /\ \A i, j \in DOMAIN ids : i < j => ids[i] < ids[j]
      /\ \A i \in DOMAIN delivered : delivered[i].stamp <= delivered[i].at
=============================================================================
