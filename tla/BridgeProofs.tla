---------------------------- MODULE BridgeProofs ----------------------------
(***************************************************************************)
(* Proofs about InputBuffer and BevyBridge, for every number of commands,  *)
(* ticks, rows, systems and entities, and every scenario: unlike the run,  *)
(* with all parts busy at once.                                            *)
(***************************************************************************)
EXTENDS BevyBridge, SequenceTheorems, TLAPS

-----------------------------------------------------------------------------
(* The inductive invariants, one per part of the bridge                    *)

Queued == [id : Nat, source : Source, tick : Nat]
Handed == [id : Nat, stamp : Nat, at : Nat]

\* The queue and the log of deliveries hold the commands in order, and every
\* command that was not cleared is in one of the two.
InputType ==
  /\ queue \in Seq(Queued) /\ delivered \in Seq(Handed)
  /\ pushed \in Nat /\ cleared \subseteq 1 .. pushed
  /\ bufferTick \in Nat /\ frameTick \in Nat /\ simTick \in Nat
Increasing(s) == \A i, j \in DOMAIN s : i < j => s[i].id < s[j].id
Kept(s) == \A i \in DOMAIN s : s[i].id \in (1 .. pushed) \ cleared
Has(s, c) == \E i \in DOMAIN s : s[i].id = c
InputOrder ==
  /\ Increasing(delivered) /\ Increasing(queue)
  /\ \A i \in DOMAIN delivered, j \in DOMAIN queue : delivered[i].id < queue[j].id
  /\ Kept(delivered) /\ Kept(queue)
  /\ \A c \in (1 .. pushed) \ cleared : Has(delivered, c) \/ Has(queue, c)

\* No tick that the frame knows of is ahead of the simulation's.
StampInv ==
  /\ frameTick <= simTick /\ bufferTick <= simTick
  /\ \A i \in DOMAIN queue : queue[i].tick <= simTick
  /\ \A i \in DOMAIN delivered : delivered[i].stamp <= delivered[i].at

\* The published tick is the simulation's from publication to the advance, and
\* the one before otherwise; every commit has its generation.  Where the callback
\* refreshes, the view is that of one commit, and of the last one after a tick()
\* that returned Ok; where the frame does, the snapshot it holds is not older than
\* the view.
Phases == {"idle", "prepared", "drained", "published", "advanced", "refreshed"}
ViewInv ==
  /\ simTick \in Nat \ {0} /\ simPc \in Phases
  /\ latest = IF simPc = "published" THEN simTick ELSE simTick - 1
  /\ generation = latest
  /\ view \in [tick : Nat, generation : Nat] /\ view.tick <= latest
  /\ refresh \in [at : {"none", "taken", "counted", "installed"}, tick : Nat, generation : Nat]
  /\ refresh.tick <= latest
  /\ scenario.refresh = "callback" =>
       /\ refresh.at = "none" /\ view.tick = view.generation
       /\ simPc = "refreshed" \/ (Between /\ tickOk) => view.tick = latest
  /\ scenario.refresh = "frame" =>
       /\ simPc # "refreshed"
       /\ refresh.at \in {"taken", "counted"} => view.tick <= refresh.tick

\* While sync_all runs, what is marked is still to be read, in its errors or was
\* reported by an earlier call.
SyncInv ==
  /\ failed \subseteq dirty /\ failed \subseteq marked /\ reported \cap dirty = {}
  /\ reported \subseteq marked /\ syncing \subseteq dirty /\ syncing \subseteq marked
  /\ syncing \cap failed = {}
  /\ \A read \in loaded : read[1] \in syncing
  /\ syncing = {} => failed = {} /\ marked = dirty \cup reported
  /\ syncing # {} => marked \subseteq syncing \cup failed \cup reported

\* The registry and the entities point at each other: one way always, the
\* other way while the systems take turns.  A row about to be spawned is then
\* still free, and an entity about to be dropped still the one of its row.
MutualInv ==
  /\ \A e \in DOMAIN alive : alive[e] \in DOMAIN registry /\ registry[alive[e]] = e
  /\ \A s, o \in Systems : job[s] # Idle /\ job[o] # Idle => s = o
  /\ \A s \in Systems :
       /\ job[s].at = "spawn" => Head(job[s].todo) \notin DOMAIN registry
       /\ job[s].at = "drop" /\ job[s].row \in DOMAIN registry =>
            registry[job[s].row] = job[s].entity
EntityInv ==
  /\ born \in Nat /\ DOMAIN alive \subseteq 1 .. born
  /\ \A row \in DOMAIN registry : /\ registry[row] \in DOMAIN alive
                                  /\ alive[registry[row]] = row
  /\ \A s \in Systems :
       job[s].at = "drop" =>
         /\ job[s].entity \in 1 .. born
         /\ job[s].entity \in DOMAIN alive => alive[job[s].entity] = job[s].row
  /\ ~overlap => MutualInv

\* The fields a job has.
JobInv ==
  /\ DOMAIN job = Systems
  /\ \A s \in Systems :
       /\ "at" \in DOMAIN job[s]
       /\ job[s].at \in {"look", "spawn"} => "todo" \in DOMAIN job[s]

-----------------------------------------------------------------------------
(* The input buffer                                                        *)

\* How a step changes the commands: one is appended, the queue is handed out,
\* the queue is cleared, or nothing moves but the ticks.
PushStep ==
  /\ \/ \E source \in Source :
          /\ queue' = Append(queue, [id |-> pushed + 1, source |-> source, tick |-> bufferTick])
          /\ pushed' = pushed + 1
     \/ UNCHANGED <<queue, pushed>>
  /\ UNCHANGED <<delivered, cleared, bufferTick, frameTick, simTick>>
HandStep ==
  /\ delivered' = delivered \o Hand(simTick) /\ queue' = <<>>
  /\ UNCHANGED <<pushed, cleared, bufferTick, frameTick, simTick>>
ClearStep ==
  /\ cleared' = cleared \cup {queue[i].id : i \in DOMAIN queue} /\ queue' = <<>>
  /\ UNCHANGED <<pushed, delivered, bufferTick, frameTick, simTick>>
TickStep ==
  /\ UNCHANGED <<queue, pushed, delivered, cleared>>
  /\ bufferTick' \in {bufferTick, frameTick, simTick} /\ frameTick' \in {frameTick, simTick}
  /\ simTick' \in {simTick, simTick + 1}

\* Every step of the bridge is one of the four.
LEMMA InputKinds ==
  ASSUME [BridgeNext]_bridgeVars
  PROVE  PushStep \/ HandStep \/ ClearStep \/ TickStep
<1> USE DEF bridgeVars, inputVars, simVars, viewVars, syncVars, entityVars, notInput, notFrame,
            notSync, notEntity, notBroadcast, notRefresh, TickStep
<1>1. SimPrepare => TickStep
  BY DEF SimPrepare, Prepare, PrepareRefused
<1>2. SimDrain => HandStep \/ TickStep
  BY DEF SimDrain, DrainCommands, DrainRefused, HandStep
<1>3. SimLegacyDrain => HandStep
  BY DEF SimLegacyDrain, LegacyDrain, HandStep
<1>4. SimPublish \/ AdvanceTick \/ BroadcastFails \/ Callback \/ CallbackEnds \/ OnRefreshSignal
        => TickStep
  BY DEF SimPublish, AdvanceTick,
         BroadcastFails, Callback, CallbackEnds, OnRefreshSignal
<1>5. ASSUME NEW source \in Source, FramePush(source) PROVE PushStep
  BY <1>5 DEF FramePush, Push, PushStep
<1>6. FrameClear => ClearStep
  BY DEF FrameClear, Clear, ClearStep
<1>7. FrameReadTick \/ FrameSetTick => TickStep
  BY DEF FrameReadTick, FrameSetTick, SetTick
<1>8. TakeSnapshot \/ ReadGeneration \/ RefreshView \/ ClearSignal => TickStep
  BY DEF TakeSnapshot, ReadGeneration, RefreshView, ClearSignal
<1>9. SyncStep => TickStep
  BY DEF SyncStep, RegisterEntity, UnregisterEntity, MarkDirty, MarkAllDirty, MarkAll,
         ClearDirty, Unmark, SyncAll, SyncLoad, SyncSkip, SyncRead, SyncDone
<1>10. ASSUME NEW s \in Systems, SystemStep(s) PROVE TickStep
  BY <1>10 DEF SystemStep, Materialize, ReadRows, LookUp, Spawn, Drop, DematerializeAll,
     MaterializeEntity, DematerializeEntity, Dematerialize
<1>11. UNCHANGED bridgeVars => TickStep
  OBVIOUS
<1> QED
  BY <1>1, <1>2, <1>3, <1>4, <1>5, <1>6, <1>7, <1>8, <1>9, <1>10, <1>11
     DEF BridgeNext, SimStep, FrameStep

\* What is handed out is the queue, command by command.
LEMMA HandElements ==
  ASSUME InputType
  PROVE  /\ Hand(simTick) \in Seq(Handed) /\ DOMAIN Hand(simTick) = DOMAIN queue
         /\ \A i \in DOMAIN queue : /\ Hand(simTick)[i].id = queue[i].id
                                   /\ Hand(simTick)[i].stamp = queue[i].tick
                                   /\ Hand(simTick)[i].at = simTick
<1>1. \A i \in DOMAIN queue : queue[i] \in Queued
  BY DEF InputType
<1>2. \A i \in DOMAIN queue :
        [id |-> queue[i].id, stamp |-> queue[i].tick, at |-> simTick] \in Handed
  BY <1>1 DEF Queued, Handed, InputType
<1>3. DOMAIN queue = 1 .. Len(queue) /\ Len(queue) \in Nat
  BY DEF InputType
<1>4. Hand(simTick) \in [1 .. Len(queue) -> Handed]
  BY <1>2, <1>3 DEF Hand
<1> QED  BY <1>3, <1>4 DEF Hand

\* The elements of the log after a delivery: the old ones, then the queue's.
LEMMA DeliveryElements ==
  ASSUME InputType, HandStep
  PROVE  /\ delivered' \in Seq(Handed)
         /\ \A k \in DOMAIN delivered' :
              \/ k \in DOMAIN delivered /\ delivered'[k] = delivered[k]
              \/ /\ k - Len(delivered) \in DOMAIN queue /\ k \notin DOMAIN delivered
                 /\ delivered'[k].id = queue[k - Len(delivered)].id
                 /\ delivered'[k].stamp = queue[k - Len(delivered)].tick
                 /\ delivered'[k].at = simTick
         /\ \A k \in DOMAIN delivered : k \in DOMAIN delivered' /\ delivered'[k] = delivered[k]
         /\ \A k \in DOMAIN queue :
              /\ k + Len(delivered) \in DOMAIN delivered'
              /\ delivered'[k + Len(delivered)].id = queue[k].id
<1> DEFINE h == Hand(simTick)
<1>1. /\ h \in Seq(Handed) /\ delivered \in Seq(Handed) /\ DOMAIN h = DOMAIN queue
      /\ delivered' = delivered \o h
  BY HandElements DEF HandStep, InputType
<1>2. \A i \in DOMAIN queue : /\ h[i].id = queue[i].id /\ h[i].stamp = queue[i].tick
                              /\ h[i].at = simTick
  BY HandElements
<1> HIDE DEF h
<1>3. /\ delivered' \in Seq(Handed)
      /\ \A k \in DOMAIN delivered' :
           \/ k \in DOMAIN delivered /\ delivered'[k] = delivered[k]
           \/ /\ k - Len(delivered) \in DOMAIN h /\ k \notin DOMAIN delivered
              /\ delivered'[k] = h[k - Len(delivered)]
      /\ \A k \in DOMAIN delivered : k \in DOMAIN delivered' /\ delivered'[k] = delivered[k]
      /\ \A k \in DOMAIN h : /\ k + Len(delivered) \in DOMAIN delivered'
                             /\ delivered'[k + Len(delivered)] = h[k]
  BY <1>1
<1> QED  BY <1>1, <1>2, <1>3

\* A command that is pushed gets the next number.
LEMMA PushElements ==
  ASSUME InputType, PushStep, queue' # queue
  PROVE  /\ pushed' = pushed + 1 /\ queue' \in Seq(Queued)
         /\ \A k \in DOMAIN queue' :
              \/ k \in DOMAIN queue /\ queue'[k] = queue[k]
              \/ k = Len(queue) + 1 /\ queue'[k].id = pushed + 1 /\ queue'[k].tick = bufferTick
         /\ \A k \in DOMAIN queue : k \in 1 .. Len(queue) /\ k \in DOMAIN queue'
                                   /\ queue'[k] = queue[k]
         /\ Len(queue) + 1 \in DOMAIN queue' /\ queue'[Len(queue) + 1].id = pushed + 1
<1>1. PICK source \in Source :
        /\ queue' = Append(queue, [id |-> pushed + 1, source |-> source, tick |-> bufferTick])
        /\ pushed' = pushed + 1
  BY DEF PushStep
<1> DEFINE e == [id |-> pushed + 1, source |-> source, tick |-> bufferTick]
<1>2. e \in Queued /\ e.id = pushed + 1 /\ e.tick = bufferTick
  BY DEF InputType, Queued
<1> HIDE DEF e
<1>3. queue' = Append(queue, e) /\ queue \in Seq(Queued)
  BY <1>1 DEF e, InputType
<1>4. /\ queue' \in Seq(Queued)
      /\ \A k \in DOMAIN queue' :
           \/ k \in DOMAIN queue /\ queue'[k] = queue[k]
           \/ k = Len(queue) + 1 /\ queue'[k] = e
      /\ \A k \in DOMAIN queue : k \in 1 .. Len(queue) /\ k \in DOMAIN queue'
                                /\ queue'[k] = queue[k]
      /\ Len(queue) + 1 \in DOMAIN queue' /\ queue'[Len(queue) + 1] = e
  BY <1>2, <1>3
<1> QED  BY <1>1, <1>2, <1>4

\* The types of the buffer.
LEMMA NextInputType ==
  ASSUME InputType, InputOrder, [BridgeNext]_bridgeVars
  PROVE  InputType'
<1>1. CASE PushStep
  <2>1. CASE queue' = queue /\ pushed' = pushed
    BY <1>1, <2>1 DEF PushStep, InputType
  <2>2. CASE queue' # queue
    <3>1. queue' \in Seq(Queued) /\ pushed' = pushed + 1
      BY <1>1, <2>2, PushElements
    <3>2. pushed' \in Nat /\ 1 .. pushed \subseteq 1 .. pushed'
      BY <3>1 DEF InputType
    <3> QED  BY <1>1, <3>1, <3>2 DEF PushStep, InputType
  <2>3. pushed' # pushed => queue' # queue
    <3>1. \A e : Append(queue, e) # queue
      BY DEF InputType
    <3> QED  BY <1>1, <3>1 DEF PushStep
  <2> QED  BY <2>1, <2>2, <2>3
<1>2. CASE HandStep
  <2>1. delivered' \in Seq(Handed) /\ queue' \in Seq(Queued)
    BY <1>2, DeliveryElements DEF HandStep
  <2> QED  BY <1>2, <2>1 DEF HandStep, InputType
<1>3. CASE ClearStep
  <2>1. queue' \in Seq(Queued) /\ {queue[i].id : i \in DOMAIN queue} \subseteq 1 .. pushed
    BY <1>3 DEF ClearStep, InputOrder, Kept
  <2> QED  BY <1>3, <2>1 DEF ClearStep, InputType
<1>4. CASE TickStep
  BY <1>4 DEF TickStep, InputType
<1> QED  BY <1>1, <1>2, <1>3, <1>4, InputKinds

\* No step loses, duplicates or reorders a command.
LEMMA NextInputOrder ==
  ASSUME InputType, InputOrder, [BridgeNext]_bridgeVars
  PROVE  InputOrder'
<1>0. /\ \A i \in DOMAIN queue : queue[i].id \in Nat
      /\ \A i \in DOMAIN delivered : delivered[i].id \in Nat
      /\ pushed \in Nat
  <2>1. /\ \A i \in DOMAIN queue : queue[i] \in Queued
        /\ \A i \in DOMAIN delivered : delivered[i] \in Handed
    BY DEF InputType
  <2> QED  BY <2>1 DEF Queued, Handed, InputType
<1>1. ASSUME UNCHANGED <<queue, pushed, delivered, cleared>> PROVE InputOrder'
  BY <1>1 DEF InputOrder, Increasing, Kept, Has
<1>2. ASSUME PushStep, queue' # queue PROVE InputOrder'
  <2>1. /\ \A k \in DOMAIN queue' :
             \/ k \in DOMAIN queue /\ queue'[k] = queue[k]
             \/ k = Len(queue) + 1 /\ queue'[k].id = pushed + 1
        /\ \A k \in DOMAIN queue : k \in 1 .. Len(queue) /\ k \in DOMAIN queue'
                                  /\ queue'[k] = queue[k]
        /\ Len(queue) + 1 \in DOMAIN queue' /\ queue'[Len(queue) + 1].id = pushed + 1
        /\ pushed' = pushed + 1
    BY <1>2, PushElements
  <2>2. UNCHANGED <<delivered, cleared>>
    BY <1>2 DEF PushStep
  <2>3. pushed + 1 \notin cleared
    BY <1>0 DEF InputType
  <2>4. Len(queue) \in Nat
    BY DEF InputType
  <2>5. Increasing(queue')
    BY <1>0, <2>1, <2>4 DEF InputOrder, Increasing, Kept
  <2>6. \A i \in DOMAIN delivered, j \in DOMAIN queue' : delivered[i].id < queue'[j].id
    BY <1>0, <2>1 DEF InputOrder, Kept
  <2>7. Kept(delivered)' /\ Kept(queue)'
    BY <1>0, <2>1, <2>2, <2>3 DEF InputOrder, Kept
  <2>8. ASSUME NEW c \in (1 .. pushed') \ cleared'
        PROVE  Has(delivered', c) \/ Has(queue', c)
    <3>1. c = pushed + 1 \/ c \in (1 .. pushed) \ cleared
      BY <1>0, <2>1, <2>2
    <3> QED  BY <2>1, <2>2, <3>1 DEF InputOrder, Has
  <2> QED  BY <2>2, <2>5, <2>6, <2>7, <2>8 DEF InputOrder
<1>3. CASE HandStep
  <2> DEFINE n == Len(delivered)
  <2>1. /\ \A k \in DOMAIN delivered' :
             \/ k \in DOMAIN delivered /\ delivered'[k] = delivered[k]
             \/ /\ k - n \in DOMAIN queue /\ k \notin DOMAIN delivered
                /\ delivered'[k].id = queue[k - n].id
        /\ \A k \in DOMAIN delivered : k \in DOMAIN delivered' /\ delivered'[k] = delivered[k]
        /\ \A k \in DOMAIN queue : /\ k + n \in DOMAIN delivered'
                                   /\ delivered'[k + n].id = queue[k].id
    BY <1>3, DeliveryElements
  <2>2. queue' = <<>> /\ UNCHANGED <<pushed, cleared>>
    BY <1>3 DEF HandStep
  <2>3. /\ n \in Nat /\ DOMAIN delivered = 1 .. n
        /\ \A k \in DOMAIN delivered' : k \in Nat \ {0}
    BY <1>3, DeliveryElements DEF InputType
  <2> HIDE DEF n
  <2>4. Increasing(delivered')
    <3> SUFFICES ASSUME NEW i \in DOMAIN delivered', NEW j \in DOMAIN delivered', i < j
                 PROVE  delivered'[i].id < delivered'[j].id
      BY DEF Increasing
    <3>1. CASE j \in DOMAIN delivered
      <4>1. i \in DOMAIN delivered
        BY <2>1, <2>3, <3>1
      <4> QED  BY <2>1, <3>1, <4>1 DEF InputOrder, Increasing
    <3>2. CASE j \notin DOMAIN delivered /\ i \in DOMAIN delivered
      BY <2>1, <3>2 DEF InputOrder
    <3>3. CASE j \notin DOMAIN delivered /\ i \notin DOMAIN delivered
      <4>1. i - n \in DOMAIN queue /\ j - n \in DOMAIN queue /\ i - n < j - n
        BY <2>1, <2>3, <3>3
      <4> QED  BY <2>1, <3>3, <4>1 DEF InputOrder, Increasing
    <3> QED  BY <3>1, <3>2, <3>3
  <2>5. Kept(delivered)' /\ Kept(queue)'
    BY <2>1, <2>2 DEF InputOrder, Kept
  <2>6. \A c \in (1 .. pushed) \ cleared : Has(delivered', c)
    BY <2>1 DEF InputOrder, Has
  <2> QED  BY <2>2, <2>4, <2>5, <2>6 DEF InputOrder, Increasing
<1>4. CASE ClearStep
  <2>1. /\ cleared' = cleared \cup {queue[i].id : i \in DOMAIN queue} /\ queue' = <<>>
        /\ UNCHANGED <<pushed, delivered>>
    BY <1>4 DEF ClearStep
  <2>2. Kept(delivered)' /\ Kept(queue)'
    <3>1. \A i \in DOMAIN delivered : delivered[i].id \notin {queue[j].id : j \in DOMAIN queue}
      BY <1>0 DEF InputOrder
    <3> QED  BY <2>1, <3>1 DEF InputOrder, Kept
  <2>3. \A c \in (1 .. pushed) \ cleared' : Has(delivered, c)
    BY <2>1 DEF InputOrder, Has
  <2> QED  BY <2>1, <2>2, <2>3 DEF InputOrder, Increasing
<1>5. PushStep /\ queue' = queue => pushed' = pushed
  <2>1. \A e : Append(queue, e) # queue
    BY DEF InputType
  <2> QED  BY <2>1 DEF PushStep
<1>6. PushStep \/ TickStep => UNCHANGED <<delivered, cleared>>
  BY DEF PushStep, TickStep
<1>7. CASE TickStep
  BY <1>1, <1>7 DEF TickStep
<1> QED  BY <1>1, <1>2, <1>3, <1>4, <1>5, <1>6, <1>7, InputKinds

\* No command is stamped ahead of the tick at which it is delivered.
LEMMA NextStampInv ==
  ASSUME InputType, StampInv, [BridgeNext]_bridgeVars
  PROVE  StampInv'
<1>0. /\ \A i \in DOMAIN queue : queue[i].tick \in Nat
      /\ bufferTick \in Nat /\ frameTick \in Nat /\ simTick \in Nat
  <2>1. \A i \in DOMAIN queue : queue[i] \in Queued
    BY DEF InputType
  <2> QED  BY <2>1 DEF Queued, InputType
<1>1. CASE PushStep
  <2>1. UNCHANGED <<delivered, bufferTick, frameTick, simTick>>
    BY <1>1 DEF PushStep
  <2>2. CASE queue' = queue
    BY <2>1, <2>2 DEF StampInv
  <2>3. CASE queue' # queue
    <3>1. \A k \in DOMAIN queue' :
            (k \in DOMAIN queue /\ queue'[k] = queue[k]) \/ queue'[k].tick = bufferTick
      BY <1>1, <2>3, PushElements
    <3> QED  BY <2>1, <3>1 DEF StampInv
  <2> QED  BY <2>2, <2>3
<1>2. CASE HandStep
  <2>1. \A k \in DOMAIN delivered' :
          \/ k \in DOMAIN delivered /\ delivered'[k] = delivered[k]
          \/ /\ k - Len(delivered) \in DOMAIN queue
             /\ delivered'[k].stamp = queue[k - Len(delivered)].tick
             /\ delivered'[k].at = simTick
    BY <1>2, DeliveryElements
  <2>2. \A k \in DOMAIN delivered' : delivered'[k].stamp <= delivered'[k].at
    BY <2>1 DEF StampInv
  <2> QED  BY <1>2, <2>2 DEF HandStep, StampInv
<1>3. CASE ClearStep
  BY <1>3 DEF ClearStep, StampInv
<1>4. CASE TickStep
  BY <1>0, <1>4 DEF TickStep, StampInv
<1> QED  BY <1>1, <1>2, <1>3, <1>4, InputKinds

\* Every command a player has given is delivered once and in order, unless it
\* was cleared, whatever the frame and the simulation do to the buffer between
\* prepare_for_tick and drain_commands.
THEOREM CommandsDeliveredOnce == BridgeSpec => []DeliveredOnce
<1> DEFINE Inv == InputType /\ InputOrder /\ StampInv
<1>1. BridgeInit => Inv
  BY DEF BridgeInit, InputInit, InputType, InputOrder, StampInv, Increasing, Kept
<1>2. Inv /\ [BridgeNext]_bridgeVars => Inv'
  BY NextInputType, NextInputOrder, NextStampInv
<1>3. ASSUME Inv PROVE DeliveredOnce
  <2> DEFINE ds == [i \in DOMAIN delivered |-> delivered[i].id]
             qs == [i \in DOMAIN queue |-> queue[i].id]
             ids == ds \o qs
  <2>0. /\ \A i \in DOMAIN queue : queue[i].id \in Nat
        /\ \A i \in DOMAIN delivered : delivered[i].id \in Nat
    <3>1. /\ \A i \in DOMAIN queue : queue[i] \in Queued
          /\ \A i \in DOMAIN delivered : delivered[i] \in Handed
      BY <1>3 DEF InputType
    <3> QED  BY <3>1 DEF Queued, Handed
  <2>1. /\ DOMAIN delivered = 1 .. Len(delivered) /\ Len(delivered) \in Nat
        /\ DOMAIN queue = 1 .. Len(queue) /\ Len(queue) \in Nat
    BY <1>3 DEF InputType
  <2>2. /\ ds \in Seq(Nat) /\ DOMAIN ds = DOMAIN delivered /\ Len(ds) = Len(delivered)
        /\ qs \in Seq(Nat) /\ DOMAIN qs = DOMAIN queue
    BY <2>0, <2>1
  <2>3. /\ \A i \in DOMAIN delivered : ds[i] = delivered[i].id
        /\ \A i \in DOMAIN queue : qs[i] = queue[i].id
    OBVIOUS
  <2> HIDE DEF ds, qs
  <2>4. /\ \A k \in DOMAIN ids :
             \/ k \in DOMAIN ds /\ ids[k] = ds[k]
             \/ k - Len(ds) \in DOMAIN qs /\ k \notin DOMAIN ds /\ ids[k] = qs[k - Len(ds)]
        /\ \A k \in DOMAIN ds : k \in DOMAIN ids /\ ids[k] = ds[k]
        /\ \A k \in DOMAIN qs : k + Len(ds) \in DOMAIN ids /\ ids[k + Len(ds)] = qs[k]
        /\ \A k \in DOMAIN ids : k \in Nat
    BY <2>2
  <2> HIDE DEF ids
  <2>5. {ids[i] : i \in DOMAIN ids} = (1 .. pushed) \ cleared
    <3>1. ASSUME NEW i \in DOMAIN ids PROVE ids[i] \in (1 .. pushed) \ cleared
      <4>1. CASE i \in DOMAIN ds /\ ids[i] = ds[i]
        BY <1>3, <2>2, <2>3, <4>1 DEF InputOrder, Kept
      <4>2. CASE i - Len(ds) \in DOMAIN qs /\ ids[i] = qs[i - Len(ds)]
        <5> DEFINE k == i - Len(ds)
        <5>1. k \in DOMAIN queue /\ ids[i] = queue[k].id
          BY <2>2, <2>3, <4>2
        <5> HIDE DEF k
        <5> QED  BY <1>3, <5>1 DEF InputOrder, Kept
      <4> QED  BY <2>4, <4>1, <4>2
    <3>2. ASSUME NEW c \in (1 .. pushed) \ cleared PROVE \E i \in DOMAIN ids : ids[i] = c
      <4>1. CASE Has(delivered, c)
        BY <2>2, <2>3, <2>4, <4>1 DEF Has
      <4>2. CASE Has(queue, c)
        <5>1. PICK i \in DOMAIN queue : queue[i].id = c
          BY <4>2 DEF Has
        <5> QED  BY <2>2, <2>3, <2>4, <5>1
      <4> QED  BY <1>3, <4>1, <4>2 DEF InputOrder
    <3> QED  BY <3>1, <3>2
  <2>6. ASSUME NEW i \in DOMAIN ids, NEW j \in DOMAIN ids, i < j PROVE ids[i] < ids[j]
    <3>1. CASE j \in DOMAIN ds
      <4>1. i \in DOMAIN ds
        BY <2>1, <2>2, <2>4, <2>6, <3>1
      <4> QED  BY <1>3, <2>2, <2>3, <2>4, <2>6, <3>1, <4>1 DEF InputOrder, Increasing
    <3>2. CASE j \notin DOMAIN ds /\ i \in DOMAIN ds
      <4>1. ids[i] = delivered[i].id /\ i \in DOMAIN delivered
        BY <2>2, <2>3, <2>4, <3>2
      <4>2. PICK k \in DOMAIN queue : ids[j] = queue[k].id
        BY <2>2, <2>3, <2>4, <3>2
      <4> QED  BY <1>3, <4>1, <4>2 DEF InputOrder
    <3>3. CASE j \notin DOMAIN ds /\ i \notin DOMAIN ds
      <4>1. i - Len(ds) \in DOMAIN qs /\ j - Len(ds) \in DOMAIN qs /\ i - Len(ds) < j - Len(ds)
        BY <2>1, <2>2, <2>4, <2>6, <3>3
      <4>2. ids[i] = queue[i - Len(ds)].id /\ ids[j] = queue[j - Len(ds)].id
        BY <2>2, <2>3, <2>4, <3>3
      <4> QED  BY <1>3, <2>2, <4>1, <4>2 DEF InputOrder, Increasing
    <3> QED  BY <3>1, <3>2, <3>3
  <2> QED  BY <1>3, <2>5, <2>6 DEF DeliveredOnce, StampInv, ids, ds, qs
<1> QED  BY <1>1, <1>2, <1>3, PTL DEF BridgeSpec

-----------------------------------------------------------------------------
(* The view and the dirty set                                              *)

\* The steps that leave the ticks and the view alone.
Calm == /\ UNCHANGED <<scenario, simTick, latest, generation, viewVars>>
        /\ simPc' \in Phases /\ (simPc' = "published" <=> simPc = "published")
        /\ (simPc' = "refreshed" <=> simPc = "refreshed")
        /\ (Between' <=> Between)

LEMMA ViewKinds ==
  ASSUME simPc \in Phases, [BridgeNext]_bridgeVars
  PROVE  \/ Calm \/ SimPublish \/ AdvanceTick \/ BroadcastFails \/ Callback \/ CallbackEnds
         \/ OnRefreshSignal \/ TakeSnapshot \/ ReadGeneration \/ RefreshView \/ ClearSignal
<1> USE DEF bridgeVars, inputVars, simVars, viewVars, syncVars, entityVars, notInput, notFrame,
            notSync, notEntity, Calm, Phases, Between
<1>1. SimPrepare \/ SimDrain \/ SimLegacyDrain => Calm
  BY DEF SimPrepare, SimDrain, SimLegacyDrain
<1>2. ASSUME NEW source \in Source, FramePush(source) PROVE Calm
  BY <1>2 DEF FramePush
<1>3. FrameClear \/ FrameReadTick \/ FrameSetTick => Calm
  BY DEF FrameClear, FrameReadTick, FrameSetTick
<1>4. SyncStep => Calm
  BY DEF SyncStep, RegisterEntity, UnregisterEntity, MarkDirty, MarkAllDirty, MarkAll,
         ClearDirty, Unmark, SyncAll, SyncLoad, SyncSkip, SyncRead, SyncDone
<1>5. ASSUME NEW s \in Systems, SystemStep(s) PROVE Calm
  BY <1>5 DEF SystemStep, Materialize, ReadRows, LookUp, Spawn, Drop, DematerializeAll,
     MaterializeEntity, DematerializeEntity, Dematerialize
<1>6. UNCHANGED bridgeVars => Calm
  OBVIOUS
<1> QED  BY <1>1, <1>2, <1>3, <1>4, <1>5, <1>6 DEF BridgeNext, SimStep, FrameStep

\* No step of the simulation or the frame breaks the view's invariant, and none
\* takes the view back while there is one refresher.
LEMMA NextViewInv ==
  ASSUME ViewInv, [BridgeNext]_bridgeVars
  PROVE  ViewInv' /\ (scenario.refresh \in {"callback", "frame"} => view'.tick >= view.tick)
<1> USE DEF viewVars, notBroadcast, notRefresh, simVars
<1>1. CASE Calm
  BY <1>1 DEF Calm, ViewInv
<1>2. CASE SimPublish
  BY <1>2 DEF SimPublish, ViewInv, Between, Phases
<1>3. CASE AdvanceTick
  BY <1>3 DEF AdvanceTick, ViewInv, Between, Phases
<1>4. CASE BroadcastFails
  BY <1>4 DEF BroadcastFails, ViewInv, Between, Phases
<1>5. CASE Callback
  <2>1. view' = [tick |-> latest, generation |-> generation]
    BY <1>5 DEF Callback
  <2>2. /\ view' \in [tick : Nat, generation : Nat] /\ view'.tick = latest
        /\ view'.generation = generation
    BY <2>1 DEF ViewInv
  <2>3. /\ UNCHANGED <<scenario, simTick, latest, generation, refresh, tickOk>>
        /\ simPc = "advanced" /\ simPc' = "refreshed" /\ scenario.refresh # "frame"
    BY <1>5 DEF Callback
  <2> QED  BY <2>2, <2>3 DEF ViewInv, Between, Phases
<1>6. CASE CallbackEnds
  BY <1>6 DEF CallbackEnds, ViewInv, Between, Phases
<1>7. CASE OnRefreshSignal
  BY <1>7 DEF OnRefreshSignal, ViewInv, Between, Phases
<1>8. CASE TakeSnapshot
  <2>1. refresh' = [at |-> "taken", tick |-> latest, generation |-> 0]
    BY <1>8 DEF TakeSnapshot
  <2>2. refresh'.tick = latest /\ refresh'.at = "taken" /\ latest \in Nat
        /\ refresh' \in [at : {"none", "taken", "counted", "installed"}, tick : Nat,
                        generation : Nat]
    BY <2>1 DEF ViewInv
  <2>3. /\ UNCHANGED <<scenario, simTick, simPc, latest, generation, view, tickOk>>
        /\ scenario.refresh # "callback"
    BY <1>8 DEF TakeSnapshot
  <2> QED  BY <2>2, <2>3 DEF ViewInv, Between
<1>9. CASE ReadGeneration
  <2>1. refresh' = [refresh EXCEPT !.at = "counted", !.generation = view.generation + 1]
    BY <1>9 DEF ReadGeneration
  <2>2. refresh' = [at |-> "counted", tick |-> refresh.tick, generation |-> view.generation + 1]
    BY <2>1 DEF ViewInv
  <2>3. refresh.tick \in Nat /\ view.generation + 1 \in Nat
    BY DEF ViewInv
  <2>4. refresh'.tick = refresh.tick /\ refresh'.at = "counted"
        /\ refresh' \in [at : {"none", "taken", "counted", "installed"}, tick : Nat,
                        generation : Nat]
    BY <2>2, <2>3
  <2>5. /\ UNCHANGED <<scenario, simTick, simPc, latest, generation, view, tickOk>>
        /\ refresh.at = "taken"
    BY <1>9 DEF ReadGeneration
  <2> QED  BY <2>4, <2>5 DEF ViewInv, Between
<1>10. CASE RefreshView
  <2>1. /\ refresh' = [refresh EXCEPT !.at = "installed"]
        /\ view' = [tick |-> refresh.tick, generation |-> refresh.generation]
    BY <1>10 DEF RefreshView
  <2>2. refresh'.tick = refresh.tick /\ refresh'.at = "installed"
        /\ refresh' \in [at : {"none", "taken", "counted", "installed"}, tick : Nat,
                        generation : Nat]
    BY <2>1 DEF ViewInv
  <2>3. view' \in [tick : Nat, generation : Nat] /\ view'.tick = refresh.tick
    BY <2>1 DEF ViewInv
  <2>4. /\ UNCHANGED <<scenario, simTick, simPc, latest, generation, tickOk>>
        /\ refresh.at = "counted"
    BY <1>10 DEF RefreshView
  <2> QED  BY <2>2, <2>3, <2>4 DEF ViewInv, Between
<1>11. CASE ClearSignal
  <2>1. /\ refresh'.tick = 0 /\ refresh'.at = "none"
        /\ refresh' \in [at : {"none", "taken", "counted", "installed"}, tick : Nat,
                        generation : Nat]
    BY <1>11 DEF ClearSignal, NoRefresh
  <2>2. UNCHANGED <<scenario, simTick, simPc, latest, generation, view, tickOk>>
    BY <1>11 DEF ClearSignal
  <2>3. latest \in Nat /\ view.tick \in Nat
    BY DEF ViewInv
  <2> QED  BY <2>1, <2>2, <2>3 DEF ViewInv, Between
<1> QED
  <2>1. simPc \in Phases
    BY DEF ViewInv
  <2> QED  BY <1>1, <1>2, <1>3, <1>4, <1>5, <1>6, <1>7, <1>8, <1>9, <1>10, <1>11, <2>1, ViewKinds

LEMMA InitViewInv == BridgeInit => ViewInv
  BY DEF BridgeInit, ViewInv, NoRefresh, Between, Phases

\* Where the handler's callback refreshes the view, a tick() that returned Ok leaves
\* the frame with the last commit, snapshot and generation, and no error of another
\* consumer ever pairs the snapshot of one commit with the generation of another.
THEOREM ViewsFollowCommits == BridgeSpec => []ViewFollowsCommit
<1>1. ViewInv /\ [BridgeNext]_bridgeVars => ViewInv'
  BY NextViewInv
<1>2. ASSUME ViewInv PROVE ViewFollowsCommit
  <2>1. view = [tick |-> view.tick, generation |-> view.generation]
    BY <1>2 DEF ViewInv
  <2> QED  BY <1>2, <2>1 DEF ViewInv, ViewFollowsCommit
<1> QED  BY <1>1, <1>2, InitViewInv, PTL DEF BridgeSpec

\* Whatever the simulation does between the frame's snapshot and its installation,
\* a single refresher never takes the view back to an earlier tick.
THEOREM ViewsNeverGoBack == BridgeSpec => ViewNeverOlder
<1>1. ViewInv /\ [BridgeNext]_bridgeVars => ViewInv'
  BY NextViewInv
<1>2. ViewInv /\ [BridgeNext]_bridgeVars =>
        [scenario.refresh \in {"callback", "frame"} => view'.tick >= view.tick]_bridgeVars
  BY NextViewInv
<1> QED  BY <1>1, <1>2, InitViewInv, PTL DEF BridgeSpec, ViewNeverOlder

\* A step of sync_all that ends with an entity keeps the account of the marks.
LEMMA DoneKeepsMarks ==
  ASSUME SyncInv, NEW e \in syncing, NEW errors, SyncDone(e, errors),
         \/ errors = failed /\ marked' = marked \ {e}
         \/ errors = failed \cup {e} /\ marked' = marked /\ e \in marked
  PROVE  SyncInv'
<1>1. CASE syncing = {e}
  BY <1>1 DEF SyncDone, SyncInv
<1>2. CASE syncing # {e}
  BY <1>2 DEF SyncDone, SyncInv
<1> QED  BY <1>1, <1>2

\* Every mark stays where the account says.
LEMMA NextSyncInv ==
  ASSUME SyncInv, [BridgeNext]_bridgeVars
  PROVE  SyncInv'
<1> USE DEF bridgeVars, inputVars, simVars, viewVars, syncVars, entityVars, notInput, notFrame,
            notSync, notEntity, notBroadcast, notRefresh
<1>0. ASSUME UNCHANGED syncVars PROVE SyncInv'
  BY <1>0 DEF SyncInv
<1>1. SimStep => UNCHANGED syncVars
  BY DEF SimStep, SimPrepare, SimDrain, SimLegacyDrain, SimPublish, AdvanceTick,
         BroadcastFails, Callback, CallbackEnds, OnRefreshSignal
<1>2. FrameStep => UNCHANGED syncVars
  BY DEF FrameStep, FramePush, FrameClear, FrameReadTick, FrameSetTick, TakeSnapshot,
         ReadGeneration, RefreshView, ClearSignal
<1>3. ASSUME NEW s \in Systems, SystemStep(s) PROVE UNCHANGED syncVars
  BY <1>3 DEF SystemStep, Materialize, ReadRows, LookUp, Spawn, Drop, DematerializeAll,
     MaterializeEntity, DematerializeEntity, Dematerialize
<1>4. ASSUME NEW e \in Watched, RegisterEntity(e) \/ UnregisterEntity(e) PROVE SyncInv'
  BY <1>4 DEF RegisterEntity, UnregisterEntity, Unmark, Unlocked, SyncInv
<1>5. ASSUME NEW entities, MarkAll(entities) PROVE SyncInv'
  BY <1>5 DEF MarkAll, Unlocked, SyncInv
<1>6. ClearDirty \/ SyncAll => SyncInv'
  BY DEF ClearDirty, Unmark, SyncAll, Unlocked, SyncInv
<1>7. ASSUME NEW e \in Watched, SyncLoad(e) PROVE SyncInv'
  BY <1>7 DEF SyncLoad, SyncInv
<1>8. ASSUME NEW e \in Watched, SyncSkip(e) PROVE SyncInv'
  BY <1>8, DoneKeepsMarks DEF SyncSkip
<1>9. ASSUME NEW e \in Watched, SyncRead(e) PROVE SyncInv'
  <2>1. e \in syncing /\ e \in marked
    BY <1>9 DEF SyncRead, SyncInv
  <2>2. \/ SyncDone(e, failed) /\ marked' = marked \ {e}
        \/ SyncDone(e, failed \cup {e}) /\ marked' = marked
    BY <1>9 DEF SyncRead
  <2> QED  BY <2>1, <2>2, DoneKeepsMarks
<1>10. CASE SyncStep
  BY <1>4, <1>5, <1>6, <1>7, <1>8, <1>9, <1>10 DEF SyncStep, MarkDirty, MarkAllDirty
<1> QED  BY <1>0, <1>1, <1>2, <1>3, <1>10 DEF BridgeNext

\* A mark is only dropped unread by a sync_all that returns an error, whatever the
\* view and the published tick do while it runs.
THEOREM MarksAreKept == BridgeSpec => []MarksNotLost
<1>1. BridgeInit => SyncInv
  BY DEF BridgeInit, SyncInv
<1>2. SyncInv /\ [BridgeNext]_bridgeVars => SyncInv'
  BY NextSyncInv
<1>3. SyncInv => MarksNotLost
  BY DEF SyncInv, MarksNotLost, Unlocked
<1> QED  BY <1>1, <1>2, <1>3, PTL DEF BridgeSpec

-----------------------------------------------------------------------------
(* The registry and the entities                                           *)

\* What a system starts with, or goes on with, is its job; the others keep
\* theirs.
LEMMA JobChange ==
  ASSUME JobInv, NEW s \in Systems, NEW work, job' = [job EXCEPT ![s] = work]
  PROVE  /\ DOMAIN job' = Systems /\ job'[s] = work
         /\ \A o \in Systems \ {s} : job'[o] = job[o]
  BY DEF JobInv

\* A job keeps its fields from step to step.
LEMMA NextJobInv ==
  ASSUME JobInv, [BridgeNext]_bridgeVars
  PROVE  JobInv'
<1> USE DEF bridgeVars, inputVars, simVars, viewVars, syncVars, entityVars, notInput, notFrame,
            notSync, notEntity, notBroadcast, notRefresh
<1>0. ASSUME job' = job PROVE JobInv'
  BY <1>0 DEF JobInv
<1>1. SimStep => job' = job
  BY DEF SimStep, SimPrepare, SimDrain, SimLegacyDrain, SimPublish, AdvanceTick,
         BroadcastFails, Callback, CallbackEnds, OnRefreshSignal
<1>2. FrameStep => job' = job
  BY DEF FrameStep, FramePush, FrameClear, FrameReadTick, FrameSetTick, TakeSnapshot,
         ReadGeneration, RefreshView, ClearSignal
<1>3. SyncStep => job' = job
  BY DEF SyncStep, RegisterEntity, UnregisterEntity, MarkDirty, MarkAllDirty, MarkAll,
         ClearDirty, Unmark, SyncAll, SyncLoad, SyncSkip, SyncRead, SyncDone
<1>4. ASSUME NEW s \in Systems, NEW work, job' = [job EXCEPT ![s] = work],
             "at" \in DOMAIN work, work.at \in {"look", "spawn"} => "todo" \in DOMAIN work
      PROVE  JobInv'
  BY <1>4, JobChange DEF JobInv
<1>5. ASSUME NEW s \in Systems, SystemStep(s) PROVE JobInv'
  <2>1. CASE Materialize(s)
    <3> DEFINE w == [at |-> "read", config |-> 1, tick |-> latest]
    <3>1. "at" \in DOMAIN w /\ w.at = "read" /\ job' = [job EXCEPT ![s] = w]
      BY <2>1 DEF Materialize, Start
    <3> QED  BY <1>4, <3>1
  <2>2. CASE ReadRows(s)
    <3> DEFINE v == [at |-> "look", config |-> job[s].config, spawned |-> 0,
                     max |-> Configs[job[s].config].max, todo |-> FilteredRows(job[s].config)]
               w == IF job[s].tick # latest THEN Idle ELSE v
    <3>1. job' = [job EXCEPT ![s] = w]
      BY <2>2 DEF ReadRows, Becomes
    <3>2. "at" \in DOMAIN w /\ (w.at \in {"look", "spawn"} => "todo" \in DOMAIN w)
      BY DEF Idle
    <3> QED  BY <1>4, <3>1, <3>2
  <2>3. CASE LookUp(s)
    <3>1. "at" \in DOMAIN job[s] /\ "todo" \in DOMAIN job[s]
      BY <2>3 DEF LookUp, JobInv
    <3>2. "at" \in DOMAIN NextConfig(s) /\ NextConfig(s).at \notin {"look", "spawn"}
      BY DEF NextConfig, Idle
    <3> DEFINE w == IF job[s].todo = <<>> \/ job[s].spawned >= job[s].max THEN NextConfig(s)
                    ELSE IF Head(job[s].todo) \in DOMAIN registry
                           THEN [job[s] EXCEPT !.todo = Tail(@)]
                    ELSE [job[s] EXCEPT !.at = "spawn"]
    <3>3. "at" \in DOMAIN w /\ (w.at \in {"look", "spawn"} => "todo" \in DOMAIN w)
      BY <3>1, <3>2
    <3>4. job' = [job EXCEPT ![s] = w]
      BY <2>3 DEF LookUp, Becomes
    <3> QED  BY <1>4, <3>3, <3>4
  <2>4. CASE Spawn(s)
    <3>1. "at" \in DOMAIN job[s] /\ "todo" \in DOMAIN job[s]
      BY <2>4 DEF Spawn, JobInv
    <3> DEFINE w == [job[s] EXCEPT !.at = "look", !.todo = Tail(@), !.spawned = @ + 1]
    <3>2. "at" \in DOMAIN w /\ "todo" \in DOMAIN w
      BY <3>1
    <3>3. job' = [job EXCEPT ![s] = w]
      BY <2>4 DEF Spawn, Becomes
    <3> HIDE DEF w
    <3> QED  BY <1>4, <3>2, <3>3
  <2>5. CASE Drop(s)
    <3>1. "at" \in DOMAIN Idle /\ Idle.at = "idle" /\ job' = [job EXCEPT ![s] = Idle]
      BY <2>5 DEF Drop, Becomes, Idle
    <3> QED  BY <1>4, <3>1
  <2>6. CASE DematerializeAll(s)
    BY <1>0, <2>6 DEF DematerializeAll
  <2>7. ASSUME NEW row \in Row, MaterializeEntity(s, row) PROVE JobInv'
    <3> DEFINE w == [at |-> "look", config |-> Len(Configs), spawned |-> 0, max |-> 1,
                     todo |-> <<row>>]
    <3>1. "at" \in DOMAIN w /\ "todo" \in DOMAIN w /\ job' = [job EXCEPT ![s] = w]
      BY <2>7 DEF MaterializeEntity, Start
    <3> QED  BY <1>4, <3>1
  <2>8. ASSUME NEW row \in Row, DematerializeEntity(s, row) PROVE JobInv'
    BY <1>0, <2>8 DEF DematerializeEntity
  <2>9. ASSUME NEW e \in DOMAIN alive, Dematerialize(s, e) PROVE JobInv'
    <3>1. PICK row \in DOMAIN registry : Start(s, [at |-> "drop", row |-> row, entity |-> e])
      BY <2>9 DEF Dematerialize
    <3> DEFINE w == [at |-> "drop", row |-> row, entity |-> e]
    <3>2. "at" \in DOMAIN w /\ w.at = "drop" /\ job' = [job EXCEPT ![s] = w]
      BY <3>1 DEF Start
    <3> QED  BY <1>4, <3>2
  <2> QED  BY <1>5, <2>1, <2>2, <2>3, <2>4, <2>5, <2>6, <2>7, <2>8, <2>9 DEF SystemStep
<1> QED  BY <1>0, <1>1, <1>2, <1>3, <1>5 DEF BridgeNext

\* A system that moves on without touching the registry, and whose new job is
\* neither a spawn of a taken row nor a drop of a foreign entity.
LEMMA JobMoves ==
  ASSUME JobInv, EntityInv, UNCHANGED <<registry, alive, born>>,
         NEW s \in Systems, NEW work, job' = [job EXCEPT ![s] = work],
         ~overlap' => ~overlap /\ (job[s] # Idle \/ \A o \in Systems \ {s} : job[o] = Idle),
         work.at = "spawn" => Head(work.todo) \notin DOMAIN registry,
         work.at = "drop" => /\ work.row \in DOMAIN registry
                             /\ registry[work.row] = work.entity
  PROVE  EntityInv'
<1>1. /\ job'[s] = work /\ \A o \in Systems \ {s} : job'[o] = job[o]
  BY JobChange
<1>2. \A o \in Systems :
        job'[o].at = "drop" =>
          /\ job'[o].entity \in 1 .. born
          /\ job'[o].entity \in DOMAIN alive => alive[job'[o].entity] = job'[o].row
  BY <1>1 DEF EntityInv
<1>3. ASSUME ~overlap' PROVE MutualInv'
  <2>1. MutualInv
    BY <1>3 DEF EntityInv
  <2>2. \A o \in Systems \ {s} : job[o] = Idle
    BY <1>3, <2>1 DEF MutualInv
  <2>3. \A p, o \in Systems : job'[p] # Idle /\ job'[o] # Idle => p = o
    BY <1>1, <2>2
  <2>4. \A o \in Systems :
          /\ job'[o].at = "spawn" => Head(job'[o].todo) \notin DOMAIN registry
          /\ job'[o].at = "drop" /\ job'[o].row \in DOMAIN registry =>
               registry[job'[o].row] = job'[o].entity
    BY <1>1, <2>1 DEF MutualInv
  <2> QED  BY <2>1, <2>3, <2>4 DEF MutualInv
<1> QED  BY <1>2, <1>3 DEF EntityInv

\* Entities are taken away, with the rows that are registered for them.
LEMMA EntitiesGo ==
  ASSUME JobInv, EntityInv, NEW gone, NEW left,
         DOMAIN registry' = left, left \subseteq DOMAIN registry,
         \A row \in left : registry'[row] = registry[row] /\ registry[row] \notin gone,
         alive' = Despawned(gone), born' = born, overlap' = overlap,
         \A s \in Systems : job'[s] = job[s] \/ job'[s] = Idle,
         ~overlap => \A row \in DOMAIN registry \ left : registry[row] \in gone
  PROVE  EntityInv'
<1>1. DOMAIN alive' = DOMAIN alive \ gone /\ \A e \in DOMAIN alive' : alive'[e] = alive[e]
  BY DEF Despawned
<1>2. \A s \in Systems : job'[s].at \in {"drop", "spawn"} => job'[s] = job[s]
  BY DEF Idle
<1>3. \A row \in DOMAIN registry' : /\ registry'[row] \in DOMAIN alive'
                                   /\ alive'[registry'[row]] = row
  BY <1>1 DEF EntityInv
<1>4. \A s \in Systems :
        job'[s].at = "drop" =>
          /\ job'[s].entity \in 1 .. born
          /\ job'[s].entity \in DOMAIN alive' => alive'[job'[s].entity] = job'[s].row
  BY <1>1, <1>2 DEF EntityInv
<1>5. ASSUME ~overlap PROVE MutualInv'
  <2>1. MutualInv
    BY <1>5 DEF EntityInv
  <2>2. \A e \in DOMAIN alive' : alive'[e] \in DOMAIN registry' /\ registry'[alive'[e]] = e
    BY <1>1, <1>5, <2>1 DEF MutualInv
  <2>3. \A p, o \in Systems : job'[p] # Idle /\ job'[o] # Idle => p = o
    BY <2>1 DEF MutualInv
  <2>4. \A s \in Systems :
          /\ job'[s].at = "spawn" => Head(job'[s].todo) \notin DOMAIN registry'
          /\ job'[s].at = "drop" /\ job'[s].row \in DOMAIN registry' =>
               registry'[job'[s].row] = job'[s].entity
    BY <1>2, <2>1 DEF MutualInv
  <2> QED  BY <2>2, <2>3, <2>4 DEF MutualInv
<1> QED  BY <1>1, <1>3, <1>4, <1>5 DEF EntityInv

\* The registry and the entities stay matched, whichever systems work at once.
LEMMA NextEntityInv ==
  ASSUME JobInv, EntityInv, [BridgeNext]_bridgeVars
  PROVE  EntityInv'
<1> USE DEF bridgeVars, inputVars, simVars, viewVars, syncVars, entityVars, notInput, notFrame,
            notSync, notEntity, notBroadcast, notRefresh
<1>0. ASSUME UNCHANGED entityVars PROVE EntityInv'
  BY <1>0 DEF EntityInv, MutualInv
<1>1. SimStep => UNCHANGED entityVars
  BY DEF SimStep, SimPrepare, SimDrain, SimLegacyDrain, SimPublish, AdvanceTick,
         BroadcastFails, Callback, CallbackEnds, OnRefreshSignal
<1>2. FrameStep => UNCHANGED entityVars
  BY DEF FrameStep, FramePush, FrameClear, FrameReadTick, FrameSetTick, TakeSnapshot,
         ReadGeneration, RefreshView, ClearSignal
<1>3. SyncStep => UNCHANGED entityVars
  BY DEF SyncStep, RegisterEntity, UnregisterEntity, MarkDirty, MarkAllDirty, MarkAll,
         ClearDirty, Unmark, SyncAll, SyncLoad, SyncSkip, SyncRead, SyncDone
<1>4. ASSUME NEW s \in Systems, SystemStep(s) PROVE EntityInv'
  <2>0. Idle.at = "idle"
    BY DEF Idle
  <2>1. CASE Materialize(s)
    <3> DEFINE w == [at |-> "read", config |-> 1, tick |-> latest]
    <3>1. w.at = "read" /\ job' = [job EXCEPT ![s] = w] /\ UNCHANGED <<registry, alive, born>>
          /\ (~overlap' => ~overlap /\ \A o \in Systems \ {s} : job[o] = Idle)
      BY <2>1 DEF Materialize, Start
    <3> QED  BY <3>1, JobMoves
  <2>2. CASE ReadRows(s)
    <3> DEFINE v == [at |-> "look", config |-> job[s].config, spawned |-> 0,
                     max |-> Configs[job[s].config].max, todo |-> FilteredRows(job[s].config)]
               w == IF job[s].tick # latest THEN Idle ELSE v
    <3>1. job' = [job EXCEPT ![s] = w] /\ UNCHANGED <<registry, alive, born, overlap>>
          /\ job[s] # Idle
      BY <2>0, <2>2 DEF ReadRows, Becomes
    <3>2. w.at \in {"idle", "look"}
      BY <2>0
    <3> HIDE DEF w
    <3> QED  BY <3>1, <3>2, JobMoves
  <2>3. CASE LookUp(s)
    <3> DEFINE w == IF job[s].todo = <<>> \/ job[s].spawned >= job[s].max THEN NextConfig(s)
                    ELSE IF Head(job[s].todo) \in DOMAIN registry
                           THEN [job[s] EXCEPT !.todo = Tail(@)]
                    ELSE [job[s] EXCEPT !.at = "spawn"]
    <3>1. job' = [job EXCEPT ![s] = w] /\ UNCHANGED <<registry, alive, born, overlap>>
          /\ job[s] # Idle /\ job[s].at = "look"
      BY <2>0, <2>3 DEF LookUp, Becomes
    <3>2. "at" \in DOMAIN job[s] /\ "todo" \in DOMAIN job[s]
      BY <3>1 DEF JobInv
    <3>3. NextConfig(s).at \in {"idle", "read"}
      BY DEF NextConfig, Idle
    <3>4. w.at # "drop" /\ (w.at = "spawn" => Head(w.todo) \notin DOMAIN registry)
      BY <3>1, <3>2, <3>3
    <3> HIDE DEF w
    <3> QED  BY <3>1, <3>4, JobMoves
  <2>4. CASE Spawn(s)
    <3> DEFINE row == Head(job[s].todo)
               w == [job[s] EXCEPT !.at = "look", !.todo = Tail(@), !.spawned = @ + 1]
    <3>1. /\ job[s].at = "spawn" /\ born' = born + 1 /\ overlap' = overlap
          /\ registry' = With(registry, row, born + 1) /\ alive' = With(alive, born + 1, row)
          /\ job' = [job EXCEPT ![s] = w]
      BY <2>4 DEF Spawn, Becomes
    <3>2. "at" \in DOMAIN job[s]
      BY DEF JobInv
    <3>3. w.at = "look"
      BY <3>2
    <3> HIDE DEF w, row
    <3>4. job'[s] = w /\ \A o \in Systems \ {s} : job'[o] = job[o]
      BY <3>1, JobChange
    <3>5. /\ DOMAIN registry' = DOMAIN registry \cup {row} /\ registry'[row] = born + 1
          /\ \A r \in DOMAIN registry \ {row} : registry'[r] = registry[r]
          /\ DOMAIN alive' = DOMAIN alive \cup {born + 1} /\ alive'[born + 1] = row
          /\ \A e \in DOMAIN alive \ {born + 1} : alive'[e] = alive[e]
      BY <3>1 DEF With
    <3>6. /\ born \in Nat /\ born + 1 \notin 1 .. born /\ 1 .. born \subseteq 1 .. born'
          /\ born + 1 \in 1 .. born' /\ DOMAIN alive \subseteq 1 .. born
      BY <3>1 DEF EntityInv
    <3>7. \A r \in DOMAIN registry' : registry'[r] \in DOMAIN alive' /\ alive'[registry'[r]] = r
      BY <3>5, <3>6 DEF EntityInv
    <3>8. \A o \in Systems :
            job'[o].at = "drop" =>
              /\ job'[o].entity \in 1 .. born'
              /\ job'[o].entity \in DOMAIN alive' => alive'[job'[o].entity] = job'[o].row
      BY <3>3, <3>4, <3>5, <3>6 DEF EntityInv
    <3>9. ASSUME ~overlap PROVE MutualInv'
      <4>1. MutualInv /\ row \notin DOMAIN registry
        BY <3>1, <3>9 DEF EntityInv, MutualInv, row
      <4>2. \A o \in Systems \ {s} : job[o] = Idle
        BY <2>0, <3>1, <4>1 DEF MutualInv
      <4>3. \A e \in DOMAIN alive' : alive'[e] \in DOMAIN registry' /\ registry'[alive'[e]] = e
        BY <3>5, <3>6, <4>1 DEF MutualInv
      <4>4. \A o \in Systems : job'[o].at \notin {"spawn", "drop"}
        BY <2>0, <3>3, <3>4, <4>2
      <4>5. \A p, o \in Systems : job'[p] # Idle /\ job'[o] # Idle => p = o
        BY <3>4, <4>2
      <4> QED  BY <4>3, <4>4, <4>5 DEF MutualInv
    <3>10. born' \in Nat /\ DOMAIN alive' \subseteq 1 .. born'
      BY <3>1, <3>5, <3>6
    <3> QED  BY <3>1, <3>7, <3>8, <3>9, <3>10 DEF EntityInv
  <2>5. CASE Drop(s)
    <3> DEFINE row == job[s].row
               entity == job[s].entity
    <3>1. /\ job[s].at = "drop" /\ UNCHANGED <<born, overlap>>
          /\ DOMAIN registry' = DOMAIN registry \ {row}
          /\ \A r \in DOMAIN registry' : registry'[r] = registry[r]
          /\ alive' = Despawned({entity}) /\ job' = [job EXCEPT ![s] = Idle]
      BY <2>5 DEF Drop, Becomes, Without
    <3>2. \A o \in Systems : job'[o] = job[o] \/ job'[o] = Idle
      BY <3>1, JobChange
    <3>3. \A r \in DOMAIN registry' : registry[r] \notin {entity}
      BY <3>1 DEF EntityInv
    <3>4. ASSUME ~overlap, NEW r \in DOMAIN registry \ DOMAIN registry'
          PROVE  registry[r] \in {entity}
      BY <3>1, <3>4 DEF EntityInv, MutualInv
    <3> QED  BY <3>1, <3>2, <3>3, <3>4, EntitiesGo
  <2>6. CASE DematerializeAll(s)
    <3> DEFINE gone == {registry[r] : r \in DOMAIN registry}
    <3>1. /\ UNCHANGED <<born, overlap, job>> /\ DOMAIN registry' = {} /\ alive' = Despawned(gone)
      BY <2>6 DEF DematerializeAll, Nothing
    <3> QED  BY <3>1, EntitiesGo
  <2>7. ASSUME NEW row \in Row, MaterializeEntity(s, row) PROVE EntityInv'
    <3> DEFINE w == [at |-> "look", config |-> Len(Configs), spawned |-> 0, max |-> 1,
                     todo |-> <<row>>]
    <3>1. w.at = "look" /\ job' = [job EXCEPT ![s] = w] /\ UNCHANGED <<registry, alive, born>>
          /\ (~overlap' => ~overlap /\ \A o \in Systems \ {s} : job[o] = Idle)
      BY <2>7 DEF MaterializeEntity, Start
    <3> HIDE DEF w
    <3> QED  BY <3>1, JobMoves
  <2>8. ASSUME NEW row \in Row, DematerializeEntity(s, row) PROVE EntityInv'
    <3> DEFINE gone == {registry[row]}
    <3>1. /\ UNCHANGED <<born, overlap, job>> /\ row \in DOMAIN registry
          /\ DOMAIN registry' = DOMAIN registry \ {row}
          /\ \A r \in DOMAIN registry' : registry'[r] = registry[r]
          /\ alive' = Despawned(gone)
      BY <2>8 DEF DematerializeEntity, Without
    <3>2. \A r \in DOMAIN registry' : registry[r] \notin gone
      BY <3>1 DEF EntityInv
    <3>3. \A r \in DOMAIN registry \ DOMAIN registry' : registry[r] \in gone
      BY <3>1
    <3> QED  BY <3>1, <3>2, <3>3, EntitiesGo
  <2>9. ASSUME NEW e \in DOMAIN alive, Dematerialize(s, e) PROVE EntityInv'
    <3>1. PICK row \in DOMAIN registry :
            registry[row] = e /\ Start(s, [at |-> "drop", row |-> row, entity |-> e])
      BY <2>9 DEF Dematerialize
    <3> DEFINE w == [at |-> "drop", row |-> row, entity |-> e]
    <3>2. /\ w.at = "drop" /\ w.row = row /\ w.entity = e /\ job' = [job EXCEPT ![s] = w]
          /\ UNCHANGED <<registry, alive, born>>
          /\ (~overlap' => ~overlap /\ \A o \in Systems \ {s} : job[o] = Idle)
      BY <2>9, <3>1 DEF Dematerialize, Start
    <3> HIDE DEF w
    <3> QED  BY <3>1, <3>2, JobMoves
  <2> QED  BY <1>4, <2>1, <2>2, <2>3, <2>4, <2>5, <2>6, <2>7, <2>8, <2>9 DEF SystemStep
<1> QED  BY <1>0, <1>1, <1>2, <1>3, <1>4 DEF BridgeNext

\* A registered row always has a living entity that is a view of it, and while
\* no two systems were at work at once every entity is registered.
THEOREM EntitiesStayMatched == BridgeSpec => []EntitiesMatchRegistry
<1> DEFINE Inv == JobInv /\ EntityInv
<1>1. ASSUME BridgeInit PROVE Inv
  <2>1. /\ DOMAIN job = Systems /\ \A s \in Systems : job[s] = Idle
        /\ DOMAIN registry = {} /\ DOMAIN alive = {} /\ born = 0
    BY <1>1 DEF BridgeInit, Nothing
  <2>2. "at" \in DOMAIN Idle /\ Idle.at = "idle"
    BY DEF Idle
  <2> QED  BY <2>1, <2>2 DEF JobInv, EntityInv, MutualInv
<1>2. Inv /\ [BridgeNext]_bridgeVars => Inv'
  BY NextJobInv, NextEntityInv
<1>3. Inv => EntitiesMatchRegistry
  BY DEF EntityInv, MutualInv, EntitiesMatchRegistry
<1> QED  BY <1>1, <1>2, <1>3, PTL DEF BridgeSpec
=============================================================================
