---------------------------- MODULE QueryReaders ----------------------------
(***************************************************************************)
(* Threads that read the QueryEngine (scharnhorst_query/src/engine.rs)     *)
(* while Journal::commit runs on another thread.  A read loads latest_tick *)
(* and then takes the view_cache lock: two steps, between which the commit *)
(* can take any of its own.                                                *)
(***************************************************************************)
EXTENDS Journal

CONSTANT Reader

VARIABLES
  rpc,       \* where each reader is in read()
  request,   \* ReadRequest::tick
  seen,      \* the latest_tick it loaded
  response,  \* the views it returned with
  lostTick,  \* history: readers that loaded a tick which was then taken back
  lostViews  \* history: readers that hold views which were then taken back

readerVars == <<rpc, request, seen, response>>
lost == <<lostTick, lostViews>>
allVars == <<vars, readerVars, lost>>

NoResponse == [t \in Table |-> NoView]

ReadInit ==
  /\ Init
  /\ rpc = [r \in Reader |-> "idle"]
  /\ request = [r \in Reader |-> 0]
  /\ seen = [r \in Reader |-> NoTick]
  /\ response = [r \in Reader |-> NoResponse]
  /\ lostTick = {} /\ lostViews = {}

\* read(request) with a tick of the caller's choice; tick zero asks for
\* whatever is cached.
StartRead(r, t) ==
  /\ rpc[r] = "idle"
  /\ request' = [request EXCEPT ![r] = t]
  /\ rpc' = [rpc EXCEPT ![r] = "load"]
  /\ UNCHANGED <<vars, seen, response, lost>>

\* lookup_row: the request is for the latest tick; an error if there is none.
StartLookup(r) ==
  /\ rpc[r] = "idle" /\ latestTick # NoTick
  /\ request' = [request EXCEPT ![r] = latestTick]
  /\ rpc' = [rpc EXCEPT ![r] = "load"]
  /\ UNCHANGED <<vars, seen, response, lost>>

LoadTick(r) ==
  /\ rpc[r] = "load"
  /\ seen' = [seen EXCEPT ![r] = latestTick]
  /\ rpc' = [rpc EXCEPT ![r] = "cache"]
  /\ UNCHANGED <<vars, request, response, lost>>

\* TicksMismatch or TableNotFound.
ReadRefused(r) == \/ request[r] # 0 /\ seen[r] # request[r]
                  \/ \E t \in Table : cache[t] = NoView

Forget(r) == /\ request' = [request EXCEPT ![r] = 0]
             /\ seen' = [seen EXCEPT ![r] = NoTick]
             /\ response' = [response EXCEPT ![r] = NoResponse]
             /\ lostTick' = lostTick \ {r} /\ lostViews' = lostViews \ {r}

ReadCache(r) ==
  /\ rpc[r] = "cache" /\ ~ReadRefused(r)
  /\ response' = [response EXCEPT ![r] = cache]
  /\ rpc' = [rpc EXCEPT ![r] = "done"]
  /\ UNCHANGED <<vars, request, seen, lost>>

ReadFails(r) ==
  /\ rpc[r] = "cache" /\ ReadRefused(r)
  /\ Forget(r)
  /\ rpc' = [rpc EXCEPT ![r] = "idle"]
  /\ UNCHANGED vars

\* The caller drops the response.
DropResponse(r) ==
  /\ rpc[r] = "done"
  /\ Forget(r)
  /\ rpc' = [rpc EXCEPT ![r] = "idle"]
  /\ UNCHANGED vars

\* QueryEngine::clear_cache, from any thread.
ClearCache ==
  /\ cache' = [t \in Table |-> NoView]
  /\ UNCHANGED <<journalVars, saveVars, pc, txnVars, storeVars, registered,
                 latestTick, latestSnapshot, pendingIngest, undo, readerVars, lost>>

\* The rollback of a commit ends with latest_tick: what readers have loaded of
\* its tick and its views is then of no commit.
LoseReads ==
  IF pc = "rollbackTick" /\ pc' # pc
    THEN /\ lostTick' = lostTick \cup {r \in Reader : seen[r] = tick}
         /\ lostViews' = lostViews \cup
              {r \in Reader : \E t \in Table : response[r][t].tick = tick}
    ELSE UNCHANGED lost

ReadNext ==
  \/ Next /\ UNCHANGED readerVars /\ LoseReads
  \/ ClearCache
  \/ \E r \in Reader :
       \/ \E t \in Ticks : StartRead(r, t)
       \/ StartLookup(r)
       \/ LoadTick(r) \/ ReadCache(r) \/ ReadFails(r) \/ DropResponse(r)

ReadSpec == ReadInit /\ [][ReadNext]_allVars

-----------------------------------------------------------------------------
(* Properties of the responses readers hold                                *)

ReadTypeOK ==
  /\ TypeOK
  /\ rpc \in [Reader -> {"idle", "load", "cache", "done"}]
  /\ request \in [Reader -> Ticks]
  /\ seen \in [Reader -> Ticks \cup {NoTick}]
  /\ response \in [Reader -> [Table -> View]]
  /\ lostTick \in SUBSET Reader /\ lostViews \in SUBSET Reader

\* A response never mixes the views of two commits: store_world_snapshot and
\* rollback replace the whole cache under its lock, and a staged ingest stays
\* invisible until then.
UniformResponse ==
  \A r \in Reader : \A t, u \in Table : response[r][t].tick = response[r][u].tick

\* The documented ordering invariant: a reader that loads latest_tick before
\* the cache is not given views older than the committed tick it asked for.  The
\* exception is a reader that loaded the tick between its publication and the
\* rollback of a commit whose append to the save journal failed.
NoStaleRead ==
  \A r \in Reader \ lostTick :
    rpc[r] = "done" /\ request[r] # 0 /\ request[r] < tick =>
      \A t \in Table : response[r][t].tick >= request[r]

\* A response is committed state: once the tick its views carry has been
\* committed, they are the views of the committed snapshot of that tick.  The
\* exception is a response taken between the publication and the rollback of a
\* commit whose append to the save journal failed.
ReadsAreCommitted ==
  \A r \in Reader \ lostViews : \A t \in Table :
    LET v == response[r][t] IN
      rpc[r] = "done" /\ v.tick < tick => v = ViewOf(snapshots[v.tick], t)

\* A successful read for tick T returns views of tick T.
ReadMatchesRequest ==
  \A r \in Reader : rpc[r] = "done" /\ request[r] # 0 =>
    \A t \in Table : response[r][t].tick = request[r]
=============================================================================
