----------------------------- MODULE RuleEngine -----------------------------
(***************************************************************************)
(* The Evaluator of the rule engine (scharnhorst_rules/src/evaluator.rs)   *)
(* with its scope stack (scope.rs), its prefetch cache (cache.rs), its     *)
(* variables and modifiers, and the effects it submits (effect.rs).        *)
(* Its calls are actions, one each; jump_to is two, because it takes the   *)
(* lock of the query engine twice and a commit of another thread may come  *)
(* in between.  A commit publishes a whole new world; the refresh callback *)
(* that tells the evaluator comes later, and may not come at all when the  *)
(* callback of another consumer has failed.                                *)
(* What an expression is, and what it evaluates to, is RuleExpr; here it   *)
(* is a parameter.                                                         *)
(***************************************************************************)
EXTENDS FixedPoint, Sequences, SequencesExt

CONSTANTS
  World,       \* what a commit may publish: [table -> [column -> column]]
  Edges,       \* the relation graph: records [from, to, column]
  PrimaryKey,  \* [table -> the set of its primary key column, or {}]
  Root,        \* scopes a caller may start from: records [table, row]
  Programs,    \* rule effects, as sequences: a nested Sequence is flattened
  Bonus,       \* modifiers: records [table, column, op, value]
  Requests,    \* prefetch requests: records [table, rows]
  EvaluateExpr(_, _),   \* Evaluator::evaluate, of an expression in an environment
  EvalValueToJson(_),   \* eval_value_to_json, of a value
  Capacity, MaxTick, MaxAccess, MaxDepth, MaxPending, MaxBonus

\* Capacities, ticks and row ids are unsigned.  A scope starts, and a relation
\* joins, tables that the registry knows: add_relation refuses any other.
ASSUME RulesAssumption ==
  /\ Capacity \in Nat /\ MaxTick \in Nat /\ MaxAccess \in Nat /\ MaxDepth \in Nat
  /\ \A q \in Requests : q.rows \in Seq(Nat)
  /\ \A r \in Root : r.table \in DOMAIN PrimaryKey
  /\ \A e \in Edges : {e.from, e.to} \subseteq DOMAIN PrimaryKey

NoTick == -1

VARIABLES
  latest,      \* QueryEngine::latest_tick
  views,       \* QueryEngine::view_cache, all of the tick latest
  entries,     \* PrefetchCache::entries: <<table, row>> -> [tick, view, access]
  cacheTick,   \* PrefetchCache::current_tick
  counter,     \* PrefetchCache::access_counter
  dirty,       \* PrefetchCache::dirty
  here,        \* Scope: the current table and row
  stack,       \* Scope: the frames below
  vars,        \* Evaluator::variables
  mods,        \* ModifierRegistry::entries
  jump,        \* jump_to between its two locks: {} or one [table, row, at]
  pending,     \* Journal::pending_diffs
  result,      \* whether the last call returned an error
  used         \* history: every use of a key since the last clear

cacheVars == <<entries, cacheTick, counter, dirty, used>>
scopeVars == <<here, stack>>
ruleVars == <<latest, views, cacheVars, scopeVars, vars, mods, jump, pending,
              result>>

\* The evaluator is free for its next call.
Free == jump = {}

Fields == {<<t, c>> : t \in DOMAIN PrimaryKey,
                      c \in UNION {DOMAIN w[t] : t \in DOMAIN PrimaryKey, w \in World}}

RuleInit ==
  /\ latest = NoTick /\ views = <<>>
  /\ entries = <<>> /\ cacheTick = 0 /\ counter = 0 /\ dirty = FALSE /\ used = <<>>
  /\ here \in Root /\ stack = <<>>
  /\ vars = <<>> /\ mods = [f \in Fields |-> <<>>] /\ jump = {}
  /\ pending = <<>> /\ result = "Ok"

-----------------------------------------------------------------------------
(* The query engine, as the evaluator calls it                             *)

\* read_single_table: tick zero asks for whatever is cached.
CanRead(tick, table) ==
  /\ table \in DOMAIN views
  /\ tick = 0 \/ tick = latest

\* lookup_row at the latest tick, and the cell of a column of the row.
HasCell(table, column, row) ==
  /\ table \in DOMAIN views /\ column \in DOMAIN views[table]
  /\ row \in DOMAIN views[table][column].cells

Cell(table, column, row) == views[table][column].cells[row]

-----------------------------------------------------------------------------
(* PrefetchCache                                                           *)

Without(f, key) == [k \in DOMAIN f \ {key} |-> f[k]]
With(f, key, value) == [k \in DOMAIN f \cup {key} |-> IF k = key THEN value ELSE f[k]]

\* Mutant: the entry used last is the one that goes.
EvictMostRecent(es) ==
  IF es = <<>> THEN es
  ELSE Without(es, CHOOSE k \in DOMAIN es :
                     \A j \in DOMAIN es : es[k].access >= es[j].access)

EvictLru(es) ==
  IF es = <<>> THEN es
  ELSE Without(es, CHOOSE k \in DOMAIN es :
                     \A j \in DOMAIN es : es[k].access <= es[j].access)

\* A cache at capacity evicts first, even if the key is already there.
Inserted(c, key, tick, view) ==
  LET room == IF Cardinality(DOMAIN c.entries) >= Capacity
                THEN EvictLru(c.entries) ELSE c.entries
  IN  [entries |-> With(room, key, [tick |-> tick, view |-> view,
                                    access |-> c.counter + 1]),
       counter |-> c.counter + 1,
       used    |-> Append(c.used, key)]

Cache == [entries |-> entries, counter |-> counter, used |-> used]

SetCache(c) == /\ entries' = c.entries /\ counter' = c.counter /\ used' = c.used

Cleared == SetCache([entries |-> <<>>, counter |-> 0, used |-> <<>>])

\* The views of a table that the cache holds for a tick.
FindView(table, tick) ==
  {entries[k].view : k \in {j \in DOMAIN entries :
                              j[1] = table /\ entries[j].tick = tick}}

\* prefetch: one read, then the rows that are not there yet, in order.
PrefetchRows(request) ==
  FoldLeft(LAMBDA c, row :
             IF <<request.table, row>> \in DOMAIN c.entries THEN c
             ELSE Inserted(c, <<request.table, row>>, cacheTick, latest),
           Cache, request.rows)

Prefetch(request) ==
  /\ Free
  /\ counter + Len(request.rows) <= MaxAccess
  /\ IF CanRead(cacheTick, request.table)
       THEN /\ SetCache(PrefetchRows(request))
            /\ result' = "Ok"
       ELSE /\ result' = "Err"
            /\ UNCHANGED <<entries, counter, used>>
  /\ UNCHANGED <<latest, views, cacheTick, dirty, scopeVars, vars, mods, jump, pending>>

\* get: a hit makes the entry the most recent.
Get(key) ==
  /\ Free
  /\ key \in DOMAIN entries /\ counter < MaxAccess
  /\ counter' = counter + 1
  /\ entries' = [entries EXCEPT ![key].access = counter + 1]
  /\ used' = Append(used, key)
  /\ result' = "Ok"
  /\ UNCHANGED <<latest, views, cacheTick, dirty, scopeVars, vars, mods, jump, pending>>

MarkDirty ==
  /\ Free
  /\ ~dirty /\ dirty' = TRUE /\ result' = "Ok"
  /\ UNCHANGED <<latest, views, entries, cacheTick, counter, used, scopeVars, vars,
                 mods, jump, pending>>

\* Mutant: the tick moves on and the rows stay.
SetTickOnly(tick) ==
  /\ cacheTick' = tick
  /\ UNCHANGED <<entries, counter, used, dirty>>

\* set_tick, by which advance_tick answers the refresh: nothing happens when
\* the tick is the one the cache already has.
SetTick(tick) ==
  IF cacheTick = tick THEN UNCHANGED cacheVars
  ELSE /\ Cleared /\ dirty' = FALSE
       /\ cacheTick' = tick

AdvanceTick ==
  /\ Free
  /\ latest # NoTick
  /\ SetTick(latest) /\ result' = "Ok"
  /\ UNCHANGED <<latest, views, scopeVars, vars, mods, jump, pending>>

\* DerivedState::rebuild_from_authority clears whatever the tick.
Rebuild ==
  /\ Free
  /\ latest # NoTick
  /\ Cleared /\ dirty' = FALSE /\ cacheTick' = latest /\ result' = "Ok"
  /\ UNCHANGED <<latest, views, scopeVars, vars, mods, jump, pending>>

-----------------------------------------------------------------------------
(* Scope                                                                   *)

\* The two ends of a jump: where the key is read and where it is searched.
KeyOf(table) == PrimaryKey[table]

Ends(edge, direction) ==
  IF direction = "Forward"
    THEN [source |-> edge.from, sourceColumns |-> {edge.column},
          target |-> edge.to, targetColumns |-> KeyOf(edge.to)]
    ELSE [source |-> edge.to, sourceColumns |-> KeyOf(edge.to),
          target |-> edge.from, targetColumns |-> {edge.column}]

\* resolve_target_row up to the scan: the key of the current row.  The table of
\* the scope is not compared with the end of the edge the jump starts from.
Sought(edge, direction) ==
  LET e == Ends(edge, direction) IN
    UNION {Cell(e.source, c, here.row) :
             c \in {d \in e.sourceColumns : HasCell(e.source, d, here.row)}}

\* The scan follows the order of a hash map: any row with the key may come
\* first, and so may a row whose key is null, which ends it with an error.
Scanned(edge, direction) ==
  LET e == Ends(edge, direction) IN
    IF /\ Sought(edge, direction) # {}
       /\ e.targetColumns # {}
       /\ CanRead(cacheTick, e.target)
      THEN views[e.target][CHOOSE c \in e.targetColumns : TRUE].cells
      ELSE <<>>

Targets(edge, direction) ==
  {r \in DOMAIN Scanned(edge, direction) :
     Scanned(edge, direction)[r] = Sought(edge, direction)}

MayFail(edge, direction) ==
  \/ Targets(edge, direction) = {}
  \/ \E r \in DOMAIN Scanned(edge, direction) : Scanned(edge, direction)[r] = {}

\* Mutant: the frame is pushed before the target has been found.
JumpFailsPushed(edge, direction) ==
  /\ Free
  /\ MayFail(edge, direction) /\ Len(stack) < MaxDepth
  /\ stack' = Append(stack, here)
  /\ here' = [here EXCEPT !.table = Ends(edge, direction).target]
  /\ result' = "Err"
  /\ UNCHANGED <<latest, views, cacheVars, vars, mods, jump, pending>>

JumpFails(edge, direction) ==
  /\ Free
  /\ MayFail(edge, direction)
  /\ result' = "Err"
  /\ UNCHANGED <<latest, views, cacheVars, scopeVars, vars, mods, jump, pending>>

\* The first half of jump_to: resolve_target_row under the engine's lock.
JumpResolves(edge, direction) ==
  /\ Free /\ Len(stack) < MaxDepth /\ counter < MaxAccess
  /\ \E row \in Targets(edge, direction) :
       jump' = {[table |-> Ends(edge, direction).target, row |-> row, at |-> latest]}
  /\ UNCHANGED <<latest, views, cacheVars, scopeVars, vars, mods, pending, result>>

\* The views pin_in_cache can use: one the cache has for the table, or else a
\* second read, at the tick of the cache.
PinViews(table) ==
  IF FindView(table, cacheTick) # {} THEN FindView(table, cacheTick)
  ELSE IF CanRead(cacheTick, table) THEN {latest} ELSE {}

\* pin_in_cache: an error if the second read is refused.
PinInCache(table, row) ==
  IF PinViews(table) = {}
    THEN /\ result' = "Err"
         /\ UNCHANGED <<entries, counter, used>>
    ELSE /\ result' = "Ok"
         /\ \E view \in PinViews(table) :
              SetCache(Inserted(Cache, <<table, row>>, cacheTick, view))

\* The second half of jump_to: push the frame, then pin the row.
JumpTo ==
  /\ \E j \in jump :
       /\ stack' = Append(stack, here)
       /\ here' = [table |-> j.table, row |-> j.row]
       /\ PinInCache(j.table, j.row)
  /\ jump' = {}
  /\ UNCHANGED <<latest, views, cacheTick, dirty, vars, mods, pending>>

ScopePop ==
  /\ Free
  /\ IF stack = <<>> THEN result' = "Err" /\ UNCHANGED scopeVars
     ELSE /\ here' = Last(stack) /\ stack' = Front(stack)
          /\ result' = "Ok"
  /\ UNCHANGED <<latest, views, cacheVars, vars, mods, jump, pending>>

ScopeReset(root) ==
  /\ Free
  /\ here' = root /\ stack' = <<>> /\ result' = "Ok"
  /\ UNCHANGED <<latest, views, cacheVars, vars, mods, jump, pending>>

-----------------------------------------------------------------------------
(* Effects                                                                 *)

Env == [row |-> here.row, tables |-> views, vars |-> vars, mods |-> mods]

\* InsertRow evaluates every column, the others their one value.
EffectExprs(e) ==
  IF e.effect = "InsertRow" THEN e.values ELSE [c \in {e.target} |-> e.value]

\* What an effect does with its values: a variable, or a diff to the journal.
Submit(acc, e, values) ==
  IF \E c \in DOMAIN values : ~IsOk(values[c]) THEN [acc EXCEPT !.ok = FALSE]
  ELSE IF e.effect = "SetVariable"
    THEN [acc EXCEPT !.vars = With(@, e.target, values[e.target])]
    ELSE LET insert == e.effect = "InsertRow" IN
      [acc EXCEPT !.pending =
         Append(@, [diff   |-> IF insert THEN "Insert" ELSE "Update",
                    table  |-> e.table,
                    row    |-> IF insert THEN e.row ELSE here.row,
                    values |-> [c \in DOMAIN values |-> EvalValueToJson(values[c])]])]

\* One primitive effect on what the earlier ones have left: the variables, the
\* diffs submitted and whether one has failed, which ends the sequence.
ApplyEffect(acc, e) ==
  LET env   == [Env EXCEPT !.vars = acc.vars]
      exprs == EffectExprs(e)
  IN  IF acc.ok
        THEN Submit(acc, e, [c \in DOMAIN exprs |-> EvaluateExpr(exprs[c], env)])
        ELSE acc

AfterEffects(program) ==
  FoldLeft(ApplyEffect, [vars |-> vars, pending |-> pending, ok |-> TRUE], program)

\* evaluate_effect of a Sequence: what was submitted before a failure stays.
EvaluateEffect(program) ==
  /\ Free
  /\ Len(pending) + Len(program) <= MaxPending
  /\ \E after \in {AfterEffects(program)} :
       /\ vars' = after.vars /\ pending' = after.pending
       /\ result' = IF after.ok THEN "Ok" ELSE "Err"
  /\ UNCHANGED <<latest, views, cacheVars, scopeVars, mods, jump>>

RegisterModifier(m) ==
  /\ Free
  /\ Len(mods[<<m.table, m.column>>]) < MaxBonus
  /\ mods' = [mods EXCEPT ![<<m.table, m.column>>] =
                Append(@, [op |-> m.op, value |-> m.value])]
  /\ result' = "Ok"
  /\ UNCHANGED <<latest, views, cacheVars, scopeVars, vars, jump, pending>>

ClearField(field) ==
  /\ Free
  /\ mods[field] # <<>>
  /\ mods' = [mods EXCEPT ![field] = <<>>]
  /\ result' = "Ok"
  /\ UNCHANGED <<latest, views, cacheVars, scopeVars, vars, jump, pending>>

-----------------------------------------------------------------------------
\* Journal::commit publishes the next tick; the diffs are in what it publishes.
Commit(world) ==
  /\ latest < MaxTick
  /\ latest' = latest + 1 /\ views' = world
  /\ pending' = <<>> /\ result' = "Ok"
  /\ UNCHANGED <<cacheVars, scopeVars, vars, mods, jump>>

RuleNext ==
  \/ \E w \in World : Commit(w)
  \/ AdvanceTick \/ Rebuild \/ MarkDirty
  \/ \E q \in Requests : Prefetch(q)
  \/ \E k \in DOMAIN entries : Get(k)
  \/ \E e \in Edges, d \in {"Forward", "Reverse"} : JumpResolves(e, d) \/ JumpFails(e, d)
  \/ JumpTo
  \/ ScopePop
  \/ \E r \in Root : ScopeReset(r)
  \/ \E p \in Programs : EvaluateEffect(p)
  \/ \E m \in Bonus : RegisterModifier(m)
  \/ \E f \in Fields : ClearField(f)

RuleSpec == RuleInit /\ [][RuleNext]_ruleVars

-----------------------------------------------------------------------------
(* Properties                                                              *)

\* Scopes, cache entries and the result have their types; the cache never
\* holds more than its capacity (one row when the capacity is zero).
RuleTypeOK ==
  /\ latest \in NoTick .. MaxTick /\ cacheTick \in 0 .. MaxTick
  /\ \A k \in DOMAIN entries :
       /\ entries[k].tick \in 0 .. MaxTick /\ entries[k].view \in 0 .. MaxTick
       /\ entries[k].access \in 1 .. counter
  /\ Cardinality(DOMAIN entries) <= IF Capacity = 0 THEN 1 ELSE Capacity
  /\ here.table \in DOMAIN PrimaryKey /\ Len(stack) <= MaxDepth
  /\ \A i \in DOMAIN stack : stack[i].table \in DOMAIN PrimaryKey
  /\ \A j \in jump : j.table \in DOMAIN PrimaryKey
  /\ result \in {"Ok", "Err"}

\* I-RR-CACHE-LIFECYCLE: whatever jumps, prefetches, commits and missed
\* refreshes came before, once the evaluator has left tick zero every row it
\* has pinned comes from the world committed at its own tick.
CacheOfOneTick ==
  cacheTick # 0 => \A k \in DOMAIN entries :
                     /\ entries[k].view = cacheTick
                     /\ entries[k].tick = cacheTick

\* Eviction is least recently used: what the cache holds was used more
\* recently than everything it has dropped since it was cleared, and is never
\* more than its capacity (one row when the capacity is zero).  In other words
\* it holds exactly the rows used since some moment.
KeepsMostRecent ==
  /\ Cardinality(DOMAIN entries) <= Max({1, Capacity})
  /\ \E since \in 1 .. Len(used) + 1 :
       DOMAIN entries = {used[i] : i \in since .. Len(used)}

\* A call that returns an error leaves the scope where it was.  The exception
\* is a jump_to that a commit of another thread overtook between its two reads:
\* it has pushed one frame, on top of the scope it was called in, which one
\* scope_pop takes off again.
ErrorScopeUndoable ==
  [][result' = "Err" /\ scopeVars' # scopeVars =>
       /\ \E j \in jump : j.at < latest
       /\ stack' = Append(stack, here)]_ruleVars
=============================================================================
