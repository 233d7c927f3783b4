--------------------------- MODULE EngineServices ---------------------------
(***************************************************************************)
(* The life of a schema registry from loading to the query engine that     *)
(* owns it, with the services around it: the names of the content loader,  *)
(* the inspector's schemas, the SQL write path with its debug journal, the *)
(* ring of diff summaries and the tables of the SQL context                *)
(* (scharnhorst_query/src/engine.rs, debug_write.rs, sql_interface.rs).    *)
(*                                                                         *)
(* Until the engine is made, the loader has the registry to itself.  From  *)
(* then on it is behind the engine's lock, which is held for one call.     *)
(***************************************************************************)
EXTENDS ContentLoader, DebugSql

CONSTANTS
  Table, Spec,    \* table names; specs that callers register
  Edge,           \* relations that callers add
  ModSets,        \* what store_mod_fingerprints is called with
  Content,        \* inputs of the compiler: a set of sequences of definitions
  NameSet,        \* names that are resolved
  Paths,          \* dependencies that rules declare, [table, columns, relations]
  Statements,     \* SQL write statements, as token sequences
  Commits,        \* the diffs of a commit that are summarised: a set of sequences
  Capacity,       \* of the debug journal and of the diff ring
  Budgets         \* bounds: how many calls of each kind, [schema, names, tools]

ASSUME ServicesAssumption ==
  /\ Capacity \in Nat \ {0}
  /\ \A defs \in Content : defs \in Seq({defs[i] : i \in DOMAIN defs})
  /\ \A diffs \in Commits : diffs \in Seq({diffs[i] : i \in DOMAIN diffs})

VARIABLES
  registry,    \* the schema registry
  saved,       \* the manifest last exported, {} or one
  names,       \* NamespaceResolver
  given,       \* history: every id that was handed out, as [table, name, id]
  behind,      \* history: one was, while a name table was ahead of the counter
  owned,       \* the registry belongs to a query engine
  inspector,   \* the tables whose schema the inspector has
  validated,   \* history: the paths that the engine has found valid
  enabled,     \* of the debug journal
  ops,         \* debug journal
  recorded,    \* history: what was recorded since the last clear
  submitted,   \* history: diffs that reached the journal
  unlogged,    \* history: those of them that neither debug journal was told of
  ring,        \* diff summaries
  pushed,      \* history: every summary
  legacy,      \* the journal's own DebugWriteJournal, [enabled, log]
  sqlTables,   \* tables registered with the SQL context
  left         \* what is left of the budget

schema == <<registry, saved, owned, inspector, validated>>
naming == <<names, given, behind>>
tools == <<enabled, ops, recorded, submitted, unlogged, ring, pushed, legacy, sqlTables>>
servicesVars == <<schema, naming, tools, left>>

ServicesInit ==
  /\ registry = NewRegistry /\ saved = {} /\ owned = FALSE /\ inspector = {}
  /\ validated = {}
  /\ names = NewResolver /\ given = {} /\ behind = FALSE
  /\ enabled = TRUE /\ ops = <<>> /\ recorded = <<>> /\ submitted = <<>>
  /\ unlogged = {}
  /\ ring = <<>> /\ pushed = <<>> /\ sqlTables = {} /\ left \in Budgets
  /\ legacy = [enabled |-> TRUE, log |-> <<>>]

-----------------------------------------------------------------------------
(* Loading.                                                                *)

SchemaCall == left.schema > 0 /\ left' = [left EXCEPT !.schema = @ - 1]

\* A method of the registry: it may fail, with or without an effect.
Loading(result) ==
  /\ ~owned /\ SchemaCall /\ registry' = result.it
  /\ UNCHANGED <<saved, owned, inspector, validated, naming, tools>>

RegisterTable(n, spec) == Loading(Register(registry, n, spec))
RemoveSpec(n) == Loading(RemoveTable(registry, n))
ReplaceASpec(n, spec) == Loading(ReplaceSpec(registry, n, spec))
AddARelation(e) == Loading(AddRelation(registry, e))
AddAnEdge(e) == Loading(AddToGraph(registry, e))
RemoveARelation(e) == Loading(RemoveRelation(registry, e.from, e.to))
StoreMods(mods) == Loading(StoreModFingerprints(registry, mods))
FreezeRegistry == Loading(Succeeds(Freeze(registry)))
LoadManifest == \E m \in saved : Loading(LoadFromManifest(registry, m))

\* A registry of the new process, and what the compiler makes of the content.
NewProcess == Loading(Succeeds(NewRegistry))
CompileContent(defs) ==
  LET out == Compile(defs, saved) IN out.ok /\ Loading(Succeeds(out.it.registry))

Export ==
  /\ SchemaCall
  /\ \E order \in SetToSeqs(DOMAIN registry.tables) :
       saved' = {ExportManifest(registry, "v1", order)}
  /\ UNCHANGED <<registry, owned, inspector, validated, naming, tools>>

NameCall == ~owned /\ left.names > 0 /\ left' = [left EXCEPT !.names = @ - 1]

Given(resolver, t, n) == {[table |-> t, name |-> n, id |-> id] : id \in Resolve(resolver, t, n)}

\* The ids that the call on t and n hands out enter the history.
HandsOut(t, n) ==
  /\ given' = given \cup Given(names', t, n)
  /\ behind' = (behind \/ Unsynced(names))

\* namespace(t).register(n), with or without sync_next_id after it.
RegisterAName(t, n) ==
  /\ NameCall
  /\ names' = RegisterIn(names, t, n).it /\ HandsOut(t, n)
  /\ UNCHANGED <<schema, tools>>

ResolveAName(t, n) ==
  /\ NameCall
  /\ names' = ResolveOrAssign(names, t, n) /\ HandsOut(t, n)
  /\ UNCHANGED <<schema, tools>>

SyncNames ==
  /\ NameCall /\ names' = SyncNextId(names.spaces)
  /\ UNCHANGED <<given, behind, schema, tools>>

-----------------------------------------------------------------------------
(* The query engine.                                                       *)

\* QueryEngine::new takes the registry over and starts with an empty inspector.
NewEngine ==
  /\ ~owned /\ owned' = TRUE /\ inspector' = {}
  /\ UNCHANGED <<registry, saved, validated, left, naming, tools>>

RegisterTableSchema(n, spec) ==
  /\ owned /\ SchemaCall
  /\ LET result == Register(registry, n, spec)
     IN  registry' = result.it /\ inspector' = IF result.ok THEN inspector \cup {n} ELSE inspector
  /\ UNCHANGED <<saved, owned, validated, naming, tools>>

FreezeSchemaRegistry ==
  /\ owned /\ SchemaCall /\ registry' = Freeze(registry)
  /\ UNCHANGED <<saved, owned, inspector, validated, naming, tools>>

\* validate: the paths that name something which is not there.
Validate(r, paths) ==
  {p \in paths : \/ p.table \notin DOMAIN r.tables
                 \/ \E c \in p.columns : ColumnByName(r.tables[p.table], c) = {}
                 \/ \E e \in p.relations : FindEdge(r.graph, e.from, e.to) = {}}

ValidatePaths ==
  /\ owned /\ validated' = Paths \ Validate(registry, Paths)
  /\ UNCHANGED <<registry, saved, owned, inspector, left, naming, tools>>

ToolCall == owned /\ left.tools > 0 /\ left' = [left EXCEPT !.tools = @ - 1]

\* DebugWriteJournal::record and DiffSummaryRing::push drop the oldest entry.
\* Mutant: room is made when the capacity is passed.
PushedLate(entries, entry) ==
  Append(IF Len(entries) > Capacity THEN Tail(entries) ELSE entries, entry)

PushedEntry(entries, entry) ==
  Append(IF Len(entries) >= Capacity THEN Tail(entries) ELSE entries, entry)

\* diff_to_debug_write_op
WriteOp(diff) ==
  [table |-> diff.table,
   op |-> CASE diff.kind = "Update" -> "Patch" [] diff.kind = "Insert" -> "Append"
            [] OTHER -> "Delete"]

Submitted(diff, traced, logged) == [diff |-> diff, traced |-> traced, logged |-> logged]

\* execute_sql_write: recorded first, then submitted; the journal may refuse.
ExecuteSqlWrite(sql, accepted) ==
  /\ ToolCall
  /\ LET diff == StatementToDiff(sql) IN
       /\ diff # NoDiff
       /\ IF enabled THEN /\ ops' = PushedEntry(ops, WriteOp(diff))
                          /\ recorded' = Append(recorded, WriteOp(diff))
          ELSE UNCHANGED <<ops, recorded>>
       /\ submitted' = IF accepted THEN Append(submitted, Submitted(diff, enabled, FALSE)) ELSE submitted
       /\ unlogged' = IF accepted /\ ~enabled THEN unlogged \cup {diff} ELSE unlogged
  /\ UNCHANGED <<enabled, ring, pushed, legacy, sqlTables, schema, naming>>

SetEnabled(on) ==
  /\ ToolCall /\ enabled' = on
  /\ UNCHANGED <<ops, recorded, submitted, unlogged, ring, pushed, legacy, sqlTables, schema, naming>>

ClearOps ==
  /\ ToolCall /\ ops' = <<>> /\ recorded' = <<>>
  /\ submitted' = [i \in DOMAIN submitted |-> [submitted[i] EXCEPT !.traced = FALSE]]
  /\ UNCHANGED <<enabled, unlogged, ring, pushed, legacy, sqlTables, schema, naming>>

\* DebugWriteJournal::execute_sql of the journal crate: logged first, whatever
\* comes of it.
ExecuteSql(sql, accepted) ==
  /\ ToolCall /\ legacy.enabled
  /\ legacy' = [legacy EXCEPT !.log = Append(@, sql)]
  /\ LET diff == StatementToDiff(sql)
     IN  submitted' = IF diff # NoDiff /\ accepted THEN Append(submitted, Submitted(diff, FALSE, TRUE))
                      ELSE submitted
  /\ UNCHANGED <<enabled, ops, recorded, unlogged, ring, pushed, sqlTables, schema, naming>>

SetLegacyEnabled(on) ==
  /\ ToolCall /\ legacy' = [legacy EXCEPT !.enabled = on]
  /\ UNCHANGED <<enabled, ops, recorded, submitted, unlogged, ring, pushed, sqlTables, schema, naming>>

ClearSqlLog ==
  /\ ToolCall /\ legacy' = [legacy EXCEPT !.log = <<>>]
  /\ submitted' = [i \in DOMAIN submitted |-> [submitted[i] EXCEPT !.logged = FALSE]]
  /\ UNCHANGED <<enabled, ops, recorded, unlogged, ring, pushed, sqlTables, schema, naming>>

\* push_diff_summaries with the diffs of a commit.
PushDiffSummaries(diffs) ==
  /\ ToolCall
  /\ ring' = FoldLeft(PushedEntry, ring, diffs) /\ pushed' = pushed \o diffs
  /\ UNCHANGED <<enabled, ops, recorded, submitted, unlogged, legacy, sqlTables, schema, naming>>

RegisterSqlTable(n) ==
  /\ ToolCall /\ sqlTables' = sqlTables \cup {n}
  /\ UNCHANGED <<enabled, ops, recorded, submitted, unlogged, ring, pushed, legacy, schema, naming>>

UnregisterSqlTable(n) ==
  /\ ToolCall /\ sqlTables' = sqlTables \ {n}
  /\ UNCHANGED <<enabled, ops, recorded, submitted, unlogged, ring, pushed, legacy, schema, naming>>

-----------------------------------------------------------------------------
LoadStep ==
  \/ \E n \in Table : RemoveSpec(n) \/ \E spec \in Spec : RegisterTable(n, spec) \/ ReplaceASpec(n, spec)
  \/ \E e \in Edge : AddARelation(e) \/ AddAnEdge(e) \/ RemoveARelation(e)
  \/ \E mods \in ModSets : StoreMods(mods)
  \/ FreezeRegistry \/ LoadManifest \/ NewProcess \/ Export
  \/ \E defs \in Content : CompileContent(defs)
  \/ \E t \in Table, n \in NameSet : RegisterAName(t, n) \/ ResolveAName(t, n)
  \/ SyncNames

EngineStep ==
  \/ NewEngine \/ FreezeSchemaRegistry \/ ValidatePaths \/ ClearOps \/ ClearSqlLog
  \/ \E n \in Table : RegisterSqlTable(n) \/ UnregisterSqlTable(n)
                      \/ \E spec \in Spec : RegisterTableSchema(n, spec)
  \/ \E sql \in Statements, accepted \in BOOLEAN : ExecuteSqlWrite(sql, accepted) \/ ExecuteSql(sql, accepted)
  \/ \E on \in BOOLEAN : SetEnabled(on) \/ SetLegacyEnabled(on)
  \/ \E diffs \in Commits : PushDiffSummaries(diffs)

ServicesNext == LoadStep \/ EngineStep

ServicesSpec == ServicesInit /\ [][ServicesNext]_servicesVars

-----------------------------------------------------------------------------
\* The relation graph stays sound through additions, removals and reloads: the
\* adjacency lists are the edges, no relation is there twice, and there is no
\* cycle, which the walk of the loader confirms.  What the engine has found
\* valid for a rule stays valid: nothing under the engine takes it away.
GraphSound ==
  LET g == registry.graph IN
    /\ \A t \in DOMAIN g.adjacency : \A k \in DOMAIN g.adjacency[t] :
         g.adjacency[t][k] \in DOMAIN g.edges /\ g.edges[g.adjacency[t][k]].from = t
    /\ \A i \in DOMAIN g.edges :
         /\ g.edges[i].from \in DOMAIN g.adjacency
         /\ Cardinality({k \in DOMAIN g.adjacency[g.edges[i].from] :
                           g.adjacency[g.edges[i].from][k] = i}) = 1
         /\ \A j \in DOMAIN g.edges : g.edges[i] = g.edges[j] => i = j
    /\ Validate(registry, validated) = {}
    /\ ~Cyclic(g.edges) /\ DetectCycles(g, AnyOrder(g)) = <<>>

\* A manifest that was exported loads into a registry of a new process and
\* gives the tables, the relations and the mods of the one it came from; the
\* exception is a registry that has lost a table of one of its relations.
ManifestReloads ==
  \A m \in saved :
    LET listed == {m.tables[i].name : i \in DOMAIN m.tables}
        loaded == LoadFromManifest(NewRegistry, m)
        whole == \A i \in DOMAIN m.relations : {m.relations[i].from, m.relations[i].to} \subseteq listed
    IN  /\ loaded.ok <=> whole
        /\ whole => /\ DOMAIN loaded.it.tables = listed
                    /\ \A i \in DOMAIN m.tables : loaded.it.tables[m.tables[i].name] = m.tables[i].spec
                    /\ loaded.it.graph.edges = m.relations /\ loaded.it.mods = m.mods

\* "stable integer IDs" (content-loader/spec.md:11): an id that was handed out
\* keeps its name and its table, and no other name gets it, across namespaces.
\* The exception: a name was assigned after a registration through namespace()
\* and before the sync_next_id that brings the counter back.
NamesStable ==
  ~behind =>
    /\ \A g \in given : /\ Resolve(names, g.table, g.name) = {g.id}
                        /\ NameOf(names, g.table, g.id) = {g.name}
    /\ \A g, h \in given : g.id = h.id => g = h

\* The debug journal holds the newest of what was recorded and the ring the
\* newest summaries, up to their capacity; and what SQL submitted while its debug
\* journal was recording, since it was last cleared, has left its trace there, in
\* that order.  A write made with recording off is submitted all the same.
TrailsKeepNewest ==
  /\ ops = SubSeq(recorded, Len(recorded) - Len(ops) + 1, Len(recorded))
  /\ Len(ops) = IF Len(recorded) < Capacity THEN Len(recorded) ELSE Capacity
  /\ ring = SubSeq(pushed, Len(pushed) - Len(ring) + 1, Len(pushed))
  /\ Len(ring) = IF Len(pushed) < Capacity THEN Len(pushed) ELSE Capacity
  /\ LET Traced(s) == s.traced
         Logged(s) == s.logged
         \* What of the submitted passes the Test stands in the trail, in that order.
         Leaves(trail, Test(_), Entry(_)) ==
           LET sent == {i \in DOMAIN submitted : Test(submitted[i])} IN
             \E place \in [sent -> DOMAIN trail] :
               \A i, j \in sent :
                 trail[place[i]] = Entry(submitted[i].diff) /\ (i < j => place[i] < place[j])
     IN  /\ Leaves(recorded, Traced, WriteOp)
         /\ Leaves([i \in DOMAIN legacy.log |-> StatementToDiff(legacy.log[i])], Logged,
                   LAMBDA diff : diff)

\* "Logged: all debug writes are logged for debugging reproducibility"
\* (journal-system/spec.md:116): a diff that SQL submitted has been told to the
\* debug journal it came through.
AllWritesLogged == unlogged = {}
=============================================================================
