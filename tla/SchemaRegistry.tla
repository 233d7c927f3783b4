--------------------------- MODULE SchemaRegistry ---------------------------
(***************************************************************************)
(* scharnhorst_schema: table specs, the relation graph with its two cycle  *)
(* checks, the registry with its freeze, and manifests.  Every method is   *)
(* an operator from a registry to a result [ok, it], because the compiler, *)
(* the load reconstruction and the query engine each work on a registry of *)
(* their own; EngineServices has the actions.                              *)
(***************************************************************************)
EXTENDS Integers, Sequences, SequencesExt, RelationReach

Succeeds(it) == [ok |-> TRUE, it |-> it]
Fails(it) == [ok |-> FALSE, it |-> it]

\* The ? operator in a loop: the first failure ends it, and what was done stays.
Each(Step(_, _), start, items) ==
  FoldLeft(LAMBDA done, x : IF done.ok THEN Step(done.it, x) ELSE done, Succeeds(start), items)

-----------------------------------------------------------------------------
(* Table specs: the columns in order and an index by name.                 *)

NewSpec(tier) == [columns |-> <<>>, index |-> <<>>, tier |-> tier]

WithColumn(spec, column) ==
  IF column.name \in DOMAIN spec.index THEN Fails(spec)
  ELSE Succeeds([spec EXCEPT
         !.columns = Append(@, column),
         !.index = [n \in DOMAIN @ \cup {column.name} |->
                      IF n = column.name THEN Len(spec.columns) + 1 ELSE @[n]]])

\* rebuild_index, after deserializing: of two columns with one name the last wins.
RebuildIndex(columns) ==
  [n \in {columns[i].name : i \in DOMAIN columns} |->
     CHOOSE i \in DOMAIN columns :
       columns[i].name = n /\ \A j \in DOMAIN columns : columns[j].name = n => j <= i]

Deserialized(columns, tier) == [columns |-> columns, index |-> RebuildIndex(columns), tier |-> tier]

ColumnByName(spec, name) ==
  IF name \in DOMAIN spec.index THEN {spec.columns[spec.index[name]]} ELSE {}

\* primary_key_column: the first column with the semantic Id.
PrimaryKeyColumn(spec) ==
  LET keys == SelectSeq(spec.columns, LAMBDA c : c.semantic = "Id")
  IN  IF keys = <<>> THEN {} ELSE {keys[1]}

ForeignKeyColumns(spec) == SelectSeq(spec.columns, LAMBDA c : c.semantic = "ForeignKey")

-----------------------------------------------------------------------------
(* RelationGraph: the edges, and for every table the places of its edges.  *)

EmptyGraph == [edges |-> <<>>, adjacency |-> <<>>]

GraphTables(g) == UNION {{g.edges[i].from, g.edges[i].to} : i \in DOMAIN g.edges}

FindEdge(g, from, to) == {i \in DOMAIN g.edges : g.edges[i].from = from /\ g.edges[i].to = to}

\* The places of a table's edges.
Places(g, table) == IF table \in DOMAIN g.adjacency THEN g.adjacency[table] ELSE <<>>

\* edges_from of every table, as the search of would_create_cycle sees it.
Adjacent(g) ==
  UNION {{<<t, g.edges[g.adjacency[t][k]].to>> :
            k \in {k \in DOMAIN g.adjacency[t] : g.adjacency[t][k] \in DOMAIN g.edges}} :
          t \in DOMAIN g.adjacency}

\* Mutant: only the edges that leave the target are looked at.
WouldCreateCycleNear(g, start, target) ==
  start = target \/ start \in Children(Adjacent(g), target)

WouldCreateCycle(g, start, target) == start \in Reached(Adjacent(g), target)

\* add_edge_unchecked
Pushed(g, e) ==
  LET place == Len(g.edges) + 1
      before == IF e.from \in DOMAIN g.adjacency THEN g.adjacency[e.from] ELSE <<>>
  IN  [edges |-> Append(g.edges, e),
       adjacency |-> [t \in DOMAIN g.adjacency \cup {e.from} |->
                        IF t = e.from THEN Append(before, place) ELSE g.adjacency[t]]]

AddEdge(g, e) ==
  IF FindEdge(g, e.from, e.to) # {} \/ WouldCreateCycle(g, e.from, e.to) THEN Fails(g)
  ELSE Succeeds(Pushed(g, e))

RebuildAdjacency(edges) == FoldLeft(Pushed, EmptyGraph, edges)

RemoveEdge(g, from, to) ==
  LET places == FindEdge(g, from, to) IN
  IF places = {} THEN Fails(g)
  ELSE Succeeds(RebuildAdjacency(RemoveAt(g.edges, CHOOSE i \in places : \A j \in places : i <= j)))

\* detect_cycles: a depth-first walk with colours, entering and leaving each
\* table, from every table that is still white, in the order of a HashSet.
Opened(g, s, i) ==
  IF i \in DOMAIN g.edges /\ s.color[g.edges[i].to] # "Black"
    THEN [s EXCEPT !.stack = Append(@, [entering |-> TRUE, node |-> g.edges[i].to])]
    ELSE s

Opening(g, s, places) == FoldLeft(LAMBDA walk, i : Opened(g, walk, i), s, places)

WalkStep(g, s) ==
  LET top == Last(s.stack)
      rest == Front(s.stack)
      node == top.node
  IN  IF s.stack = <<>> THEN s
      ELSE CASE ~top.entering ->
                  [s EXCEPT !.stack = rest, !.path = Front(@),
                            !.color = [@ EXCEPT ![node] = "Black"]]
             [] top.entering /\ s.color[node] = "Black" -> [s EXCEPT !.stack = rest]
             [] top.entering /\ s.color[node] = "Gray" ->
                  [s EXCEPT !.stack = rest,
                            !.cycles = Append(@, SubSeq(s.path, SelectInSeq(s.path,
                                                  LAMBDA t : t = node), Len(s.path)))]
             [] OTHER ->
                  Opening(g, [s EXCEPT !.color = [@ EXCEPT ![node] = "Gray"],
                                       !.path = Append(@, node),
                                       !.stack = Append(rest, [entering |-> FALSE, node |-> node])],
                          Places(g, node))

\* Until the stack is empty: a walk enters and leaves no table twice, and looks
\* at no relation twice.
Walk(g, start) ==
  FoldLeft(LAMBDA s, step : WalkStep(g, s), start, [step \in 1 .. (3 * Len(g.edges)) + 1 |-> step])

WalkFrom(g, s, start) ==
  IF s.color[start] # "White" THEN s
  ELSE Walk(g, [s EXCEPT !.stack = <<[entering |-> TRUE, node |-> start]>>])

DetectCycles(g, order) ==
  FoldLeft(LAMBDA s, start : WalkFrom(g, s, start),
           [stack |-> <<>>, path |-> <<>>, cycles |-> <<>>,
            color |-> [t \in GraphTables(g) |-> "White"]], order).cycles

AnyOrder(g) == CHOOSE order \in SetToSeqs(GraphTables(g)) : TRUE

-----------------------------------------------------------------------------
(* The registry.                                                           *)

NewRegistry == [tables |-> <<>>, graph |-> EmptyGraph, frozen |-> FALSE,
                mods |-> {}, migrated |-> {}]

Freeze(r) == [r EXCEPT !.frozen = TRUE]

Register(r, n, spec) ==
  IF r.frozen \/ n \in DOMAIN r.tables THEN Fails(r)
  ELSE Succeeds([r EXCEPT !.tables = [t \in DOMAIN @ \cup {n} |-> IF t = n THEN spec ELSE @[t]]])

\* The relations of a removed table stay in the graph.
RemoveTable(r, n) ==
  IF r.frozen \/ n \notin DOMAIN r.tables THEN Fails(r)
  ELSE Succeeds([r EXCEPT !.tables = [t \in DOMAIN @ \ {n} |-> @[t]]])

\* get_mut hands the spec out to be written over.
ReplaceSpec(r, n, spec) ==
  IF r.frozen \/ n \notin DOMAIN r.tables THEN Fails(r)
  ELSE Succeeds([r EXCEPT !.tables = [t \in DOMAIN @ |-> IF t = n THEN spec ELSE @[t]]])

\* relation_graph_mut hands the graph out: an edge needs no tables.
AddToGraph(r, e) ==
  IF r.frozen THEN Fails(r)
  ELSE LET added == AddEdge(r.graph, e)
       IN  [ok |-> added.ok, it |-> [r EXCEPT !.graph = added.it]]

AddRelation(r, e) ==
  IF r.frozen \/ {e.from, e.to} \ DOMAIN r.tables # {} THEN Fails(r)
  ELSE LET added == AddEdge(r.graph, e)
       IN  [ok |-> added.ok, it |-> [r EXCEPT !.graph = added.it]]

RemoveRelation(r, from, to) ==
  IF r.frozen THEN Fails(r)
  ELSE LET removed == RemoveEdge(r.graph, from, to)
       IN  [ok |-> removed.ok, it |-> [r EXCEPT !.graph = removed.it]]

StoreModFingerprints(r, mods) ==
  IF r.frozen THEN Fails(r) ELSE Succeeds([r EXCEPT !.mods = mods])

SetMigratedManifest(r, manifest) ==
  IF r.frozen THEN Fails(r) ELSE Succeeds([r EXCEPT !.migrated = {manifest}])

\* export_manifest: the tables in the order in which the map yields them.
ExportManifest(r, version, order) ==
  [version |-> version, relations |-> r.graph.edges, mods |-> r.mods,
   tables |-> [i \in DOMAIN order |-> [name |-> order[i], spec |-> r.tables[order[i]]]]]

RegisterEach(r, tables) == Each(LAMBDA reg, t : Register(reg, t.name, t.spec), r, tables)

\* Mutant: the relations first.
LoadFromManifestRelationsFirst(r, m) ==
  IF r.frozen THEN Fails(r)
  ELSE LET start == [r EXCEPT !.migrated = {m}, !.mods = m.mods]
           related == Each(AddRelation, start, m.relations)
       IN  IF ~related.ok THEN related
           ELSE RegisterEach(related.it, m.tables)

LoadFromManifest(r, m) ==
  IF r.frozen THEN Fails(r)
  ELSE LET start == [r EXCEPT !.migrated = {m}, !.mods = m.mods]
           tabled == RegisterEach(start, m.tables)
           related == IF tabled.ok THEN Each(AddRelation, tabled.it, m.relations) ELSE tabled
       IN  IF related.ok /\ DetectCycles(related.it.graph, AnyOrder(related.it.graph)) # <<>>
             THEN Fails(related.it) ELSE related

-----------------------------------------------------------------------------
(* Reference definitions and what the algorithms must agree with.          *)

\* Some tables to each of which a relation leads from one of them.
Cyclic(edges) ==
  \E T \in SUBSET {edges[i].to : i \in DOMAIN edges} :
    T # {} /\ \A t \in T : \E i \in DOMAIN edges : edges[i].to = t /\ edges[i].from \in T

IsCycle(edges, path) ==
  /\ path # <<>>
  /\ \A i \in DOMAIN path :
       \E k \in DOMAIN edges :
         edges[k].from = path[i] /\ edges[k].to = path[IF i = Len(path) THEN 1 ELSE i + 1]

\* A spec built column by column is the one that is read back from its columns;
\* it is refused exactly when two columns have one name, which the reading is not.
SpecsIndexed(columnLists) ==
  \A columns \in columnLists :
    LET built == Each(WithColumn, NewSpec("Authority"), columns)
        distinct == \A i, j \in DOMAIN columns : columns[i].name = columns[j].name => i = j
    IN  /\ built.ok <=> distinct
        /\ distinct => built.it = Deserialized(columns, "Authority")

\* The depth-first walk reports real cycles, and reports one exactly when the
\* graph has one, from whichever table it starts.
CycleDetectionExact(graphs) ==
  \A edges \in graphs :
    LET g == RebuildAdjacency(edges) IN
      \A order \in SetToSeqs(GraphTables(g)) :
        LET cycles == DetectCycles(g, order) IN
          /\ (cycles = <<>>) <=> ~Cyclic(edges)
          /\ \A i \in DOMAIN cycles : IsCycle(edges, cycles[i])
=============================================================================
