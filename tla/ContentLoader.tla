--------------------------- MODULE ContentLoader ----------------------------
(***************************************************************************)
(* scharnhorst_content: names to ids, mod fingerprints, and                *)
(* the compilation of raw definitions into a store, a registry and a tier  *)
(* registry.  The tiers themselves are in scharnhorst_core/state_tier.rs.  *)
(***************************************************************************)
EXTENDS SchemaRegistry

-----------------------------------------------------------------------------
(* NamespaceResolver: one name table per namespace and one counter for all *)
(* of them.  namespace() hands the counter to the name table; it gets back *)
(* only when the caller runs sync_next_id.                                 *)

EmptyNames == [toId |-> <<>>, toName |-> <<>>, next |-> 0]
NewResolver == [spaces |-> <<>>, next |-> 0]

Put(f, x, y) == [z \in DOMAIN f \cup {x} |-> IF z = x THEN y ELSE f[z]]

\* Mutant: a new namespace counts from its own beginning.
NamespaceOwnCounter(resolver, table) ==
  Put(resolver.spaces, table,
      IF table \in DOMAIN resolver.spaces THEN resolver.spaces[table] ELSE EmptyNames)

Namespace(resolver, table) ==
  Put(resolver.spaces, table,
      [(IF table \in DOMAIN resolver.spaces THEN resolver.spaces[table] ELSE EmptyNames)
         EXCEPT !.next = resolver.next])

RegisterName(names, name) ==
  IF name \in DOMAIN names.toId THEN Fails(names)
  ELSE Succeeds([toId |-> Put(names.toId, name, names.next),
                 toName |-> Put(names.toName, names.next, name), next |-> names.next + 1])

SyncNextId(spaces) == [spaces |-> spaces, next |-> Max({spaces[t].next : t \in DOMAIN spaces} \cup {0})]

\* A name table is ahead of the common counter.
Unsynced(resolver) == \E t \in DOMAIN resolver.spaces : resolver.spaces[t].next > resolver.next

\* namespace(table).register(name): the common counter stays where it is.
RegisterIn(resolver, table, name) ==
  LET spaces == Namespace(resolver, table)
      done == RegisterName(spaces[table], name)
  IN  [ok |-> done.ok,
       it |-> [spaces |-> [spaces EXCEPT ![table] = done.it], next |-> resolver.next]]

ResolveOrAssign(resolver, table, name) ==
  LET spaces == Namespace(resolver, table)
      done == RegisterName(spaces[table], name).it
  IN  [spaces |-> [spaces EXCEPT ![table] = done], next |-> done.next]

Resolve(resolver, table, name) ==
  IF table \in DOMAIN resolver.spaces /\ name \in DOMAIN resolver.spaces[table].toId
    THEN {resolver.spaces[table].toId[name]} ELSE {}

NameOf(resolver, table, id) ==
  IF table \in DOMAIN resolver.spaces /\ id \in DOMAIN resolver.spaces[table].toName
    THEN {resolver.spaces[table].toName[id]} ELSE {}

-----------------------------------------------------------------------------
(* compute_hash, as an injective function of the text that is hashed: the  *)
(* mod, and the columns of the specs it names, sorted by name.  The tier   *)
(* of a table does not enter it.                                           *)

ComputeHash(mod, named) ==
  [id |-> mod.id, version |-> mod.version, names |-> mod.tables,
   specs |-> {[name |-> t.name, columns |-> t.spec.columns] :
                t \in {t \in named : t.name \in mod.tables}}]

-----------------------------------------------------------------------------
(* The compiler.  A raw definition is a table spec and, for the columns    *)
(* it has data for, a number of rows; every cell of it is text.            *)

\* build_batches: no data at all is no batch; otherwise every column of the
\* spec must have data, and all of them as much.
BuildBatches(def) ==
  LET names == {def.spec.columns[i].name : i \in DOMAIN def.spec.columns}
      counts == {def.rows[n] : n \in names \cap DOMAIN def.rows}
  IN  IF def.rows = <<>> THEN Succeeds(<<>>)
      ELSE IF ~(names \subseteq DOMAIN def.rows) \/ Cardinality(counts) # 1 THEN Fails(<<>>)
      ELSE Succeeds(<<CHOOSE n \in counts : TRUE>>)

CompileTable(out, def) ==
  LET registered == Register(out.registry, def.name, def.spec)
      batches == BuildBatches(def)
  IN  IF ~registered.ok \/ def.name \in DOMAIN out.store \/ ~batches.ok THEN Fails(out)
      ELSE Succeeds([out EXCEPT !.registry = registered.it,
                                !.store = Put(@, def.name, batches.it)])

\* What the manifest adds: it may name no table that was not compiled.
WithManifest(out, defs, m) ==
  IF \E i \in DOMAIN m.tables : m.tables[i].name \notin DOMAIN out.registry.tables THEN Fails(out)
  ELSE LET kept == SetMigratedManifest(out.registry, m).it
           related == Each(AddRelation, kept, m.relations)
           graph == related.it.graph
           named == {[name |-> defs[i].name, spec |-> defs[i].spec] : i \in DOMAIN defs}
           mods == {[mod EXCEPT !.hash = ComputeHash(mod, named)] : mod \in m.mods}
       IN  IF ~related.ok \/ DetectCycles(graph, AnyOrder(graph)) # <<>> THEN Fails(out)
           ELSE Succeeds([out EXCEPT !.registry = StoreModFingerprints(related.it, mods).it])

\* TierRegistry::register refuses a second registration.
RegisterTier(out, def) ==
  IF def.spec.tier # "Authority" \/ def.name \in DOMAIN out.tiers THEN Fails(out)
  ELSE Succeeds([out EXCEPT !.tiers = Put(@, def.name, "Authority")])

Compile(defs, manifests) ==
  LET start == [registry |-> NewRegistry, store |-> <<>>, tiers |-> <<>>]
      compiled == Each(CompileTable, start, defs)
      extended == IF compiled.ok /\ manifests # {}
                    THEN WithManifest(compiled.it, defs, CHOOSE m \in manifests : TRUE)
                    ELSE compiled
      tiered == IF extended.ok THEN Each(RegisterTier, extended.it, defs) ELSE extended
  IN  [ok |-> tiered.ok,
       it |-> [tiered.it EXCEPT !.registry = IF tiered.ok THEN Freeze(@) ELSE @]]

-----------------------------------------------------------------------------
\* What compiles is whole: the store, the registry and the tiers know the
\* same tables, all of tier Authority, every relation joins two of them, the
\* registry is frozen, and the order of the definitions does not decide
\* whether they compile.
CompiledWhole(inputs, manifestChoices) ==
  \A S \in inputs, manifests \in manifestChoices :
    LET outs == {Compile(defs, manifests) : defs \in SetToSeqs(S)} IN
      /\ \A out, other \in outs : out.ok = other.ok
      /\ \A out \in outs : out.ok =>
           LET r == out.it.registry IN
             /\ DOMAIN r.tables = DOMAIN out.it.store /\ DOMAIN r.tables = DOMAIN out.it.tiers
             /\ \A n \in DOMAIN r.tables : r.tables[n].tier = "Authority" /\ out.it.tiers[n] = "Authority"
             /\ GraphTables(r.graph) \subseteq DOMAIN r.tables /\ ~Cyclic(r.graph.edges)
             /\ r.frozen
=============================================================================
