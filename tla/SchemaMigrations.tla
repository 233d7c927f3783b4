--------------------------- MODULE SchemaMigrations -------------------------
(***************************************************************************)
(* The search for a migration path between schema versions and what the    *)
(* path does to a manifest (scharnhorst_schema/src/migration.rs).          *)
(***************************************************************************)
EXTENDS SchemaRegistry

(* Migrations between versions, in the order in which they were registered. *)

\* find_migration_path appends what it finds to the queue.
SearchStep(queue, found) == Tail(queue) \o found

RECURSIVE Search(_, _, _, _)
Search(migrations, queue, visited, target) ==
  IF queue = <<>> THEN {}
  ELSE LET head == Head(queue)
           onward == SelectSeq(migrations, LAMBDA m : m.from = head.version)
           found == [k \in DOMAIN onward |->
                       [version |-> onward[k].to, path |-> Append(head.path, onward[k])]]
       IN  IF head.version = target THEN {head.path}
           ELSE IF head.version \in visited THEN Search(migrations, Tail(queue), visited, target)
           ELSE Search(migrations, SearchStep(queue, found), visited \cup {head.version}, target)

FindMigrationPath(migrations, from, target) ==
  Search(migrations, <<[version |-> from, path |-> <<>>]>>, {}, target)

\* MigratedSchemaManifest
Migrated(manifest, original, applied) ==
  [manifest |-> manifest, original |-> original, applied |-> applied]

\* Migration::apply: it checks the version it starts from, may fail, and sets
\* the version itself, whatever its function left there.
ApplyMigration(m, migration) ==
  IF m.manifest.version # migration.from \/ ~migration.works THEN Fails(m)
  ELSE Succeeds([m EXCEPT !.manifest.version = migration.to, !.applied = Append(@, migration)])

ApplyMigrations(migrations, manifest, target) ==
  LET paths == FindMigrationPath(migrations, manifest.version, target)
      start == Migrated(manifest, manifest.version, <<>>)
  IN  IF paths = {} THEN Fails(start)
      ELSE Each(ApplyMigration, start, CHOOSE path \in paths : TRUE)

-----------------------------------------------------------------------------
\* The path found leads from the one version to the other, no chain of
\* migrations is shorter, and there is a path whenever there is a chain.
\* A manifest that was migrated has the version asked for and names, in order,
\* what was applied; one migration that fails, fails the whole, and no other
\* chain is tried.
MigrationPathShortest(registries, versions) ==
  \A migrations \in registries, from \in versions, target \in versions :
    LET paths == FindMigrationPath(migrations, from, target)
        Chain(p) == /\ p # <<>> => p[1].from = from /\ Last(p).to = target
                    /\ p = <<>> => from = target
                    /\ \A i \in 1 .. Len(p) - 1 : p[i].to = p[i + 1].from
        chains == {p \in UNION {[1 .. n -> {migrations[i] : i \in DOMAIN migrations}] :
                                  n \in 0 .. Cardinality(versions)} : Chain(p)}
    IN  /\ (paths = {}) <=> (chains = {})
        /\ \A p \in paths : Chain(p) /\ \A c \in chains : Len(p) <= Len(c)
        /\ LET result == ApplyMigrations(migrations, [version |-> from], target) IN
             /\ result.ok <=> \E p \in paths : \A i \in DOMAIN p : p[i].works
             /\ result.ok => /\ result.it.manifest.version = target /\ result.it.original = from
                             /\ Chain(result.it.applied)
=============================================================================
