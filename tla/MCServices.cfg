SPECIFICATION ServicesSpec
CONSTANTS
  Table = {"a", "b", "c"}
  Spec <- MCSpec
  Edge <- MCEdge
  ModSets <- MCModSets
  Content <- MCContent
  NameSet = {"x", "y"}
  Paths <- MCPaths
  Statements <- MCStatements
  IdColumns = {"row_id", "id", "actor_id"}
  IdLike = {"row_id", "id", "actor_id", "owner_id"}
  Commits <- MCCommits
  Capacity = 2
  MaxI64 = 99
  Budgets <- MCBudgets
INVARIANTS GraphSound ManifestReloads NamesStable TrailsKeepNewest AlgorithmsExact
CHECK_DEADLOCK FALSE
