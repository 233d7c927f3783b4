SPECIFICATION RuleSpec
CONSTANTS
  Bits = 9
  World <- MCWorld
  Edges <- MCEdges
  PrimaryKey <- MCPrimaryKey
  Root <- MCRoot
  Programs <- MCPrograms
  Bonus <- MCBonus
  Requests <- MCRequests
  EvaluateExpr <- Evaluate
  EvalValueToJson <- ToJson
  Sample <- MCSample
  Leaves <- MCLeaves
  Chains <- MCChains
  Capacity = 2
  MaxTick = 2
  MaxAccess = 4
  MaxDepth = 1
  MaxPending = 2
  MaxBonus = 1
INVARIANTS CacheOfOneTick KeepsMostRecent RuleLaws
PROPERTY ErrorScopeUndoable
