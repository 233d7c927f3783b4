SPECIFICATION StoreSpec
CONSTANTS
  v = v
  Null = Null
  Bad = Bad
  RowId = {0, 1}
  Value = {v}
  MaxTick = 1
  Wide = 6
  Narrow = 3
  Mantissa = 4
  Name = {"a", "b"}
  Region = {"north"}
  BatchInput <- MCBatches
  DiffLists <- MCDiffs
  CustomTypes <- MCTypes
  Modes = {"AppendOnly"}
  MaxTables = 2
  MaxData = 2
  MaxChores = 1
  MaxSnapshots = 2
  MaxWrites = 2
  MaxRestarts = 1
INVARIANTS CatalogConsistent IndexLayersAgree CheckpointRestores CellsExact RowsReachable
CHECK_DEADLOCK FALSE
