CONSTANTS
  ta = ta  tb = tb  ghost = ghost  v1 = v1  v2 = v2  c1 = c1
  RowId = {1, 2}
  Value = {v1, v2}
  Null = Null
  Bad = Bad
  MaxTick = 2
  Table <- MCTable
  TableName <- MCTableName
  DiffInput <- MCInserts
  Command = {c1}
  MaxHistory = 1
  Threshold = 1000
  MaxDiffs = 1
  MaxCommands = 1
  MaxAttempts = 2
SPECIFICATION Spec
INVARIANT LookupFindsRow
