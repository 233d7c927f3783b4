CONSTANTS
  ta = ta  tb = tb  v1 = v1  v2 = v2  r1 = r1
  RowId = {1}
  Value = {v1, v2}
  Null = Null
  Bad = Bad
  MaxTick = 3
  Table <- MCTable
  TableName <- MCTable
  DiffInput <- MCDiffs
  Command = {}
  Reader = {r1}
  MaxHistory = 2
  Threshold = 2
  MaxDiffs = 1
  MaxCommands = 0
  MaxAttempts = 4
SPECIFICATION ReadSpec
INVARIANTS UniformResponse NoStaleRead ReadsAreCommitted
