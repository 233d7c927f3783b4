CONSTANTS
  ta = ta  tb = tb  ghost = ghost  v1 = v1  v2 = v2  c1 = c1
  RowId = {1, 2}
  Value = {v1, v2}
  Null = Null
  Bad = Bad
  MaxTick = 2
  Table <- MCTable
  TableName <- MCTableName
  DiffInput <- MCDiffs
  Command = {c1}
  MaxHistory = 1
  Threshold = 2
  MaxDiffs = 2
  MaxCommands = 1
  MaxAttempts = 3
SPECIFICATION FairSpec
INVARIANTS HistoryConsecutive PublishedIsLastCommit BatchesAtLastCommit SaveJournalCoversHistory IngestNeverRefused
PROPERTIES ImplementsAtomicJournal CommitTerminates
