CONSTANTS
  ta = ta  tb = tb  tc = tc  base = base  extra = extra
  MaxTick = 3
  MaxRecords = 4
  MaxSnapshots = 2
  MaxTorn = 1
  Threshold = 2
  HashMod = 256
  RecordHash <- MCRecordHash
  TargetVersion = 2
  Pipeline <- MCPipeline
  Critical <- MCCritical
  Derived <- MCDerived
  NoManifest = NoManifest
  Manifests <- MCManifests
  ModSets <- MCModSets
  StopsOnError = TRUE
  MaySkip = TRUE
SPECIFICATION Spec
INVARIANTS Recoverable ManagerLatestReadable LoadIsComplete
           CleanReplayMatchesLive
PROPERTY RecoveryPointMonotone
