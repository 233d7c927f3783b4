SPECIFICATION BridgeSpec
CONSTANTS
  MaxTick = 2
  MaxPush = 3
  Row = {1, 2}
  Systems = {s1, s2}
  Configs <- MCConfigs
  Watched = {1, 2}
  MaxEntity = 3
  Scenarios <- MCScenarios
INVARIANTS DeliveredOnce EntitiesMatchRegistry ViewFollowsCommit MarksNotLost
PROPERTY ViewNeverOlder
CHECK_DEADLOCK FALSE
