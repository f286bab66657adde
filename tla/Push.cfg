CONSTANTS
  c1 = c1
  c2 = c2
  NONE = NONE
  Threads <- MCThreads
  Configs <- MCConfigs
  FlagIsSet = TRUE
  MaxConnects = 2
  MaxTargets = 3
  BarMax = 2
SPECIFICATION FairPushSpec
INVARIANTS ConnectsTranslated BarStopsLargePushes
PROPERTY EveryPushEnds
CHECK_DEADLOCK FALSE
