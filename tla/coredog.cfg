SPECIFICATION FairSpec
CONSTANTS
  Files <- TwoCores
  CoreSize = 1
  MaxGen = 1
  Dirs <- MCDirs
  Root = "root"
  Parent <- MCParent
  NoPath = "none"
  QueueLimit = 3
  AddMayFail = FALSE
  StallPossible = FALSE
  Disposal <- BothDisposals
  Disturbances <- RemovedCores
  MaxChurn = 1
  MaxCrashes = 1
  Keys <- MCKeys
  KeyOf <- MCKeyOf
  Channels <- MCChannels
  Configs <- TwoConfigs
  Resolved <- KnownPods
  None = None
INVARIANT TypeOK
PROPERTY ArrivesOnceComplete
PROPERTY KeepsPromise
PROPERTY HeardCoreServed
CHECK_DEADLOCK FALSE
