SPECIFICATION FairSpec
CONSTANTS
  Files <- OneCore
  CoreSize = 1
  MaxGen = 1
  Dirs <- MCDirs
  Root = "root"
  Parent <- MCParent
  NoPath = "none"
  QueueLimit = 4
  AddMayFail = TRUE
  StallPossible = FALSE
  Disposal <- BothDisposals
  Disturbances <- AllDisturbances
  MaxChurn = 2
  MaxCrashes = 1
INVARIANT TypeOK
INVARIANT AtMostOnceCaptured
INVARIANT HeardDirCovered
PROPERTY HeardDirWatched
PROPERTY HeardCoreCaptured
CHECK_DEADLOCK FALSE
