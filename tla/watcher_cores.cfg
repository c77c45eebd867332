SPECIFICATION Spec
CONSTANTS
  Files <- OneCore
  CoreSize = 2
  MaxGen = 2
  Dirs <- FlatDirs
  Root = "root"
  Parent <- FlatParent
  NoPath = "none"
  QueueLimit = 3
  AddMayFail = TRUE
  StallPossible = TRUE
  Disposal <- BothDisposals
  Disturbances <- RemovalOnly
  MaxChurn = 2
  MaxCrashes = 1
INVARIANT HeardCoreCovered
CHECK_DEADLOCK FALSE
