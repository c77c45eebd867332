SPECIFICATION Spec
CONSTANTS
  Files <- OneCore
  CoreSize = 1
  MaxGen = 1
  Dirs <- FlatDirs
  Root = "root"
  Parent <- FlatParent
  NoPath = "none"
  QueueLimit = 10
  AddMayFail = FALSE
  StallPossible = FALSE
  Disposal <- BothDisposals
  Disturbances <- AllDisturbances
  MaxChurn = 0
  MaxCrashes = 0
INVARIANT EveryCoreCollected
CHECK_DEADLOCK FALSE
