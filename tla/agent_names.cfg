SPECIFICATION Spec
CONSTANTS
  Files <- TwoCores
  CoreSize = 1
  MaxGen = 1
  Keys <- OneKey
  KeyOf <- OneKeyOf
  Channels <- MCChannels
  Configs <- HandlerConfigs
  Resolved <- AllPods
  None = None
  StallPossible = FALSE
  Redelivered = FALSE
  MaxPurges = 0
  MaxCrashes = 0
INVARIANT PublishedUrlsHold
CHECK_DEADLOCK FALSE
