SPECIFICATION FairSpec
CONSTANTS
  Files <- TwoCores
  CoreSize = 1
  MaxGen = 1
  Keys <- OwnKeys
  KeyOf <- OwnKeyOf
  Channels <- MCChannels
  Configs <- AllConfigs
  Resolved <- AllPods
  None = None
  StallPossible = FALSE
  Redelivered = FALSE
  MaxPurges = 1
  MaxCrashes = 1
INVARIANT TypeOK
INVARIANT PublishedUrlsHold
PROPERTY DeletesOnlyStored
 
PROPERTY PassEnds
CHECK_DEADLOCK FALSE
