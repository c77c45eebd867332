SPECIFICATION FairSpec
CONSTANTS
  Requests <- ThreeRequests
  Mixes <- AlertsAndOneMore
  Channels = 1
  ApiTimeout = 2
  Grace = 2
  None = None
INVARIANT TypeOK
INVARIANT CutsOffOnlyLate
INVARIANT NeverDenied
PROPERTY StopsWhenTold
PROPERTY OthersAnswered
CHECK_DEADLOCK FALSE
