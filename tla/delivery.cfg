SPECIFICATION FairSpec
CONSTANTS
  Timeouts <- SomeTimeouts
  DefaultTimeout = 2
  Channels = 2
  MaxPasses = 3
  MaxChildren = 2
  MaxCrashes = 1
  None = None
INVARIANT TypeOK
INVARIANT ScriptThere
INVARIANT QuietReturn
INVARIANT KilledOnlyLate
INVARIANT ReportedIsKept
INVARIANT OneEventPerPass
PROPERTY PassReturns
CHECK_DEADLOCK FALSE
