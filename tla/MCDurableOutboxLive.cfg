CONSTANTS
  Worker = {w1, w2}
  NoWorker = NoWorker
  Key = {k1}
  NoKey = NoKey
  Work = {p}
  Handles <- MCHandles
  Marked = {}
  Chunks = 2
  Lease = 2
  RetryBase = 1
  RetryMax = 1
  RetryAfters = {0}
  LateBound = 0
  AttemptCap = 3
  Many = 2
  MaxFaults = 1
SPECIFICATION FairSpec
INVARIANTS
  RepeatsAreExplained
PROPERTIES
  OwedIsSettledUnlessSilent
CHECK_DEADLOCK FALSE
