CONSTANTS
  Worker = {w1, w2}
  NoWorker = NoWorker
  Key = {k1}
  NoKey = NoKey
  Work = {p, q}
  Handles <- MCHandles
  Marked = {k1}
  Chunks = 2
  Lease = 2
  RetryBase = 1
  RetryMax = 2
  RetryAfters = {0, 2}
  LateBound = 0
  AttemptCap = 3
  Many = 2
  MaxFaults = 2
SYMMETRY Interchangeable
SPECIFICATION Spec
INVARIANTS
  TypeOK
  ConfirmedLeaseIsOwned
  NothingReportedUnsent
  MarkedPostedOnce
PROPERTIES
  OnlyTheOwnerSettles
  ImplementsDelivery
CHECK_DEADLOCK FALSE
