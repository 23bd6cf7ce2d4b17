CONSTANTS
  i1 = i1
  i2 = i2
  h1 = h1
  p1 = p1
  p2 = p2
  t1 = t1
  Request = {i1, i2, h1, p1, p2, t1}
  Kind <- MCKind
  Identity <- MCIdentity
  Hangs = {h1}
  MaxConcurrent = 2
  MaxQueued = 3
  MaxQueuedPerIdentity = 2
  Burst = 2
SPECIFICATION FairSpec
INVARIANTS
  LimitsHold
  WorkConserving
  BoundedBypass
PROPERTIES
  InteractiveAndPassiveServed
  ShutdownEnds
CHECK_DEADLOCK FALSE
