CONSTANTS
  Process = {p1, p2}
  Trigger = {t1, t2}
  ThreadOf <- OneThread
  ProcessExisting = FALSE
  Stale = 3
  Renewal = 1
  Safety = 1
  MaxProcessed = 1
  MaxOpen = 1
  MaxStarts = 2
  MaxFaults = 1
SPECIFICATION FairSpec
INVARIANTS
  TypeOK
  LeaseIsOwned
  TurnsOverlapOnlyWhenOverrun
  RepeatsAreExplained
PROPERTIES
  OnlyTheHolderSettles
  ProcessedUnlessLost
CHECK_DEADLOCK FALSE
