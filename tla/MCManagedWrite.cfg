CONSTANTS
  Process = {p1, p2}
  Inode = {1, 2, 3, 4, 5}
  MaxSections = 1
  MaxTokens = 2
  MaxBeats = 1
  MaxFaults = 2
  Stale = 1
  Grace = 2
SPECIFICATION FairSpec
INVARIANTS
  TypeOK
  OverlapIsExplained
  SectionKeepsItsLock
PROPERTIES
  WaiterGetsIn
CHECK_DEADLOCK FALSE
