CONSTANTS
  Process = {p1, p2, p3}
  Inode = {1, 2, 3, 4, 5, 6}
  MaxSections = 1
  MaxTokens = 2
  MaxBeats = 0
  MaxFaults = 0
  Stale = 1
  Grace = 2
SYMMETRY Interchangeable
SPECIFICATION Spec
INVARIANTS
  MutualExclusion
CHECK_DEADLOCK FALSE
