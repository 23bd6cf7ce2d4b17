CONSTANTS
  Look = {r1, r2}
  MaxArmed = 4
  LastTick = 2
  MaxEdits = 2
  MaxFailures = 1
SPECIFICATION EventFairSpec
INVARIANTS
  ScheduleIsTheFiles
PROPERTIES
  DueEventsFire
CHECK_DEADLOCK FALSE
