CONSTANTS
  Hand = {h1}
  Reload = {r1, r2}
  Horizon = 2
  Snooze = 2
  Cycle = 2
  Window = 2
  MaxFires = 1
  MaxChanges = 1
  MaxFaults = 2
SPECIFICATION FairSpec
INVARIANTS
  FiresAreLimited
  LiveMessagesAreTracked
PROPERTIES
  DueReminderFires
CHECK_DEADLOCK FALSE
