CONSTANTS
  m1 = m1
  m2 = m2
  e1 = e1
  c1 = c1
  c2 = c2
  Message = {m1}
  Event = {e1}
  Conversation = {c1}
  ConvOf <- MCConvOf
  NoTurn = NoTurn
  MaxAttempts = 1
  MaxStarts = 3
  MaxFaults = 1
SPECIFICATION FairSpec
INVARIANTS
  NoMessageIsForgotten
  PoisonIsAbandoned
PROPERTIES
  DeliveredUnlessCircular
  OnlyOverlappedTurnsRepeat
CHECK_DEADLOCK FALSE
