SPECIFICATION FairSpec
CONSTANTS
  Modulo = 9
  RESET_FUZZY_DELTA = 2
  Gaps = {0, 2, 3}
  FirstCounts = {0, 4}
  Window = 2
  MaxPackets = 8
  MaxLosses = 2
  MaxDuplicates = 1
  MaxRestarts = 1
INVARIANTS
  TypeOK
  EmittedInOrder
  NoGapAllowed
  QueueBounded
  WaitingHavePackets
PROPERTIES
  ResetPurges
  EventuallyIdle
  NoneWaitsForever
CHECK_DEADLOCK FALSE
