SPECIFICATION Spec
CONSTANTS
  FrameModulo = 8
  HISTORY_MAX = 2
  HISTORY_RATIO_CLEANUP = 50
  QueueLength = 2
  FirstCount = 5
  Spans = TRUE
  Window = 4
  MaxFrames = 5
  MaxLosses = 2
INVARIANTS
  TypeOK
  JoinedAreWhole
  NoPairMissed
  HistoryAgrees
CHECK_DEADLOCK FALSE
