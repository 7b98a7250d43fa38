SPECIFICATION FairSpec
CONSTANTS
  Modulo = 9
  RESET_FUZZY_DELTA = 2
  Gaps = {2}
  FirstCounts = {4}
  Window = 1
  MaxPackets = 6
  MaxLosses = 0
  MaxDuplicates = 0
  MaxRestarts = 0
INVARIANT SurvivesRollover
CHECK_DEADLOCK FALSE
