SPECIFICATION Spec
CONSTANTS
  Setups <- PairWithoutFaults
  MaxUploads = 0
INVARIANTS
  TracksStates
CHECK_DEADLOCK FALSE
