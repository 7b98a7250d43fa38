SPECIFICATION Spec
CONSTANTS
  Params <- MCParams
  Commands <- MCCommands
  LengthBits = 5
  MaxCommands = 2
INVARIANTS
  CommandsSurvive
  BlocksAreCodewords
CHECK_DEADLOCK FALSE
