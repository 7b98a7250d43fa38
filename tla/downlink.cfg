SPECIFICATION Spec
CONSTANTS
  Configs <- MCConfigs
  Channels = {1, 2}
  ZoneLen = 4
  HeaderLen = 2
  Lengths = {3, 6}
  Garbage = {3, 4}
  MaxFrames = 4
  MaxLosses = 1
PROPERTIES
  StaysInSync
  RegainsSync
CHECK_DEADLOCK FALSE
