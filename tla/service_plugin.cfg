SPECIFICATION Spec
CONSTANTS
  Kinds = {"cltu"}
  AuthLevels = {"none"}
  FrameTypes = {"TMTransFrame"}
  Locks = {"known"}
  MaxCalls = 4
  MaxOdd = 0
  MaxConnections = 1
  MaxBuffers = 0
  MaxFaults = 0
PROPERTIES
  PluginUploads
CHECK_DEADLOCK FALSE
