SPECIFICATION Spec
CONSTANTS
  Kinds = {"raf", "rcf", "cltu"}
  AuthLevels = {"none", "bind"}
  FrameTypes = {"AOSTransFrame"}
  Locks = {"known", "unknown"}
  MaxCalls = 5
  MaxOdd = 1
  MaxConnections = 2
  MaxBuffers = 2
  MaxFaults = 1
INVARIANTS
  TypeOK
  AgreesWhenQuiet
  CltusInSequence
PROPERTIES
  RelaysInOrder
  EventuallyHandled
  AbortEnds
CHECK_DEADLOCK FALSE
