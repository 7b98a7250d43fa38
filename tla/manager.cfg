SPECIFICATION Spec
CONSTANTS
  Setups <- SinglesAndPair
  MaxUploads = 2
INVARIANTS
  TypeOK
  UploadsInOrder
  AgreesUnlessFailed
PROPERTIES
  LifecycleEnds
CHECK_DEADLOCK FALSE
