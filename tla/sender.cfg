SPECIFICATION FairSpec
CONSTANTS
  Files <- MCFiles
  maximum_file_segment_length = 2
  Modulus <- MCModulus
  FaultHandlers = {"CANCEL", "SUSPEND", "IGNORE", "ABANDON"}
  MaxChanges = 1
  MaxQueue = 6
INVARIANTS
  TypeOK
  WireOrder
  EofAfterWholeFile
  EofDescribesData
  Agreement
PROPERTIES
  SuspendedIsSilent
  NoDataAfterCancel
  FinishedIsFinal
  EventuallyFinished
  EventuallySent
