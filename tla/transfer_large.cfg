SPECIFICATION FairTransferSpec
CONSTANTS
  Files <- MCFiles
  maximum_file_segment_length = 2
  Modulus = 8
  NoFile = NoFile
  Text = {0, 1, 2, 4}
  LengthBase = 3
  LengthShift = 2
  FaultHandlers = {"IGNORE"}
  HandlerCodesUsed = {"IGNORE"}
  ReceiverHandlers <- MCReceiverHandlers
  MaxChanges = 0
  MaxQueue = 6
  MaxDuplicates = 1
PROPERTY
  EventuallyDelivered
