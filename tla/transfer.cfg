SPECIFICATION FairTransferSpec
CONSTANTS
  Files <- MCFiles
  maximum_file_segment_length = 2
  Modulus = 8
  NoFile = NoFile
  Text = {0, 1, 2, 4}
  LengthBase = 4
  LengthShift = 2
  FaultHandlers = {"IGNORE"}
  HandlerCodesUsed = {"CANCEL", "IGNORE", "ABANDON"}
  ReceiverHandlers <- MCReceiverHandlers
  MaxChanges = 0
  MaxQueue = 6
  MaxDuplicates = 1
INVARIANTS
  TransferTypeOK
  SuccessMeansDelivered
PROPERTIES
  DeliversOrNot
  EventuallyDelivered
