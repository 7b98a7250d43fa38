-------------------------- MODULE ReceivingEntity --------------------------
(***************************************************************************)
(* One transaction of a receiving CFDP entity: the receiving handler,      *)
(* which routes an incoming PDU to the machine, the part of the            *)
(* transaction handler that looks at the inactivity timer, and the user.   *)
(*                                                                         *)
(* The greenlet that reads datagrams and puts their bytes on the incoming  *)
(* queue is merged with the one that takes them from it: the queue is      *)
(* first in, first out and has no bound.                                   *)
(***************************************************************************)
EXTENDS Receiver1

CONSTANTS
  NoFile,       \* there is no file at the destination path
  Text,         \* words whose octets are characters of their own, all below 128
  LengthBase,   \* words the low octet of the length field counts, 64 in the code
  LengthShift   \* words each unit of its high octet is taken for, 4 in the code

VARIABLES
  receiver,            \* the machine
  registered,          \* it is among the entity's machines
  destination,         \* the content of the destination file
  copy_failed,         \* the last copy to the destination was cut short by an error
  handlers,            \* MIB: [condition code -> handler code]
  receiving_handler    \* "Running" or "Killed"

destinationVars == <<destination, copy_failed>>
receiverVars == <<receiver, registered, destinationVars, handlers, receiving_handler>>

FaultConditions ==
  {"FILESTORE_REJECTION", "FILE_SIZE_ERROR", "FILE_CHECKSUM_FAILURE", "INACTIVITY_DETECTED"}

ReceiverInit(settings) ==
  /\ receiver = NewReceiver
  /\ registered = FALSE
  /\ destination = NoFile
  /\ copy_failed = FALSE
  /\ handlers \in settings
  /\ receiving_handler = "Running"

\* The decoded length of a data field of `length` words: Header.to_object shifts the high
\* octet by four bits.
DecodedLength(length) == (length \div LengthBase) * LengthShift + (length % LengthBase)

\* A PDU as it is cut from its datagram. A word of the data field is the segment offset.
\* What is left of the datagram is no PDU that concerns this transaction.
Cut(pdu) ==
  IF pdu.type = "FILE_DATA"
  THEN [pdu EXCEPT !.data = SubSeq(@, 1, Least(Len(@), DecodedLength(1 + Len(@)) - 1))]
  ELSE pdu

\* File data is decoded octet by octet, as if each were a character in UTF-8.
Readable(pdu) == pdu.type = "FILE_DATA" => \A i \in DOMAIN pdu.data : pdu.data[i] \in Text

\* A datagram that cannot be decoded is dropped.
DropPdu(pdu) ==
  /\ ~Readable(pdu)
  /\ UNCHANGED receiverVars

ReceiveMetadata(pdu, opens) ==
  /\ receiving_handler = "Running"
  /\ pdu.type = "METADATA"
  /\ registered' = TRUE
  /\ receiver' = received_metadata(receiver, opens, handlers["FILESTORE_REJECTION"])
  /\ UNCHANGED <<destinationVars, handlers, receiving_handler>>

\* File data and EOFs of a transaction without a machine are ignored.
ReceiveFileData(pdu, opens) ==
  /\ receiving_handler = "Running"
  /\ pdu.type = "FILE_DATA"
  /\ Readable(pdu)
  /\ receiver' = IF registered
                 THEN received_filedata(receiver, pdu, opens, handlers["FILESTORE_REJECTION"])
                 ELSE receiver
  /\ UNCHANGED <<registered, destinationVars, handlers, receiving_handler>>

\* shutil.copy empties the destination and writes to it piece by piece: an error leaves what
\* was written until then, or the old file if the destination could not be opened.
Beginnings(data) == {SubSeq(data, 1, n) : n \in 0 .. Len(data)}

CopyToDestination(data, copies) ==
  /\ destination' \in IF copies THEN {data} ELSE {destination} \cup Beginnings(data)
  /\ copy_failed' = ~copies

ReceiveEofNoError(pdu, copies) ==
  /\ receiving_handler = "Running"
  /\ pdu.type = "EOF"
  /\ pdu.condition_code = "NO_ERROR"
  /\ receiver' = IF registered THEN received_eof_no_error(receiver, pdu, copies, handlers)
                 ELSE receiver
  /\ IF registered /\ SizeAgrees(receiver, pdu) /\ ChecksumAgrees(receiver, pdu)
     THEN CopyToDestination(receiver.temp_data, copies)
     ELSE UNCHANGED destinationVars
  /\ UNCHANGED <<registered, handlers, receiving_handler>>

ReceiveEofCancel(pdu) ==
  /\ receiving_handler = "Running"
  /\ pdu.type = "EOF"
  /\ pdu.condition_code = "CANCEL_REQUEST_RECEIVED"
  /\ receiver' = IF registered THEN received_eof_cancel(receiver) ELSE receiver
  /\ UNCHANGED <<registered, destinationVars, handlers, receiving_handler>>

Receive(pdu, succeeds) ==
  \/ DropPdu(pdu)
  \/ ReceiveMetadata(pdu, succeeds)
  \/ ReceiveFileData(pdu, succeeds)
  \/ ReceiveEofNoError(pdu, succeeds)
  \/ ReceiveEofCancel(pdu)

\* A round of the transaction handler that finds the timer expired.
TimerExpires ==
  /\ registered
  /\ receiver.inactivity_timer = "RUNNING"
  /\ receiver' = inactivity_timer_expired(receiver, handlers["INACTIVITY_DETECTED"])
  /\ UNCHANGED <<registered, destinationVars, handlers, receiving_handler>>

CancelReceipt ==
  /\ registered
  /\ receiver' = receiver_cancel_request(receiver)
  /\ UNCHANGED <<registered, destinationVars, handlers, receiving_handler>>

\* The transaction handler goes on.
StopReceiving ==
  /\ receiving_handler' = "Killed"
  /\ UNCHANGED <<receiver, registered, destinationVars, handlers>>
============================================================================
