--------------------------- MODULE SendingEntity ---------------------------
(***************************************************************************)
(* One transaction of a sending CFDP entity: the user's requests, the      *)
(* sender's state machine, and the two greenlets that serve it.  Greenlets *)
(* switch only where they sleep or wait for a socket, so a request and one *)
(* round of a greenlet's loop are single steps, and they interleave freely.*)
(*                                                                         *)
(* The outgoing PDU queue is kept whole, with the number of PDUs already   *)
(* taken from it and sent; this is what lets properties speak about the    *)
(* order of the PDUs on the wire.                                          *)
(***************************************************************************)
EXTENDS Sender1

CONSTANTS
  FaultHandlers,  \* settings of the MIB's handler for FILESTORE_REJECTION
  MaxChanges,     \* how often another program may rewrite the source file
  MaxQueue        \* bound on the length of the outgoing queue

ASSUME FaultHandlersAssumption == FaultHandlers \subseteq HandlerCodes
ASSUME BoundsAssumption == MaxChanges \in Nat /\ MaxQueue \in Nat

VARIABLES
  sender,           \* the machine, registered once put_request_received
  source,           \* the source file on disk
  changes,          \* how often it was rewritten after the Put request
  opened,           \* the Put request could open it
  handler,          \* MIB setting
  outgoing,         \* outgoing_pdu_queue, PDUs already sent included
  transmitted,      \* how many of them were sent
  socket,           \* "None", "Open" or "Closed"
  sending_handler   \* the sending greenlet: "Running", "Killed" or "Dead"

kernelVars == <<outgoing, transmitted, socket, sending_handler>>
fileVars == <<source, changes, opened, handler>>
vars == <<sender, kernelVars, fileVars>>

Init ==
  /\ sender = NewSender
  /\ source \in Files
  /\ changes = 0
  /\ opened = FALSE
  /\ handler \in FaultHandlers
  /\ outgoing = <<>>
  /\ transmitted = 0
  /\ socket = "None"
  /\ sending_handler = "Running"

----------------------------------------------------------------------------
(* Requests of the user. *)

\* With a host to send to; without one the sending socket stays as it is. Connecting again
\* does not bring back a sending handler.
Connect ==
  /\ socket # "Open"
  /\ socket' = "Open"
  /\ UNCHANGED <<sender, fileVars, outgoing, transmitted, sending_handler>>

\* The transaction handler is not killed.
Disconnect ==
  /\ socket' = IF socket = "Open" THEN "Closed" ELSE socket
  /\ sending_handler' = IF sending_handler = "Running" THEN "Killed" ELSE sending_handler
  /\ UNCHANGED <<sender, fileVars, outgoing, transmitted>>

Put(opens) ==
  /\ ~sender.put_request_received
  /\ sender' = put_request(sender, source, opens, handler)
  /\ opened' = opens
  /\ UNCHANGED <<source, changes, handler, kernelVars>>

Cancel ==
  /\ sender.put_request_received
  /\ sender' = cancel_request(sender)
  /\ UNCHANGED <<fileVars, kernelVars>>

Suspend ==
  /\ sender.put_request_received
  /\ sender' = suspend_request(sender)
  /\ UNCHANGED <<fileVars, kernelVars>>

Resume ==
  /\ sender.put_request_received
  /\ sender' = resume_request(sender)
  /\ UNCHANGED <<fileVars, kernelVars>>

----------------------------------------------------------------------------
(* The greenlets and the file's owner. *)

\* One cycle: the first loop lets a directive go, the second file data.
TransactionHandler ==
  LET directive == send_file_directive(sender)
      data == send_file_data(directive.machine, source, handler)
  IN  /\ sender.put_request_received
      /\ Len(outgoing) + 2 <= MaxQueue
      /\ sender' = data.machine
      /\ outgoing' = outgoing \o directive.pdus \o data.pdus
      /\ UNCHANGED <<fileVars, transmitted, socket, sending_handler>>

\* As it would be if it left the last PDU in the queue.
SendToSocketKeepsLast(accepted) ==
  LET pdu == outgoing[transmitted + 1]
      sent == accepted /\ Encodable(pdu) /\ socket = "Open"
  IN  /\ sending_handler = "Running"
      /\ transmitted + 1 < Len(outgoing)
      /\ transmitted' = IF sent THEN transmitted + 1 ELSE transmitted
      /\ sending_handler' = IF sent THEN "Running" ELSE "Dead"
      /\ UNCHANGED <<sender, fileVars, outgoing, socket>>

\* The handler dies of any exception, because it reports an attribute of it that
\* does not exist: of a PDU it cannot encode, without a socket, or when the socket
\* does not accept the datagram. The PDU is lost with it.
SendToSocket(accepted) ==
  LET pdu == outgoing[transmitted + 1]
      sent == accepted /\ Encodable(pdu) /\ socket = "Open"
  IN  /\ sending_handler = "Running"
      /\ transmitted < Len(outgoing)
      /\ transmitted' = IF sent THEN transmitted + 1 ELSE transmitted
      /\ sending_handler' = IF sent THEN "Running" ELSE "Dead"
      /\ UNCHANGED <<sender, fileVars, outgoing, socket>>

SourceChanges ==
  /\ sender.put_request_received
  /\ changes < MaxChanges
  /\ changes' = changes + 1
  /\ source' \in Files \ {source}
  /\ UNCHANGED <<sender, opened, handler, kernelVars>>

Next ==
  \/ Connect
  \/ Disconnect
  \/ \E opens \in BOOLEAN : Put(opens)
  \/ Cancel
  \/ Suspend
  \/ Resume
  \/ TransactionHandler
  \/ \E accepted \in BOOLEAN : SendToSocket(accepted)
  \/ SourceChanges

Spec == Init /\ [][Next]_vars

\* The greenlets loop for ever, at most 0.2 seconds between rounds.
Fairness == WF_vars(TransactionHandler) /\ WF_vars(\E accepted \in BOOLEAN : SendToSocket(accepted))

FairSpec == Spec /\ Fairness
----------------------------------------------------------------------------
(* Properties. *)

TypeOK ==
  /\ sender \in MachineType(Checksums)
  /\ sender.role = "CLASS_1_SENDER"
  /\ sender.inactivity_timer = "None" /\ sender.temp_file = "None"
  /\ source \in Files
  /\ changes \in 0 .. MaxChanges
  /\ opened \in BOOLEAN
  /\ handler \in FaultHandlers
  /\ outgoing \in Seq(Pdu)
  /\ transmitted \in 0 .. Len(outgoing)
  /\ socket \in {"None", "Open", "Closed"}
  /\ sending_handler \in {"Running", "Killed", "Dead"}

\* How far the file data just before the i-th PDU of a queue q reaches into the file.
SentUpTo(q, i) ==
  IF i > 1 /\ q[i - 1].type = "FILE_DATA"
  THEN q[i - 1].segment_offset + Len(q[i - 1].data)
  ELSE 0

\* The place of the i-th PDU of a queue: metadata first, file data where the file data
\* before it ends, an EOF last.
InOrder(q, i) ==
  /\ q[i].type = "METADATA" => i = 1
  /\ q[i].type = "FILE_DATA" =>
       /\ i > 1
       /\ q[i - 1].type \in {"METADATA", "FILE_DATA"}
       /\ q[i].segment_offset = SentUpTo(q, i)
  /\ q[i].type = "EOF" => i = Len(q)

\* The transaction of machine m neither was cancelled or abandoned nor lacks its file.
Undisturbed(m, has_file) == has_file /\ ~m.cancelled /\ ~m.abandoned

\* An EOF in the i-th place that reports success follows the whole file.
EofComplete(q, i) ==
  q[i].type = "EOF" /\ q[i].condition_code = "NO_ERROR" => SentUpTo(q, i) = q[i].file_size

\* What leaves the entity is the metadata first and at most once, then file data without
\* gap, overlap or repetition, then at most one EOF and nothing after it - whatever the
\* user requests, whatever fails, and however the two greenlets interleave.
WireOrder == \A i \in 1 .. transmitted : InOrder(outgoing, i)

\* A transaction that was neither cancelled nor abandoned, on a file that could be opened,
\* sends its NO_ERROR EOF only when file data up to the announced size preceded it.
EofAfterWholeFile ==
  Undisturbed(sender, opened) => \A i \in 1 .. transmitted : EofComplete(outgoing, i)

\* The size and the checksum such an EOF carries are those of the file data the receiver
\* can put together from the PDUs before it, unless the file was rewritten meanwhile.
EofDescribesData ==
  \A i \in 1 .. transmitted :
    /\ outgoing[i].type = "EOF"
    /\ outgoing[i].condition_code = "NO_ERROR"
    /\ Undisturbed(sender, opened) /\ changes = 0
    => LET data == FileDataOf(SubSeq(outgoing, 1, i))
       IN  /\ Len(data) = outgoing[i].file_size
           /\ calc_checksum(data) = outgoing[i].file_checksum

\* While a transaction is suspended no PDU of it is queued, the EOF that tells the partner
\* of a cancellation included.
SuspendedIsSilent == [][sender.suspended => UNCHANGED outgoing]_vars

\* Once a transaction is cancelled, by the user or by a fault, no more file data is queued.
NoDataAfterCancel ==
  [][sender.cancelled =>
       \A i \in Len(outgoing) + 1 .. Len(outgoing') : outgoing'[i].type # "FILE_DATA"]_vars

\* A transaction that finished by sending its EOF stays as it is: no request and no round
\* of the transaction handler changes its status or queues another PDU.
FinishedIsFinal ==
  [][sender.eof_sent => UNCHANGED <<sender, outgoing>>]_vars

\* A Put request leads to the end of the transaction, unless the user or a fault suspends
\* it or another program rewrites the file.
EventuallyFinished ==
  sender.put_request_received ~> sender.finished \/ sender.suspended \/ changes > 0

\* What is queued is sent, unless the sending handler stops.
EventuallySent ==
  transmitted < Len(outgoing) ~> transmitted = Len(outgoing) \/ sending_handler # "Running"

----------------------------------------------------------------------------
(* Why the order on the wire holds: how a machine m and a queue q agree. *)

\* Only PDUs are queued up to the i-th place; what is not a PDU stops the sending handler.
Clean(q, i) == \A k \in 1 .. i : q[k].type # "NO_PDU"

QueueInv(m, q, has_file) ==
  \A i \in 1 .. Len(q) :
    /\ Clean(q, i) => InOrder(q, i) /\ (Undisturbed(m, has_file) => EofComplete(q, i))
    /\ m.state = "S2" => q[i].type # "EOF"

MachineInv(m, q, has_file) ==
  /\ ~m.put_request_received => m = NewSender /\ q = <<>>
  /\ m.put_request_received /\ m.state = "S1" =>
       m.eof_sent /\ m.finished /\ m.file = "None"
  /\ m.eof_sent => m.put_request_received /\ m.state = "S1"
  /\ m.state = "S2" /\ m.is_md_outgoing => q = <<>> /\ m.tell = 0
  /\ m.file = "Open" => m.state = "S2" /\ ~m.cancelled /\ ~m.abandoned
  /\ m.state = "S2" /\ Undisturbed(m, has_file) => m.file = "Open"
  /\ m.file = "Open" /\ m.is_oef_outgoing => m.tell = m.file_size /\ ~m.is_md_outgoing

\* With the file open and the metadata queued, the queue ends where the file is read next.
PositionInv(m, q) ==
  m.file = "Open" /\ ~m.is_md_outgoing /\ Clean(q, Len(q)) =>
    /\ q # <<>>
    /\ q[Len(q)].type \in {"METADATA", "FILE_DATA"}
    /\ SentUpTo(q, Len(q) + 1) = m.tell

Agree(m, q, has_file) ==
  QueueInv(m, q, has_file) /\ MachineInv(m, q, has_file) /\ PositionInv(m, q)

Agreement == Clean(outgoing, transmitted) /\ Agree(sender, outgoing, opened)
============================================================================
