---------------------------- MODULE FileTransfer ----------------------------
(***************************************************************************)
(* One file transfer from a sending entity to a receiving entity over UDP: *)
(* both components and the datagrams between them, which the network may   *)
(* lose, duplicate and deliver out of order: a datagram that is lost is    *)
(* one that is never delivered. The source file does not change meanwhile  *)
(* (SendingEntity covers that).                                            *)
(***************************************************************************)
EXTENDS SendingEntity, ReceivingEntity

CONSTANTS
  ReceiverHandlers,   \* settings of the receiver's MIB
  MaxDuplicates       \* how often the network may duplicate a datagram

ASSUME LengthAssumption == LengthBase \in Nat \ {0} /\ LengthShift \in Nat \ {0, 1}
ASSUME ReceiverHandlersAssumption == ReceiverHandlers \subseteq [FaultConditions -> HandlerCodes]
ASSUME MaxDuplicatesAssumption == MaxDuplicates \in Nat
ASSUME NoFileAssumption == NoFile \notin Files

VARIABLES
  net,          \* datagrams in flight, in the order they were sent
  adverse,      \* the network and the receiver's file system may fail
  duplicates    \* how many datagrams may still be duplicated

netVars == <<net, adverse, duplicates>>
senderVars == <<sender, kernelVars, fileVars>>
transferVars == <<senderVars, receiverVars, netVars>>

Without(seq, i) == SubSeq(seq, 1, i - 1) \o SubSeq(seq, i + 1, Len(seq))

TransferInit ==
  /\ Init
  /\ ReceiverInit(ReceiverHandlers)
  /\ net = <<>>
  /\ adverse \in BOOLEAN
  /\ duplicates = IF adverse THEN MaxDuplicates ELSE 0

\* The sending user.
RequestOfSender ==
  /\ \/ Connect
     \/ Disconnect
     \/ \E opens \in BOOLEAN : Put(opens)
     \/ Cancel
     \/ Suspend
     \/ Resume
  /\ UNCHANGED <<receiverVars, netVars>>

QueuePdus == TransactionHandler /\ UNCHANGED <<receiverVars, netVars>>

Send(accepted) ==
  /\ accepted \/ adverse
  /\ SendToSocket(accepted)
  /\ net' = IF transmitted' > transmitted THEN Append(net, outgoing[transmitted']) ELSE net
  /\ UNCHANGED <<receiverVars, adverse, duplicates>>

Deliver(i, succeeds) ==
  /\ (i = 1 /\ succeeds) \/ adverse
  /\ Receive(Cut(net[i]), succeeds)
  /\ net' = Without(net, i)
  /\ UNCHANGED <<senderVars, adverse, duplicates>>

Duplicate(i) ==
  /\ duplicates > 0
  /\ duplicates' = duplicates - 1
  /\ net' = Append(net, net[i])
  /\ UNCHANGED <<senderVars, receiverVars, adverse>>

\* The receiving user and timer.
ReceiverOnItsOwn ==
  /\ TimerExpires \/ CancelReceipt \/ StopReceiving
  /\ UNCHANGED <<senderVars, netVars>>

TransferNext ==
  \/ RequestOfSender
  \/ QueuePdus
  \/ \E accepted \in BOOLEAN : Send(accepted)
  \/ \E i \in DOMAIN net, succeeds \in BOOLEAN : Deliver(i, succeeds)
  \/ \E i \in DOMAIN net : Duplicate(i)
  \/ ReceiverOnItsOwn

TransferSpec == TransferInit /\ [][TransferNext]_transferVars

\* Greenlets loop for ever; a network that does not fail delivers.
TransferFairness ==
  /\ WF_transferVars(QueuePdus)
  /\ WF_transferVars(Send(TRUE))
  /\ WF_transferVars(\E i \in DOMAIN net : Deliver(i, TRUE))

FairTransferSpec == TransferSpec /\ TransferFairness

----------------------------------------------------------------------------
(* Properties. *)

TransferTypeOK ==
  /\ TypeOK
  /\ receiver.state \in {"S1", "S2"}
  /\ receiver.role = "UNDEFINED"
  /\ receiver.temp_file \in {"None", "Open", "Closed"}
  /\ receiver.inactivity_timer \in {"OFF", "RUNNING"}
  /\ receiver.recv_file_size \in Nat
  /\ registered \in BOOLEAN
  /\ destination \in Seq(Nat) \cup {NoFile}
  /\ copy_failed \in BOOLEAN
  /\ duplicates \in 0 .. MaxDuplicates

\* The first n words of a file, with zeros where words are missing.
Excerpt(words, n, kept) == [i \in 1 .. n |-> IF i \in kept THEN words[i] ELSE 0]

\* Every word is the file's, at its place in the file, or missing.
IsExcerpt(data, words) ==
  Len(data) <= Len(words) /\ \A i \in 1 .. Len(data) : data[i] \in {0, words[i]}

\* What a delivery that failed may leave.
PartOf(data, words) == data \in Seq(Nat) /\ IsExcerpt(data, words)

\* What the receiver accepts as a file. The checksum is a sum: a file that ends in zeros
\* passes without some of them.
PassesFor(data, words) ==
  PartOf(data, words) /\ calc_checksum(data) = calc_checksum(words)

\* Nothing but the file passes for it.
ChecksumTells(words) ==
  \A n \in 0 .. Len(words) : \A kept \in SUBSET (1 .. n) :
    calc_checksum(Excerpt(words, n, kept)) = calc_checksum(words)
      => Excerpt(words, n, kept) = words

\* The abstract specification: however datagrams are lost, duplicated, reordered or cut
\* short, what is delivered holds no word of the source at another place than its own; it
\* has the source's checksum unless the last copy of it failed, and is the source exactly if
\* the checksum tells it.
Promise == INSTANCE FileDelivery WITH
  Passes <- PassesFor,
  Part <- PartOf,
  offered <- IF sender.put_request_received THEN source ELSE NoFile,
  delivered <- destination,
  failed <- copy_failed

DeliversOrNot == Promise!Spec

\* A receiver that reports complete data and a successful transaction has delivered the
\* file, or what passes for it, however the datagrams were lost, duplicated or reordered -
\* unless a repeated EOF made it copy the file once more and that copy failed: it is still
\* called a success, and the file it had delivered is gone.
SuccessMeansDelivered ==
  receiver.delivery_code = "DATA_COMPLETE" /\ receiver.final_status = "SUCCESSFUL"
    /\ ~copy_failed => PassesFor(destination, source)

\* What keeps a transfer from completing over a network that does not fail.
Disturbed ==
  \/ sender.suspended \/ sender.cancelled
  \/ ~opened \/ socket # "Open" \/ sending_handler # "Running"
  \/ receiving_handler # "Running" \/ receiver.is_shutdown

IsText(words) == \A i \in DOMAIN words : words[i] \in Text

\* Over a network that does not fail every Put request of a text file ends with the file
\* delivered, unless a user or a fault stops either side.
EventuallyDelivered ==
  sender.put_request_received /\ ~adverse /\ IsText(source)
    ~> destination = source \/ Disturbed

----------------------------------------------------------------------------
(* Why what is delivered is what was offered: what the sender queued, what it sent and  *)
(* what the receiver made of it.                                                        *)

\* These words are the file's from this offset on.
IsPartOf(data, offset, words) ==
  offset + Len(data) <= Len(words) /\ \A k \in 1 .. Len(data) : data[k] = words[offset + k]

\* File data is the file's, and an EOF names its size and, if it could be opened, its
\* checksum.
Truthful(pdu, words, has_file) ==
  /\ pdu.type = "FILE_DATA" => has_file /\ IsPartOf(pdu.data, pdu.segment_offset, words)
  /\ pdu.type = "EOF" =>
       /\ pdu.file_size = Len(words)
       /\ has_file => pdu.file_checksum = calc_checksum(words)

\* The machine knows the file as it is, and what it queued is true of it.
SourceInv(m, q, words, has_file) ==
  /\ m.put_request_received =>
       /\ m.file_size = Len(words)
       /\ has_file => m.filedata_checksum = calc_checksum(words)
  /\ m.file = "Open" => m.put_request_received /\ has_file /\ m.tell <= Len(words)
  /\ \A k \in 1 .. Len(q) : Truthful(q[k], words, has_file)

WasSent(pdu) == \E k \in 1 .. transmitted : pdu = outgoing[k]

EofSent(code) ==
  \E k \in 1 .. transmitted :
    outgoing[k].type = "EOF" /\ outgoing[k].condition_code = code

ReceiptInv(m, words) ==
  /\ IsExcerpt(m.temp_data, words)
  /\ m.recv_file_size # 0 => sender.put_request_received /\ opened
  /\ m.delivery_code = "DATA_COMPLETE" => EofSent("NO_ERROR")

\* The temporary file is an excerpt of the source at every moment, and complete data is
\* reported only after an EOF that says so.
Receipt ==
  /\ SourceInv(sender, outgoing, source, opened)
  /\ \A i \in DOMAIN net : WasSent(net[i])
  /\ ReceiptInv(receiver, source)
  /\ destination # NoFile =>
       /\ sender.put_request_received
       /\ PartOf(destination, source)
       /\ copy_failed \/ PassesFor(destination, source)

\* A transaction succeeds with the file at its destination, or by the EOF of a cancelled one.
SuccessInv ==
  receiver.final_status = "SUCCESSFUL" =>
    PassesFor(destination, source) \/ copy_failed \/ EofSent("CANCEL_REQUEST_RECEIVED")
============================================================================
