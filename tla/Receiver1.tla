----------------------------- MODULE Receiver1 -----------------------------
(***************************************************************************)
(* The class 1 receiver of machines/receiver1.py: one operator for each    *)
(* event update_state reacts to. The kernel creates the machine when a     *)
(* Metadata PDU arrives and hands it that PDU in the same step, so the     *)
(* machine is in S2, waiting for the EOF, whenever another event comes.    *)
(* The class does not override `role`.                                     *)
(***************************************************************************)
EXTENDS Machine, Pdus

NewReceiver == NewMachine("UNDEFINED", "RUNNING")

\* Opening the temporary file for writing empties it.
open_temp(m) == [m EXCEPT !.temp_file = "Open", !.temp_exists = TRUE, !.temp_data = <<>>]

\* RECEIVED_METADATA_PDU. A fault does not keep the machine from S2.
received_metadata(m, opens, handler) ==
  IF m.state = "S1"
  THEN [(IF opens THEN open_temp(m) ELSE fault_handler(m, handler)) EXCEPT !.state = "S2"]
  ELSE m

\* RECEIVED_FILEDATA_PDU, for which the kernel restarts the timer first. A temporary
\* file that was closed is opened, and so emptied, again.
received_filedata(m, pdu, opens, handler) ==
  LET restarted == [m EXCEPT !.inactivity_timer = "RUNNING"]
      ready == IF m.temp_file = "Open" THEN restarted ELSE open_temp(restarted)
  IN  IF m.temp_file # "Open" /\ ~opens
      THEN fault_handler(restarted, handler)
      ELSE [ready EXCEPT !.temp_data = WriteAt(@, pdu.segment_offset, pdu.data),
                         !.recv_file_size = @ + Len(pdu.data)]

\* As it would be if it wanted more than the whole file.
SizeExceeds(m, pdu) == m.recv_file_size > pdu.file_size

SizeAgrees(m, pdu) == m.recv_file_size = pdu.file_size

\* As it would be if only the presence of the temporary file were checked.
ChecksumUnchecked(m, pdu) == m.temp_exists

ChecksumAgrees(m, pdu) == m.temp_exists /\ calc_checksum(m.temp_data) = pdu.file_checksum

\* RECEIVED_EOF_NO_ERROR_PDU copies the temporary file to its destination.
Accepts(m, pdu, copies) == SizeAgrees(m, pdu) /\ ChecksumAgrees(m, pdu) /\ copies

received_eof_no_error(m, pdu, copies, handlers) ==
  LET closed == [m EXCEPT !.temp_file = IF @ = "Open" THEN "Closed" ELSE @]
      complete == [closed EXCEPT !.delivery_code = "DATA_COMPLETE"]
  IN  CASE ~SizeAgrees(m, pdu) -> fault_handler(closed, handlers["FILE_SIZE_ERROR"])
        [] SizeAgrees(m, pdu) /\ ~ChecksumAgrees(m, pdu) ->
             fault_handler(closed, handlers["FILE_CHECKSUM_FAILURE"])
        [] SizeAgrees(m, pdu) /\ ChecksumAgrees(m, pdu) /\ ~copies ->
             fault_handler(complete, handlers["FILESTORE_REJECTION"])
        [] Accepts(m, pdu, copies) -> finish_transaction(complete)

received_eof_cancel(m) == finish_transaction(m)

\* INACTIVITY_TIMER_EXPIRED restarts the timer before it raises the fault.
inactivity_timer_expired(m, handler) ==
  fault_handler([m EXCEPT !.inactivity_timer = "RUNNING"], handler)

\* RECEIVED_CANCEL_REQUEST and the NOTICE_OF_CANCELLATION it raises.
receiver_cancel_request(m) ==
  shutdown(finish_transaction(cancel(
    [m EXCEPT !.condition_code = "CANCEL_REQUEST_RECEIVED"])))
============================================================================
