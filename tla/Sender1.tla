------------------------------ MODULE Sender1 ------------------------------
(***************************************************************************)
(* The class 1 sender of machines/sender1.py: one operator for each event  *)
(* update_state reacts to. The two events of the transaction handler may   *)
(* hand a PDU to the kernel: they return the machine and the PDUs.         *)
(*                                                                         *)
(* S1 is the state before the Put request and after the EOF, S2 the state  *)
(* in between.                                                             *)
(***************************************************************************)
EXTENDS Machine, Pdus

NewSender == NewMachine("CLASS_1_SENDER", "None")

\* As it would be if the checksum were not computed before the file is read.
put_requestWithoutChecksum(m, words, opens, handler) ==
  LET started == [m EXCEPT !.put_request_received = TRUE,
                           !.file_size = Len(words),
                           !.is_md_outgoing = TRUE,
                           !.state = "S2"]
  IN  IF opens THEN [started EXCEPT !.file = "Open"] ELSE fault_handler(started, handler)

\* RECEIVED_PUT_REQUEST. The metadata carries the size found now; the file may
\* then fail to open.
put_request(m, words, opens, handler) ==
  LET started == [m EXCEPT !.put_request_received = TRUE,
                           !.file_size = Len(words),
                           !.is_md_outgoing = TRUE,
                           !.state = "S2"]
  IN  IF opens
      THEN [started EXCEPT !.file = "Open", !.filedata_checksum = calc_checksum(words)]
      ELSE fault_handler(started, handler)

cancel_request(m) ==
  IF m.state = "S2"
  THEN notify_partner_of_cancel([m EXCEPT !.condition_code = "CANCEL_REQUEST_RECEIVED"])
  ELSE m

suspend_request(m) == IF m.state = "S2" THEN suspend(m) ELSE m

resume_request(m) == IF m.state = "S2" THEN [m EXCEPT !.suspended = FALSE] ELSE m

make_eof_pdu(m) == EofPdu(m.condition_code, m.filedata_checksum, m.file_size)

Step(m, pdus) == [machine |-> m, pdus |-> pdus]

\* A file directive as it would be if it ignored a suspension, and if the machine stayed in
\* S2 after the EOF.
directiveIgnoresSuspension(m) ==
  CASE m.state = "S2" /\ m.is_md_outgoing ->
         Step([m EXCEPT !.is_md_outgoing = FALSE], <<MetadataPdu(m.file_size)>>)
    [] m.state = "S2" /\ ~m.is_md_outgoing /\ m.is_oef_outgoing ->
         Step(shutdown(finish_transaction([m EXCEPT !.eof_sent = TRUE, !.state = "S1"])),
              <<make_eof_pdu(m)>>)
    [] OTHER -> Step(m, <<>>)

directiveStaysInS2(m) ==
  CASE m.state = "S2" /\ ~m.suspended /\ m.is_md_outgoing ->
         Step([m EXCEPT !.is_md_outgoing = FALSE], <<MetadataPdu(m.file_size)>>)
    [] m.state = "S2" /\ ~m.suspended /\ ~m.is_md_outgoing /\ m.is_oef_outgoing ->
         Step(shutdown(finish_transaction([m EXCEPT !.eof_sent = TRUE])), <<make_eof_pdu(m)>>)
    [] OTHER -> Step(m, <<>>)

\* SEND_FILE_DIRECTIVE. In S1 no directive is outgoing.
send_file_directive(m) ==
  CASE m.state = "S2" /\ ~m.suspended /\ m.is_md_outgoing ->
         Step([m EXCEPT !.is_md_outgoing = FALSE], <<MetadataPdu(m.file_size)>>)
    [] m.state = "S2" /\ ~m.suspended /\ ~m.is_md_outgoing /\ m.is_oef_outgoing ->
         Step(shutdown(finish_transaction([m EXCEPT !.eof_sent = TRUE, !.state = "S1"])),
              <<make_eof_pdu(m)>>)
    [] OTHER -> Step(m, <<>>)

\* File data as it would be if its offset were taken after the read, if the last segment
\* were taken for the end of the file, and if the end were only recognised beyond it.
dataOffsetAfterRead(m, words, handler) ==
  LET data == Segment(words, m.tell)
      done == m.file = "None" \/ m.tell = m.file_size
  IN  CASE m.state # "S2" \/ m.suspended -> Step(m, <<>>)
        [] m.state = "S2" /\ ~m.suspended /\ done ->
             Step([m EXCEPT !.is_oef_outgoing = TRUE, !.condition_code = "NO_ERROR"], <<>>)
        [] m.state = "S2" /\ ~m.suspended /\ ~done ->
             Step([m EXCEPT !.tell = @ + Len(data)], <<FileDataPdu(m.tell + Len(data), data)>>)

dataStopsEarly(m, words, handler) ==
  LET data == Segment(words, m.tell)
      done == m.file = "None" \/ m.tell + maximum_file_segment_length >= m.file_size
  IN  CASE m.state # "S2" \/ m.suspended -> Step(m, <<>>)
        [] m.state = "S2" /\ ~m.suspended /\ done ->
             Step([m EXCEPT !.is_oef_outgoing = TRUE, !.condition_code = "NO_ERROR"], <<>>)
        [] m.state = "S2" /\ ~m.suspended /\ ~done ->
             Step([m EXCEPT !.tell = @ + Len(data)], <<FileDataPdu(m.tell, data)>>)

dataMissesEnd(m, words, handler) ==
  LET data == Segment(words, m.tell)
      done == m.file = "None" \/ m.tell > m.file_size
  IN  CASE m.state # "S2" \/ m.suspended -> Step(m, <<>>)
        [] m.state = "S2" /\ ~m.suspended /\ done ->
             Step([m EXCEPT !.is_oef_outgoing = TRUE, !.condition_code = "NO_ERROR"], <<>>)
        [] m.state = "S2" /\ ~m.suspended /\ ~done /\ data # <<>> ->
             Step([m EXCEPT !.tell = @ + Len(data)], <<FileDataPdu(m.tell, data)>>)
        [] m.state = "S2" /\ ~m.suspended /\ ~done /\ data = <<>> ->
             Step(fault_handler(m, handler), <<NoPdu>>)

\* SEND_FILE_DATA, with the source file as it is now. Without an open file, or at
\* the size the metadata announced, the EOF becomes outgoing.
send_file_data(m, words, handler) ==
  LET data == Segment(words, m.tell)
      done == m.file = "None" \/ m.tell = m.file_size
  IN  CASE m.state # "S2" \/ m.suspended -> Step(m, <<>>)
        [] m.state = "S2" /\ ~m.suspended /\ done ->
             Step([m EXCEPT !.is_oef_outgoing = TRUE, !.condition_code = "NO_ERROR"], <<>>)
        [] m.state = "S2" /\ ~m.suspended /\ ~done /\ data # <<>> ->
             Step([m EXCEPT !.tell = @ + Len(data)], <<FileDataPdu(m.tell, data)>>)
        [] m.state = "S2" /\ ~m.suspended /\ ~done /\ data = <<>> ->
             Step(fault_handler(m, handler), <<NoPdu>>)
============================================================================
