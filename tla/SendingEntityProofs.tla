----------------------- MODULE SendingEntityProofs -----------------------
(***************************************************************************)
(* What SendingEntity guarantees for every set of files, segment length,   *)
(* checksum modulus, MIB setting and bound.                                *)
(***************************************************************************)
EXTENDS SendingEntity, SequenceTheorems, NaturalFacts, TLAPS

----------------------------------------------------------------------------
(* The operators a machine is changed with. *)

\* shutdown keeps a machine well-typed.
LEMMA ShutdownType ==
  ASSUME NEW C, NEW m \in MachineType(C)
  PROVE  shutdown(m) \in MachineType(C)
BY ZenonT(60) DEF MachineType, shutdown

\* The methods of machine.py keep a machine well-typed.
LEMMA MachineMethods ==
  ASSUME NEW C, NEW m \in MachineType(C)
  PROVE  /\ shutdown(m) \in MachineType(C)
         /\ abandon(m) \in MachineType(C)
         /\ suspend(m) \in MachineType(C)
         /\ cancel(m) \in MachineType(C)
         /\ notify_partner_of_cancel(m) \in MachineType(C)
         /\ finish_transaction(m) \in MachineType(C)
<1>0. StopTimers(m.inactivity_timer) \in TimerModes
  BY DEF StopTimers, TimerModes
<1>1. shutdown(m) \in MachineType(C)
  BY ShutdownType
<1>2. abandon(m) \in MachineType(C)
  <2>1. [m EXCEPT !.abandoned = TRUE, !.finished = TRUE, !.final_status = "ABANDONED"]
          \in MachineType(C)
    BY DEF MachineType, FinalStatuses
  <2>2. QED  BY <2>1, ShutdownType DEF abandon
<1>3. suspend(m) \in MachineType(C)
  <2>1. CASE m.suspended
    BY <2>1 DEF suspend
  <2>2. CASE ~m.suspended
    <3> DEFINE mode == IF m.inactivity_timer = "RUNNING" THEN "PAUSED" ELSE m.inactivity_timer
    <3>1. mode \in TimerModes
      BY DEF MachineType, TimerModes
    <3>2. suspend(m) = [m EXCEPT !.suspended = TRUE, !.inactivity_timer = mode]
      BY <2>2 DEF suspend
    <3>. HIDE DEF mode
    <3>3. QED  BY <3>1, <3>2, ZenonT(60) DEF MachineType
  <2>3. QED  BY <2>1, <2>2
<1>4. cancel(m) \in MachineType(C)
  BY <1>0 DEF MachineType, cancel
<1>5. notify_partner_of_cancel(m) \in MachineType(C)
  <2>1. [m EXCEPT !.is_oef_outgoing = TRUE, !.cancelled = TRUE] \in MachineType(C)
    BY DEF MachineType
  <2>2. QED  BY <2>1, ShutdownType DEF notify_partner_of_cancel
<1>6. finish_transaction(m) \in MachineType(C)
  <2> DEFINE status == CASE m.role = "CLASS_1_RECEIVER" -> "NO_METADATA"
                         [] m.role # "CLASS_1_RECEIVER" /\ m.cancelled -> "CANCELLED"
                         [] OTHER -> "SUCCESSFUL"
  <2>1. status \in FinalStatuses
    BY DEF FinalStatuses
  <2> DEFINE timer == StopTimers(m.inactivity_timer)
             stopped == [m EXCEPT !.is_oef_outgoing = FALSE, !.is_md_outgoing = FALSE,
                                  !.inactivity_timer = timer]
  <2>2. finish_transaction(m) = [m EXCEPT !.is_oef_outgoing = FALSE, !.is_md_outgoing = FALSE,
                                  !.inactivity_timer = timer,
                                  !.finished = TRUE, !.final_status = status]
    BY DEF finish_transaction
  <2>3. timer \in TimerModes
    BY <1>0
  <2>. HIDE DEF status, timer
  <2>4. stopped \in MachineType(C)
    BY <2>3 DEF MachineType
  <2>5. finish_transaction(m) = [stopped EXCEPT !.finished = TRUE, !.final_status = status]
    BY <2>2 DEF MachineType
  <2>. HIDE DEF stopped
  <2>6. [stopped EXCEPT !.finished = TRUE] \in MachineType(C)
    BY <2>4 DEF MachineType
  <2>7. \A x \in MachineType(C) : [x EXCEPT !.final_status = status] \in MachineType(C)
    BY <2>1, SMTT(30) DEF MachineType
  <2>8. QED  BY <2>5, <2>6, <2>7
<1>7. QED  BY <1>1, <1>2, <1>3, <1>4, <1>5, <1>6

\* fault_handler keeps a sender well-typed.
LEMMA FaultHandlerType ==
  ASSUME NEW C, NEW m \in MachineType(C), NEW h \in HandlerCodes, m.role = "CLASS_1_SENDER"
  PROVE  fault_handler(m, h) \in MachineType(C)
<1>1. [m EXCEPT !.initiated_cancel = TRUE] \in MachineType(C)
  BY DEF MachineType
<1>2. notify_partner_of_cancel(cancel([m EXCEPT !.initiated_cancel = TRUE])) \in MachineType(C)
  <2>1. cancel([m EXCEPT !.initiated_cancel = TRUE]) \in MachineType(C)
    BY <1>1, MachineMethods
  <2>2. QED  BY <2>1, MachineMethods
<1>3. QED  BY <1>2, MachineMethods DEF fault_handler, HandlerCodes

\* What a fault does to the part of a sender that the queue depends on: nothing, or it
\* closes the file and marks the transaction cancelled or abandoned.
LEMMA FaultHandlerEffect ==
  ASSUME NEW C, NEW m \in MachineType(C), NEW h \in HandlerCodes,
         m.role = "CLASS_1_SENDER", m.inactivity_timer = "None", m.temp_file = "None",
         NEW f, f = fault_handler(m, h)
  PROVE  /\ f.role = "CLASS_1_SENDER" /\ f.inactivity_timer = "None" /\ f.temp_file = "None"
         /\ f.state = m.state /\ f.tell = m.tell /\ f.file_size = m.file_size
         /\ f.put_request_received = m.put_request_received /\ f.eof_sent = m.eof_sent
         /\ \/ /\ f.file = m.file /\ f.cancelled = m.cancelled /\ f.abandoned = m.abandoned
               /\ f.is_md_outgoing = m.is_md_outgoing /\ f.is_oef_outgoing = m.is_oef_outgoing
            \/ /\ f.file = "None"
               /\ f.cancelled \/ f.abandoned
               /\ m.cancelled => f.cancelled
               /\ m.abandoned => f.abandoned
               /\ f.is_md_outgoing => m.is_md_outgoing
<1>1. CASE h = "IGNORE"
  <2>1. f = m
    BY <1>1 DEF fault_handler
  <2>2. QED  BY <2>1
<1>2. CASE h = "CANCEL"
  <2> DEFINE c == cancel([m EXCEPT !.initiated_cancel = TRUE])
  <2>1. f = notify_partner_of_cancel(c)
    BY <1>2 DEF fault_handler
  <2>2. [m EXCEPT !.initiated_cancel = TRUE] \in MachineType(C)
    BY DEF MachineType
  <2>3. c \in MachineType(C)
    BY <2>2, MachineMethods
  <2>4. /\ c.role = m.role /\ c.inactivity_timer = "None" /\ c.temp_file = m.temp_file
        /\ c.state = m.state /\ c.tell = m.tell /\ c.file_size = m.file_size
        /\ c.put_request_received = m.put_request_received /\ c.eof_sent = m.eof_sent
        /\ c.abandoned = m.abandoned /\ ~c.is_md_outgoing
    BY DEF MachineType, cancel, StopTimers
  <2>. HIDE DEF c
  <2>5. /\ f.role = c.role /\ f.inactivity_timer = c.inactivity_timer /\ f.temp_file = "None"
        /\ f.state = c.state /\ f.tell = c.tell /\ f.file_size = c.file_size
        /\ f.put_request_received = c.put_request_received /\ f.eof_sent = c.eof_sent
        /\ f.abandoned = c.abandoned /\ f.is_md_outgoing = c.is_md_outgoing
        /\ f.cancelled /\ f.file = "None"
    BY <2>1, <2>3, <2>4 DEF MachineType, notify_partner_of_cancel, shutdown
  <2>6. QED  BY <2>4, <2>5
<1>3. CASE h = "ABANDON"
  <2>1. f = abandon(m)
    BY <1>3 DEF fault_handler
  <2>2. /\ f.role = m.role /\ f.inactivity_timer = m.inactivity_timer /\ f.temp_file = "None"
        /\ f.state = m.state /\ f.tell = m.tell /\ f.file_size = m.file_size
        /\ f.put_request_received = m.put_request_received /\ f.eof_sent = m.eof_sent
        /\ f.abandoned /\ f.is_md_outgoing = m.is_md_outgoing
        /\ f.cancelled = m.cancelled /\ f.file = "None"
    BY <2>1 DEF MachineType, abandon, shutdown
  <2>3. QED  BY <2>2
<1>4. CASE h = "SUSPEND"
  <2>1. f = suspend(m)
    BY <1>4 DEF fault_handler
  <2>2. CASE m.suspended
    <3>1. f = m
      BY <2>1, <2>2 DEF suspend
    <3>2. QED  BY <3>1
  <2>3. CASE ~m.suspended
    <3>1. f = [m EXCEPT !.suspended = TRUE, !.inactivity_timer = "None"]
      BY <2>1, <2>3 DEF suspend
    <3>2. QED  BY <3>1 DEF MachineType
  <2>4. QED  BY <2>2, <2>3
<1>5. QED  BY <1>1, <1>2, <1>3, <1>4 DEF HandlerCodes

----------------------------------------------------------------------------
(* The events of a sender. *)

\* A machine in the sender's role, without a timer and without a temporary file.
IsSender(m) ==
  /\ m \in MachineType(Checksums)
  /\ m.role = "CLASS_1_SENDER" /\ m.inactivity_timer = "None" /\ m.temp_file = "None"

\* What is read of a file is a sequence of words.
LEMMA SegmentType ==
  ASSUME NEW words \in Seq(Nat), NEW offset \in Nat
  PROVE  /\ Segment(words, offset) \in Seq(Nat)
         /\ Len(Segment(words, offset)) \in Nat
<1>1. maximum_file_segment_length \in Nat
  BY SegmentAssumption
<1>2. \A j \in offset + 1 .. Least(offset + maximum_file_segment_length, Len(words)) :
        words[j] \in Nat
  BY <1>1 DEF Least
<1>3. Least(offset + maximum_file_segment_length, Len(words)) \in Int
  BY <1>1 DEF Least
<1>4. Segment(words, offset) \in Seq(Nat)
  <2> DEFINE end == Least(offset + maximum_file_segment_length, Len(words))
  <2>1. \A j \in offset + 1 .. end : j \in 1 .. Len(words)
    BY <1>1 DEF Least
  <2>2. end \in Int /\ offset + 1 \in Int
    BY <1>3
  <2>3. QED  BY <2>1, <2>2, SubSeqProperties DEF Segment
<1>5. QED  BY <1>4

\* What is read at a place of a file follows what is before it, and is not empty before its
\* end.
LEMMA SegmentFollows ==
  ASSUME NEW words \in Seq(Nat), NEW offset \in Nat, offset <= Len(words)
  PROVE  LET data == Segment(words, offset)
         IN  /\ offset + Len(data) \in Nat /\ offset + Len(data) <= Len(words)
             /\ SubSeq(words, 1, offset) \o data = SubSeq(words, 1, offset + Len(data))
             /\ offset < Len(words) => data # <<>>
<1> DEFINE end == Least(offset + maximum_file_segment_length, Len(words))
           data == Segment(words, offset)
<1>1. Len(words) \in Nat
  OBVIOUS
<1>2. end \in Nat /\ offset <= end /\ end <= Len(words) /\ (offset < Len(words) => offset < end)
  BY <1>1, SegmentAssumption DEF Least
<1>3. data = SubSeq(words, offset + 1, end)
  BY DEF Segment
<1>. HIDE DEF end
<1>4. \A j \in offset + 1 .. end : words[j] \in Nat
  BY <1>1, <1>2
<1>5. /\ data \in Seq(Nat)
      /\ Len(data) = IF offset + 1 <= end THEN end - (offset + 1) + 1 ELSE 0
  <2>1. offset + 1 \in Int /\ end \in Int
    BY <1>2
  <2>2. QED  BY <1>3, <1>4, <2>1, SubSeqProperties
<1>6. offset + Len(data) = end
  BY <1>2, <1>5
<1>7. SubSeq(words, 1, offset) \o data = SubSeq(words, 1, end)
  <2>1. 1 \in 1 .. Len(words) + 1 /\ offset \in 1 - 1 .. Len(words) /\ end \in offset .. Len(words)
    BY <1>1, <1>2
  <2>2. QED  BY <1>3, <2>1, ConcatAdjacentSubSeq
<1>8. offset < Len(words) => data # <<>>
  BY <1>2, <1>5, EmptySeq
<1>. HIDE DEF data
<1>9. QED  BY <1>2, <1>6, <1>7, <1>8 DEF data

\* A new machine is a sender.
LEMMA NewSenderType == IsSender(NewSender)
<1>1. /\ NewSender.role = "CLASS_1_SENDER" /\ NewSender.inactivity_timer = "None"
      /\ NewSender.temp_file = "None"
  BY DEF NewSender, NewMachine
<1>2. NewSender \in MachineType(Checksums)
  <2>1. <<>> \in Seq(Nat) /\ 0 \in Checksums
    BY DEF Checksums
  <2>2. QED  BY <2>1 DEF NewSender, NewMachine, MachineType, Roles, TimerModes
<1>3. QED  BY <1>1, <1>2 DEF IsSender

\* A fault leaves a sender a sender.
LEMMA FaultHandlerSender ==
  ASSUME NEW m, IsSender(m), NEW h \in HandlerCodes
  PROVE  IsSender(fault_handler(m, h))
BY FaultHandlerType, FaultHandlerEffect DEF IsSender

\* So does a shutdown.
LEMMA ShutdownSender ==
  ASSUME NEW m, IsSender(m)
  PROVE  IsSender(shutdown(m))
<1>1. shutdown(m) \in MachineType(Checksums)
  BY ShutdownType DEF IsSender
<1>2. /\ shutdown(m).role = m.role /\ shutdown(m).inactivity_timer = m.inactivity_timer
      /\ shutdown(m).temp_file = "None"
  BY DEF IsSender, MachineType, shutdown
<1>3. QED  BY <1>1, <1>2 DEF IsSender

\* The user's requests leave a sender a sender.
LEMMA PutRequestType ==
  ASSUME NEW m, IsSender(m), NEW words \in Files, NEW opens \in BOOLEAN, NEW h \in HandlerCodes
  PROVE  IsSender(put_request(m, words, opens, h))
<1> DEFINE started == [m EXCEPT !.put_request_received = TRUE, !.file_size = Len(words),
                                !.is_md_outgoing = TRUE, !.state = "S2"]
<1>1. Len(words) \in Nat /\ calc_checksum(words) \in Checksums
  BY FilesAssumption DEF Checksums
<1>2. IsSender(started)
  <2>1. started \in MachineType(Checksums)
    BY <1>1 DEF IsSender, MachineType
  <2>2. QED  BY <2>1 DEF IsSender, MachineType
<1>. HIDE DEF started
<1>3. CASE opens
  <2>1. put_request(m, words, opens, h) =
          [started EXCEPT !.file = "Open", !.filedata_checksum = calc_checksum(words)]
    BY <1>3 DEF put_request, started
  <2> DEFINE file == [started EXCEPT !.file = "Open"]
             sum == calc_checksum(words)
  <2>2. IsSender(file)
    BY <1>2, ZenonT(60) DEF IsSender, MachineType
  <2>3. put_request(m, words, opens, h) = [file EXCEPT !.filedata_checksum = sum]
    BY <2>1
  <2>4. sum \in Checksums
    BY <1>1
  <2>. HIDE DEF file, sum
  <2>5. \A C : \A x \in MachineType(C) : \A c \in C :
          [x EXCEPT !.filedata_checksum = c] \in MachineType(C)
    BY SMTT(60) DEF MachineType
  <2>6. \A x \in MachineType(Checksums) : \A c :
          /\ [x EXCEPT !.filedata_checksum = c].role = x.role
          /\ [x EXCEPT !.filedata_checksum = c].inactivity_timer = x.inactivity_timer
          /\ [x EXCEPT !.filedata_checksum = c].temp_file = x.temp_file
    BY DEF MachineType
  <2>7. QED  BY <2>2, <2>3, <2>4, <2>5, <2>6 DEF IsSender
<1>4. CASE ~opens
  <2>1. put_request(m, words, opens, h) = fault_handler(started, h)
    BY <1>4 DEF put_request, started
  <2>2. QED  BY <1>2, <2>1, FaultHandlerSender
<1>5. QED  BY <1>3, <1>4

\* The user's requests keep a sender a sender.
LEMMA RequestTypes ==
  ASSUME NEW m, IsSender(m)
  PROVE  /\ IsSender(cancel_request(m))
         /\ IsSender(suspend_request(m))
         /\ IsSender(resume_request(m))
<1>1. IsSender(cancel_request(m))
  <2> DEFINE coded == [m EXCEPT !.condition_code = "CANCEL_REQUEST_RECEIVED"]
             marked == [coded EXCEPT !.is_oef_outgoing = TRUE, !.cancelled = TRUE]
  <2>1. IsSender(coded)
    BY DEF IsSender, MachineType, ConditionCodes
  <2>2. notify_partner_of_cancel(coded) = shutdown(marked)
    BY DEF notify_partner_of_cancel
  <2>. HIDE DEF coded
  <2>3. IsSender(marked)
    BY <2>1 DEF IsSender, MachineType
  <2>. HIDE DEF marked
  <2>4. IsSender(shutdown(marked))
    BY <2>3, ShutdownSender
  <2>5. QED  BY <2>2, <2>4 DEF cancel_request, coded
<1>2. IsSender(suspend_request(m))
  <2>1. IsSender([m EXCEPT !.suspended = TRUE, !.inactivity_timer = "None"])
    BY DEF IsSender, MachineType, TimerModes
  <2>2. suspend(m) = m \/ suspend(m) = [m EXCEPT !.suspended = TRUE, !.inactivity_timer = "None"]
    BY DEF suspend, IsSender
  <2>3. QED  BY <2>1, <2>2 DEF suspend_request
<1>3. IsSender(resume_request(m))
  <2>1. IsSender([m EXCEPT !.suspended = FALSE])
    BY DEF IsSender, MachineType
  <2>2. QED  BY <2>1 DEF resume_request
<1>4. QED  BY <1>1, <1>2, <1>3

\* What a file directive does: nothing, or the metadata, or the EOF and the end.
LEMMA DirectiveCases ==
  ASSUME NEW m
  PROVE  LET d == send_file_directive(m)
         IN  \/ d.machine = m /\ d.pdus = <<>>
             \/ /\ m.state = "S2" /\ ~m.suspended /\ m.is_md_outgoing
                /\ d.machine = [m EXCEPT !.is_md_outgoing = FALSE]
                /\ d.pdus = <<MetadataPdu(m.file_size)>>
             \/ /\ m.state = "S2" /\ ~m.suspended /\ ~m.is_md_outgoing /\ m.is_oef_outgoing
                /\ d.machine = shutdown(finish_transaction(
                                 [m EXCEPT !.eof_sent = TRUE, !.state = "S1"]))
                /\ d.pdus = <<make_eof_pdu(m)>>
BY DEF send_file_directive, Step

\* What the turn of file data does: nothing, or it marks the EOF, or a segment, or a fault.
LEMMA DataCases ==
  ASSUME NEW m, NEW words, NEW h
  PROVE  LET d == send_file_data(m, words, h)
             data == Segment(words, m.tell)
         IN  \/ d.machine = m /\ d.pdus = <<>>
             \/ /\ m.state = "S2" /\ ~m.suspended
                /\ m.file = "None" \/ m.tell = m.file_size
                /\ d.machine = [m EXCEPT !.is_oef_outgoing = TRUE, !.condition_code = "NO_ERROR"]
                /\ d.pdus = <<>>
             \/ /\ m.state = "S2" /\ ~m.suspended
                /\ m.file # "None" /\ m.tell # m.file_size
                /\ d.machine = [m EXCEPT !.tell = m.tell + Len(data)]
                /\ d.pdus = <<FileDataPdu(m.tell, data)>>
             \/ /\ m.state = "S2" /\ ~m.suspended
                /\ m.file # "None" /\ m.tell # m.file_size /\ data = <<>>
                /\ d.machine = fault_handler(m, h)
                /\ d.pdus = <<NoPdu>>
<1> DEFINE data == Segment(words, m.tell)
           done == m.file = "None" \/ m.tell = m.file_size
<1>1. CASE m.state # "S2" \/ m.suspended
  BY <1>1 DEF send_file_data, Step
<1>2. CASE m.state = "S2" /\ ~m.suspended /\ done
  BY <1>2 DEF send_file_data, Step
<1>3. CASE m.state = "S2" /\ ~m.suspended /\ ~done /\ data # <<>>
  BY <1>3 DEF send_file_data, Step
<1>4. CASE m.state = "S2" /\ ~m.suspended /\ ~done /\ data = <<>>
  BY <1>4 DEF send_file_data, Step
<1>5. QED  BY <1>1, <1>2, <1>3, <1>4

\* The end of a transaction leaves a sender a sender.
LEMMA FinishSender ==
  ASSUME NEW m, IsSender(m)
  PROVE  IsSender(finish_transaction(m))
<1>1. finish_transaction(m) \in MachineType(Checksums)
  BY MachineMethods DEF IsSender
<1>2. StopTimers(m.inactivity_timer) = "None"
  BY DEF IsSender, StopTimers
<1>3. /\ finish_transaction(m).role = m.role
      /\ finish_transaction(m).inactivity_timer = StopTimers(m.inactivity_timer)
      /\ finish_transaction(m).temp_file = m.temp_file
  BY DEF IsSender, MachineType, finish_transaction
<1>4. QED  BY <1>1, <1>2, <1>3 DEF IsSender

\* The events of the transaction handler leave a sender a sender and yield PDUs.
LEMMA DirectiveType ==
  ASSUME NEW m, IsSender(m)
  PROVE  /\ IsSender(send_file_directive(m).machine)
         /\ send_file_directive(m).pdus \in Seq(Pdu)
<1>1. IsSender([m EXCEPT !.is_md_outgoing = FALSE])
  BY DEF IsSender, MachineType
<1>2. IsSender([m EXCEPT !.eof_sent = TRUE, !.state = "S1"])
  BY DEF IsSender, MachineType
<1>3. IsSender(shutdown(finish_transaction([m EXCEPT !.eof_sent = TRUE, !.state = "S1"])))
  BY <1>2, FinishSender, ShutdownSender
<1>4. MetadataPdu(m.file_size) \in Pdu
  <2>1. m.file_size \in Nat
    BY DEF IsSender, MachineType
  <2>2. QED  BY <2>1 DEF MetadataPdu, Pdu
<1>5. make_eof_pdu(m) \in Pdu
  <2>1. /\ m.file_size \in Nat /\ m.filedata_checksum \in Checksums
        /\ m.condition_code \in {"None", "NO_ERROR", "CANCEL_REQUEST_RECEIVED"}
    BY DEF IsSender, MachineType, ConditionCodes
  <2>2. QED  BY <2>1 DEF make_eof_pdu, EofPdu, Pdu
<1>6. <<>> \in Seq(Pdu) /\ <<MetadataPdu(m.file_size)>> \in Seq(Pdu)
      /\ <<make_eof_pdu(m)>> \in Seq(Pdu)
  BY <1>4, <1>5
<1> DEFINE d == send_file_directive(m)
<1>7. \/ d.machine = m /\ d.pdus = <<>>
      \/ d.machine = [m EXCEPT !.is_md_outgoing = FALSE] /\ d.pdus = <<MetadataPdu(m.file_size)>>
      \/ /\ d.machine = shutdown(finish_transaction([m EXCEPT !.eof_sent = TRUE, !.state = "S1"]))
         /\ d.pdus = <<make_eof_pdu(m)>>
  BY DirectiveCases
<1>. HIDE DEF d
<1>8. IsSender(d.machine) /\ d.pdus \in Seq(Pdu)
  BY <1>1, <1>3, <1>6, <1>7
<1>9. QED  BY <1>8 DEF d

\* So does a turn of file data.
LEMMA DataType ==
  ASSUME NEW m, IsSender(m), NEW words \in Files, NEW h \in HandlerCodes
  PROVE  /\ IsSender(send_file_data(m, words, h).machine)
         /\ send_file_data(m, words, h).pdus \in Seq(Pdu)
<1> DEFINE data == Segment(words, m.tell)
           n == m.tell + Len(data)
<1>1. m.tell \in Nat
  BY DEF IsSender, MachineType
<1>2. data \in Seq(Nat) /\ n \in Nat
  BY <1>1, SegmentType, FilesAssumption
<1>3. IsSender([m EXCEPT !.is_oef_outgoing = TRUE, !.condition_code = "NO_ERROR"])
  BY DEF IsSender, MachineType, ConditionCodes
<1>4. IsSender([m EXCEPT !.tell = n])
  <2>. HIDE DEF n
  <2>1. [m EXCEPT !.tell = n] \in MachineType(Checksums)
    BY <1>2 DEF IsSender, MachineType
  <2>2. QED  BY <2>1 DEF IsSender, MachineType
<1>5. FileDataPdu(m.tell, data) \in Pdu /\ NoPdu \in Pdu
  <2>. HIDE DEF data
  <2>1. QED  BY <1>1, <1>2 DEF FileDataPdu, NoPdu, Pdu
<1>6. IsSender(fault_handler(m, h))
  BY FaultHandlerSender
<1>7. <<>> \in Seq(Pdu) /\ <<FileDataPdu(m.tell, data)>> \in Seq(Pdu) /\ <<NoPdu>> \in Seq(Pdu)
  BY <1>5
<1> DEFINE d == send_file_data(m, words, h)
<1>8. \/ d.machine = m /\ d.pdus = <<>>
      \/ /\ d.machine = [m EXCEPT !.is_oef_outgoing = TRUE, !.condition_code = "NO_ERROR"]
         /\ d.pdus = <<>>
      \/ d.machine = [m EXCEPT !.tell = n] /\ d.pdus = <<FileDataPdu(m.tell, data)>>
      \/ d.machine = fault_handler(m, h) /\ d.pdus = <<NoPdu>>
  <2> DEFINE c1 == d.machine = m /\ d.pdus = <<>>
             c2 == /\ d.machine = [m EXCEPT !.is_oef_outgoing = TRUE,
                                            !.condition_code = "NO_ERROR"]
                   /\ d.pdus = <<>>
             c3 == d.machine = [m EXCEPT !.tell = n] /\ d.pdus = <<FileDataPdu(m.tell, data)>>
             c4 == d.machine = fault_handler(m, h) /\ d.pdus = <<NoPdu>>
  <2>1. \/ c1
        \/ /\ m.state = "S2" /\ ~m.suspended
           /\ m.file = "None" \/ m.tell = m.file_size
           /\ d.machine = [m EXCEPT !.is_oef_outgoing = TRUE, !.condition_code = "NO_ERROR"]
           /\ d.pdus = <<>>
        \/ /\ m.state = "S2" /\ ~m.suspended
           /\ m.file # "None" /\ m.tell # m.file_size
           /\ d.machine = [m EXCEPT !.tell = n]
           /\ d.pdus = <<FileDataPdu(m.tell, data)>>
        \/ /\ m.state = "S2" /\ ~m.suspended
           /\ m.file # "None" /\ m.tell # m.file_size /\ data = <<>>
           /\ d.machine = fault_handler(m, h)
           /\ d.pdus = <<NoPdu>>
    BY ONLY DataCases
  <2>2. QED  BY <2>1
<1>. HIDE DEF d, data, n
<1>9. IsSender(d.machine) /\ d.pdus \in Seq(Pdu)
  BY <1>3, <1>4, <1>6, <1>7, <1>8
<1>10. QED  BY <1>9 DEF d

----------------------------------------------------------------------------
(* Types. *)

\* Every variable keeps its type: a greenlet that interleaves with the user's requests
\* never finds a machine or a queue it was not written for.
LEMMA TypeStep ==
  ASSUME TypeOK, [Next]_vars
  PROVE  TypeOK'
<1>1. IsSender(sender) /\ source \in Files /\ handler \in HandlerCodes
  BY FaultHandlersAssumption DEF TypeOK, IsSender
<1>2. CASE Connect
  BY <1>2 DEF Connect, TypeOK, fileVars
<1>3. CASE Disconnect
  BY <1>3 DEF Disconnect, TypeOK, fileVars
<1>4. ASSUME NEW opens \in BOOLEAN, Put(opens)
      PROVE  TypeOK'
  <2>1. IsSender(sender')
    BY <1>1, <1>4, PutRequestType DEF Put
  <2>2. QED  BY <1>4, <2>1 DEF Put, TypeOK, IsSender, kernelVars
<1>5. CASE Cancel \/ Suspend \/ Resume
  <2>1. IsSender(sender') /\ UNCHANGED <<fileVars, kernelVars>>
    BY <1>1, <1>5, RequestTypes DEF Cancel, Suspend, Resume
  <2>2. QED  BY <2>1 DEF TypeOK, IsSender, kernelVars, fileVars
<1>6. CASE TransactionHandler
  <2> DEFINE directive == send_file_directive(sender)
             data == send_file_data(directive.machine, source, handler)
  <2>1. IsSender(directive.machine) /\ directive.pdus \in Seq(Pdu)
    BY <1>1, DirectiveType
  <2>2. IsSender(data.machine) /\ data.pdus \in Seq(Pdu)
    BY <1>1, <2>1, DataType
  <2>3. /\ sender' = data.machine
        /\ outgoing' = outgoing \o directive.pdus \o data.pdus
        /\ UNCHANGED <<fileVars, transmitted, socket, sending_handler>>
    BY <1>6 DEF TransactionHandler
  <2>. HIDE DEF directive, data
  <2>4. /\ outgoing \o directive.pdus \in Seq(Pdu)
        /\ Len(outgoing \o directive.pdus) = Len(outgoing) + Len(directive.pdus)
    BY <2>1, ConcatProperties DEF TypeOK
  <2>5. /\ outgoing' \in Seq(Pdu)
        /\ Len(outgoing') = Len(outgoing) + Len(directive.pdus) + Len(data.pdus)
    BY <2>2, <2>3, <2>4, ConcatProperties
  <2>6. transmitted \in 0 .. Len(outgoing')
    <3>1. Len(directive.pdus) \in Nat /\ Len(data.pdus) \in Nat /\ Len(outgoing) \in Nat
      BY <2>1, <2>2 DEF TypeOK
    <3>2. transmitted \in 0 .. Len(outgoing)
      BY DEF TypeOK
    <3>3. Len(outgoing') = Len(outgoing) + Len(directive.pdus) + Len(data.pdus)
      BY <2>5
    <3>4. \A a, b, c \in Nat : \A t \in 0 .. a : t \in 0 .. a + b + c
      OBVIOUS
    <3>5. transmitted \in 0 .. Len(outgoing) + Len(directive.pdus) + Len(data.pdus)
      BY <3>1, <3>2, <3>4
    <3>6. QED  BY <3>3, <3>5
  <2>7. QED  BY <2>2, <2>3, <2>5, <2>6 DEF TypeOK, IsSender, fileVars
<1>7. ASSUME NEW accepted \in BOOLEAN, SendToSocket(accepted)
      PROVE  TypeOK'
  BY <1>7 DEF SendToSocket, TypeOK, fileVars
<1>8. CASE SourceChanges
  BY <1>8, BoundsAssumption DEF SourceChanges, TypeOK, kernelVars
<1>9. CASE UNCHANGED vars
  BY <1>9 DEF TypeOK, vars, kernelVars, fileVars
<1>10. QED  BY <1>2, <1>3, <1>4, <1>5, <1>6, <1>7, <1>8, <1>9 DEF Next

\* Type correctness of the sending entity.
THEOREM TypeCorrect == Spec => []TypeOK
<1>1. Init => TypeOK
  <2>1. <<>> \in Seq(Pdu) /\ 0 \in 0 .. Len(<<>>) /\ 0 \in 0 .. MaxChanges
    BY BoundsAssumption
  <2>2. IsSender(NewSender)
    BY NewSenderType
  <2>. HIDE DEF NewSender
  <2>3. QED  BY <2>1, <2>2 DEF Init, TypeOK, IsSender
<1>2. QED  BY <1>1, TypeStep, PTL DEF Spec

----------------------------------------------------------------------------
(* The agreement of machine and queue. *)

\* A queue r is the queue q and one more PDU, x.
Extends(r, q, x) ==
  /\ Len(q) \in Nat /\ r \in Seq(Pdu) /\ Len(r) = Len(q) + 1
  /\ r[Len(q) + 1] = x
  /\ \A i \in 1 .. Len(q) : r[i] = q[i]
  /\ \A i \in 1 .. Len(q) : Clean(r, i) <=> Clean(q, i)
  /\ Clean(r, Len(r)) <=> Clean(q, Len(q)) /\ x.type # "NO_PDU"
  /\ \A i \in 1 .. Len(q) + 1 : SentUpTo(r, i) = SentUpTo(q, i)

\* Concatenating one PDU extends a queue.
LEMMA AppendFacts ==
  ASSUME NEW q \in Seq(Pdu), NEW x \in Pdu
  PROVE  Extends(q \o <<x>>, q, x)
<1> DEFINE r == q \o <<x>>
<1>1. r = Append(q, x)
  OBVIOUS
<1>2. /\ r \in Seq(Pdu) /\ Len(r) = Len(q) + 1 /\ Len(q) \in Nat
      /\ r[Len(q) + 1] = x
      /\ \A i \in 1 .. Len(q) : r[i] = q[i]
  BY <1>1
<1>. HIDE DEF r
<1>3. \A i \in 1 .. Len(q) : Clean(r, i) <=> Clean(q, i)
  BY <1>2 DEF Clean
<1>4. Clean(r, Len(r)) <=> Clean(q, Len(q)) /\ x.type # "NO_PDU"
  BY <1>2 DEF Clean
<1>5. \A i \in 1 .. Len(q) + 1 : SentUpTo(r, i) = SentUpTo(q, i)
  BY <1>2 DEF SentUpTo
<1>6. Extends(r, q, x)
  BY <1>2, <1>3, <1>4, <1>5 DEF Extends
<1>7. QED  BY <1>6 DEF r

\* A PDU may be queued after a queue without an EOF, if it has its place there.
LEMMA QueueInvAppend ==
  ASSUME NEW q, NEW x, NEW r, Extends(r, q, x),
         NEW m, NEW n, NEW has_file \in BOOLEAN,
         QueueInv(m, q, has_file), m.state = "S2",
         n.state = "S2" => x.type # "EOF",
         Undisturbed(n, has_file) => Undisturbed(m, has_file),
         Clean(r, Len(r)) => /\ InOrder(r, Len(r))
                             /\ Undisturbed(n, has_file) => EofComplete(r, Len(r))
  PROVE  QueueInv(n, r, has_file)
<1>1. /\ Len(r) = Len(q) + 1 /\ Len(q) \in Nat
      /\ r[Len(q) + 1] = x
      /\ \A i \in 1 .. Len(q) : r[i] = q[i]
      /\ \A i \in 1 .. Len(q) : Clean(r, i) <=> Clean(q, i)
      /\ \A i \in 1 .. Len(q) + 1 : SentUpTo(r, i) = SentUpTo(q, i)
  BY DEF Extends
<1>2. SUFFICES ASSUME NEW i \in 1 .. Len(r)
               PROVE  /\ Clean(r, i) => /\ InOrder(r, i)
                                        /\ Undisturbed(n, has_file) => EofComplete(r, i)
                      /\ n.state = "S2" => r[i].type # "EOF"
  BY DEF QueueInv
<1>3. CASE i = Len(q) + 1
  BY <1>1, <1>3
<1>4. CASE i \in 1 .. Len(q)
  <2>1. q[i].type # "EOF"
    BY <1>4 DEF QueueInv
  <2>2. r[i] = q[i]
    BY <1>1, <1>4
  <2>3. EofComplete(r, i)
    BY <2>1, <2>2 DEF EofComplete
  <2>4. Clean(r, i) => InOrder(q, i)
    BY <1>1, <1>4 DEF QueueInv
  <2>5. InOrder(q, i) => InOrder(r, i)
    <3>1. SentUpTo(r, i) = SentUpTo(q, i)
      BY <1>1, <1>4
    <3>2. i > 1 => r[i - 1] = q[i - 1]
      BY <1>1, <1>4
    <3>3. QED  BY <2>1, <2>2, <3>1, <3>2 DEF InOrder
  <2>6. QED  BY <2>1, <2>2, <2>3, <2>4, <2>5
<1>5. QED  BY <1>1, <1>2, <1>3, <1>4

\* The machine as far as the agreement depends on it.
SameForQueue(n, m) ==
  /\ n.state = m.state /\ n.file = m.file /\ n.tell = m.tell /\ n.file_size = m.file_size
  /\ n.put_request_received = m.put_request_received
  /\ n.eof_sent = m.eof_sent /\ n.finished = m.finished
  /\ n.cancelled = m.cancelled /\ n.abandoned = m.abandoned
  /\ n.is_md_outgoing = m.is_md_outgoing /\ n.is_oef_outgoing = m.is_oef_outgoing

\* Suspending and resuming do not disturb the agreement, nor does a cancellation.
LEMMA AgreeRequests ==
  ASSUME NEW m, IsSender(m), m.put_request_received, NEW q, NEW has_file \in BOOLEAN,
         Agree(m, q, has_file)
  PROVE  /\ Agree(cancel_request(m), q, has_file)
         /\ Agree(suspend_request(m), q, has_file)
         /\ Agree(resume_request(m), q, has_file)
<1>1. ASSUME NEW n, SameForQueue(n, m)
      PROVE  Agree(n, q, has_file)
  BY <1>1 DEF Agree, QueueInv, MachineInv, PositionInv, Undisturbed, SameForQueue
<1>2. Agree(suspend_request(m), q, has_file)
  <2>1. SameForQueue([m EXCEPT !.suspended = TRUE, !.inactivity_timer = "None"], m)
    BY DEF SameForQueue, IsSender, MachineType
  <2>2. suspend(m) = m \/ suspend(m) = [m EXCEPT !.suspended = TRUE, !.inactivity_timer = "None"]
    BY DEF suspend, IsSender
  <2>3. QED  BY <1>1, <2>1, <2>2 DEF suspend_request
<1>3. Agree(resume_request(m), q, has_file)
  <2>1. SameForQueue([m EXCEPT !.suspended = FALSE], m)
    BY DEF SameForQueue, IsSender, MachineType
  <2>2. QED  BY <1>1, <2>1 DEF resume_request
<1>4. Agree(cancel_request(m), q, has_file)
  <2>1. CASE m.state # "S2"
    BY <2>1 DEF cancel_request
  <2>2. CASE m.state = "S2"
    <3> DEFINE n == cancel_request(m)
    <3>1. /\ n.state = m.state /\ n.file = "None" /\ n.cancelled
          /\ n.put_request_received = m.put_request_received /\ n.eof_sent = m.eof_sent
          /\ n.is_md_outgoing = m.is_md_outgoing /\ n.tell = m.tell
      BY <2>2 DEF cancel_request, notify_partner_of_cancel, shutdown, IsSender, MachineType
    <3>. HIDE DEF n
    <3>2. QueueInv(n, q, has_file)
      BY <3>1 DEF Agree, QueueInv, Undisturbed
    <3>3. MachineInv(n, q, has_file)
      BY <2>2, <3>1 DEF Agree, MachineInv, Undisturbed
    <3>4. PositionInv(n, q)
      BY <3>1 DEF PositionInv
    <3>5. QED  BY <3>2, <3>3, <3>4 DEF Agree, n
  <2>3. QED  BY <2>1, <2>2
<1>5. QED  BY <1>2, <1>3, <1>4

\* A Put request starts the agreement.
LEMMA AgreePut ==
  ASSUME NEW words \in Files, NEW opens \in BOOLEAN, NEW h \in HandlerCodes
  PROVE  Agree(put_request(NewSender, words, opens, h), <<>>, opens)
<1> DEFINE started == [NewSender EXCEPT !.put_request_received = TRUE, !.file_size = Len(words),
                                        !.is_md_outgoing = TRUE, !.state = "S2"]
           n == put_request(NewSender, words, opens, h)
<1>1. /\ started.state = "S2" /\ started.put_request_received /\ ~started.eof_sent
      /\ started.file = "None" /\ started.tell = 0
      /\ ~started.cancelled /\ ~started.abandoned
      /\ started.is_md_outgoing /\ ~started.is_oef_outgoing
  BY DEF NewSender, NewMachine
<1>2. IsSender(started)
  <2>1. started \in MachineType(Checksums)
    <3>1. Len(words) \in Nat
      BY FilesAssumption
    <3>2. QED  BY <3>1, NewSenderType DEF IsSender, MachineType
  <2>2. started.role = "CLASS_1_SENDER" /\ started.inactivity_timer = "None"
        /\ started.temp_file = "None"
    BY DEF NewSender, NewMachine
  <2>3. QED  BY <2>1, <2>2 DEF IsSender
<1>3. CASE opens
  <2>1. n = [started EXCEPT !.file = "Open", !.filedata_checksum = calc_checksum(words)]
    BY <1>3 DEF put_request
  <2>. HIDE DEF n, started
  <2>2. /\ n.state = "S2" /\ n.put_request_received /\ ~n.eof_sent
        /\ n.file = "Open" /\ n.tell = 0 /\ ~n.cancelled /\ ~n.abandoned
        /\ n.is_md_outgoing /\ ~n.is_oef_outgoing
    BY <1>1, <1>2, <2>1 DEF IsSender, MachineType
  <2>3. QED  BY <2>2 DEF Agree, QueueInv, MachineInv, PositionInv, n
<1>4. CASE ~opens
  <2>1. n = fault_handler(started, h)
    BY <1>4 DEF put_request
  <2>. HIDE DEF n, started
  <2>2. /\ n.state = "S2" /\ n.put_request_received /\ ~n.eof_sent
        /\ n.file = "None" /\ n.tell = 0
    BY <1>1, <1>2, <2>1, FaultHandlerEffect DEF IsSender
  <2>3. QED  BY <1>4, <2>2 DEF Agree, QueueInv, MachineInv, PositionInv, Undisturbed, n
<1>5. QED  BY <1>3, <1>4

\* The turn of file directives keeps the agreement, and leaves no metadata behind unless
\* the transaction is suspended.
LEMMA AgreeDirective ==
  ASSUME NEW m, IsSender(m), m.put_request_received, NEW q \in Seq(Pdu),
         NEW has_file \in BOOLEAN, Agree(m, q, has_file),
         NEW d, d = send_file_directive(m)
  PROVE  /\ Agree(d.machine, q \o d.pdus, has_file)
         /\ d.machine.put_request_received
         /\ d.machine.state = "S2" /\ ~d.machine.suspended => ~d.machine.is_md_outgoing
<1> DEFINE n == d.machine
           r == q \o d.pdus
<1>1. IsSender(n) /\ d.pdus \in Seq(Pdu)
  BY DirectiveType
<1>2. CASE d.machine = m /\ d.pdus = <<>> /\ ~(m.state = "S2" /\ ~m.suspended /\ m.is_md_outgoing)
  <2>1. r = q
    BY <1>2
  <2>2. QED  BY <1>2, <2>1
<1>3. CASE /\ m.state = "S2" /\ ~m.suspended /\ m.is_md_outgoing
           /\ n = [m EXCEPT !.is_md_outgoing = FALSE]
           /\ d.pdus = <<MetadataPdu(m.file_size)>>
  <2> DEFINE x == MetadataPdu(m.file_size)
  <2>1. x.type = "METADATA" /\ x \in Pdu
    <3>1. x \in Pdu
      BY <1>1, <1>3
    <3>2. QED  BY <3>1 DEF MetadataPdu
  <2>. HIDE DEF x, n, r
  <2>2. /\ SameForQueue([n EXCEPT !.is_md_outgoing = TRUE], m)
        /\ ~n.is_md_outgoing
        /\ n.state = m.state /\ n.file = m.file /\ n.tell = m.tell /\ n.file_size = m.file_size
        /\ n.put_request_received = m.put_request_received
        /\ n.eof_sent = m.eof_sent
        /\ n.cancelled = m.cancelled /\ n.abandoned = m.abandoned
        /\ n.is_oef_outgoing = m.is_oef_outgoing
    BY <1>3 DEF IsSender, MachineType, SameForQueue
  <2>3. q = <<>> /\ m.tell = 0
    BY <1>3 DEF Agree, MachineInv
  <2>4. r = <<x>>
    BY <1>3, <2>3 DEF r, x
  <2>5. Len(r) = 1 /\ r[1] = x
    BY <2>4
  <2>6. QueueInv(n, r, has_file)
    BY <2>1, <2>5 DEF QueueInv, InOrder, EofComplete
  <2>7. MachineInv(n, r, has_file)
    BY <1>3, <2>2 DEF Agree, MachineInv, Undisturbed
  <2>8. PositionInv(n, r)
    <3>1. SentUpTo(r, 2) = 0
      BY <2>1, <2>5 DEF SentUpTo
    <3>2. n.tell = 0 /\ r # <<>>
      BY <2>2, <2>3, <2>5
    <3>3. QED  BY <2>1, <2>5, <3>1, <3>2 DEF PositionInv
  <2>9. QED  BY <1>3, <2>2, <2>6, <2>7, <2>8 DEF Agree, n, r
<1>4. CASE /\ m.state = "S2" /\ ~m.suspended /\ ~m.is_md_outgoing /\ m.is_oef_outgoing
           /\ n = shutdown(finish_transaction([m EXCEPT !.eof_sent = TRUE, !.state = "S1"]))
           /\ d.pdus = <<make_eof_pdu(m)>>
  <2> DEFINE x == make_eof_pdu(m)
             marked == [m EXCEPT !.eof_sent = TRUE, !.state = "S1"]
             f == finish_transaction(marked)
  <2>1. x.type = "EOF" /\ x.file_size = m.file_size /\ x \in Pdu
    <3>1. x \in Pdu
      BY <1>1, <1>4
    <3>2. QED  BY <3>1 DEF make_eof_pdu, EofPdu
  <2>2. /\ marked.state = "S1" /\ marked.eof_sent /\ IsSender(marked)
        /\ marked.put_request_received = m.put_request_received
        /\ marked.cancelled = m.cancelled /\ marked.abandoned = m.abandoned
    BY DEF IsSender, MachineType
  <2>. HIDE DEF x, marked
  <2>3. /\ f.state = "S1" /\ f.eof_sent /\ f.finished /\ IsSender(f)
        /\ f.put_request_received = m.put_request_received
        /\ f.cancelled = m.cancelled /\ f.abandoned = m.abandoned
    <3>1. IsSender(f)
      BY <2>2, FinishSender
    <3>2. /\ f.state = marked.state /\ f.eof_sent = marked.eof_sent /\ f.finished
          /\ f.put_request_received = marked.put_request_received
          /\ f.cancelled = marked.cancelled /\ f.abandoned = marked.abandoned
      BY <2>2 DEF IsSender, MachineType, finish_transaction, f
    <3>3. QED  BY <2>2, <3>1, <3>2
  <2>. HIDE DEF f, n, r
  <2>4. n = shutdown(f)
    BY <1>4 DEF f, marked
  <2>5. /\ n.state = "S1" /\ n.eof_sent /\ n.finished /\ n.file = "None"
        /\ n.put_request_received = m.put_request_received
        /\ n.cancelled = m.cancelled /\ n.abandoned = m.abandoned
    BY <2>3, <2>4 DEF IsSender, MachineType, shutdown
  <2>6. r = q \o <<x>>
    BY <1>4 DEF r, x
  <2>6a. Extends(r, q, x)
    BY <2>1, <2>6, AppendFacts
  <2>7. /\ Len(r) = Len(q) + 1 /\ r[Len(r)] = x
        /\ Clean(r, Len(r)) => Clean(q, Len(q))
        /\ SentUpTo(r, Len(r)) = SentUpTo(q, Len(q) + 1)
    BY <2>6a DEF Extends
  <2>8. InOrder(r, Len(r))
    BY <2>1, <2>7 DEF InOrder
  <2>9. Clean(r, Len(r)) /\ Undisturbed(n, has_file) => EofComplete(r, Len(r))
    <3>1. SUFFICES ASSUME Clean(r, Len(r)), Undisturbed(n, has_file)
                   PROVE  SentUpTo(q, Len(q) + 1) = m.file_size
      BY <2>1, <2>7 DEF EofComplete
    <3>2. m.file = "Open"
      BY <1>4, <2>5, <3>1 DEF Agree, MachineInv, Undisturbed
    <3>3. m.tell = m.file_size
      BY <1>4, <3>2 DEF Agree, MachineInv
    <3>4. SentUpTo(q, Len(q) + 1) = m.tell
      BY <1>4, <2>7, <3>1, <3>2 DEF Agree, PositionInv
    <3>5. QED  BY <3>3, <3>4
  <2>10. QueueInv(n, r, has_file)
    <3>1. Undisturbed(n, has_file) => Undisturbed(m, has_file)
      BY <2>5 DEF Undisturbed
    <3>2. QueueInv(m, q, has_file)
      BY DEF Agree
    <3>3. n.state = "S2" => x.type # "EOF"
      BY <2>5
    <3>4. Clean(r, Len(r)) => /\ InOrder(r, Len(r))
                              /\ Undisturbed(n, has_file) => EofComplete(r, Len(r))
      BY <2>8, <2>9
    <3>5. m.state = "S2"
      BY <1>4
    <3>6. QED  BY <2>6a, <3>1, <3>2, <3>3, <3>4, <3>5, QueueInvAppend
  <2>11. MachineInv(n, r, has_file)
    BY <2>5 DEF MachineInv
  <2>12. PositionInv(n, r)
    BY <2>5 DEF PositionInv
  <2>13. QED  BY <2>5, <2>10, <2>11, <2>12 DEF Agree, n, r
<1>5. QED  BY <1>2, <1>3, <1>4 DEF send_file_directive, Step

\* The turn of file data keeps the agreement, once the metadata is queued.
LEMMA AgreeData ==
  ASSUME NEW m, IsSender(m), m.put_request_received, NEW q \in Seq(Pdu),
         NEW has_file \in BOOLEAN, Agree(m, q, has_file),
         m.state = "S2" /\ ~m.suspended => ~m.is_md_outgoing,
         NEW words \in Files, NEW h \in HandlerCodes
  PROVE  LET d == send_file_data(m, words, h)
         IN  Agree(d.machine, q \o d.pdus, has_file)
<1> DEFINE d == send_file_data(m, words, h)
           n == d.machine
           r == q \o d.pdus
           data == Segment(words, m.tell)
<1>. SUFFICES Agree(d.machine, q \o d.pdus, has_file)
  OBVIOUS
<1>0. QueueInv(m, q, has_file) /\ MachineInv(m, q, has_file) /\ PositionInv(m, q)
  BY DEF Agree
<1>1. CASE n = m /\ d.pdus = <<>>
  <2>1. r = q
    BY <1>1
  <2>2. QED  BY <1>1, <2>1
<1>2. CASE /\ m.state = "S2" /\ ~m.suspended
           /\ m.file = "None" \/ m.tell = m.file_size
           /\ n = [m EXCEPT !.is_oef_outgoing = TRUE, !.condition_code = "NO_ERROR"]
           /\ d.pdus = <<>>
  <2>1. r = q
    BY <1>2
  <2>. HIDE DEF n
  <2>2. /\ n.state = m.state /\ n.file = m.file /\ n.tell = m.tell /\ n.file_size = m.file_size
        /\ n.put_request_received = m.put_request_received
        /\ n.eof_sent = m.eof_sent
        /\ n.cancelled = m.cancelled /\ n.abandoned = m.abandoned
        /\ n.is_md_outgoing = m.is_md_outgoing
    BY <1>2 DEF IsSender, MachineType
  <2>3. QueueInv(n, q, has_file)
    BY <1>0, <2>2 DEF QueueInv, Undisturbed
  <2>4. MachineInv(n, q, has_file)
    BY <1>0, <1>2, <2>2 DEF MachineInv, Undisturbed
  <2>5. PositionInv(n, q)
    BY <1>0, <2>2 DEF PositionInv
  <2>6. QED  BY <2>1, <2>3, <2>4, <2>5 DEF Agree, n
<1>3. CASE /\ m.state = "S2" /\ ~m.suspended
           /\ m.file # "None" /\ m.tell # m.file_size
           /\ n = [m EXCEPT !.tell = m.tell + Len(data)]
           /\ d.pdus = <<FileDataPdu(m.tell, data)>>
  <2> DEFINE x == FileDataPdu(m.tell, data)
             t == m.tell + Len(data)
  <2>1. x.type = "FILE_DATA" /\ x.segment_offset = m.tell /\ x.data = data /\ x \in Pdu
    <3>1. d.pdus \in Seq(Pdu)
      BY DataType
    <3>2. x \in Pdu
      BY <1>3, <3>1
    <3>. HIDE DEF data
    <3>3. QED  BY <3>2 DEF FileDataPdu
  <2>2. m.file = "Open"
    BY <1>3 DEF IsSender, MachineType
  <2>3. n = [m EXCEPT !.tell = t]
    BY <1>3
  <2>4. r = q \o <<x>>
    BY <1>3
  <2>4a. x.segment_offset + Len(x.data) = t
    BY <2>1
  <2>. HIDE DEF x, n, r, t
  <2>5. Extends(r, q, x)
    BY <2>1, <2>4, AppendFacts
  <2>6. /\ n.state = m.state /\ n.file = m.file /\ n.tell = t /\ n.file_size = m.file_size
        /\ n.put_request_received = m.put_request_received
        /\ n.eof_sent = m.eof_sent
        /\ n.cancelled = m.cancelled /\ n.abandoned = m.abandoned
        /\ n.is_md_outgoing = m.is_md_outgoing /\ n.is_oef_outgoing = m.is_oef_outgoing
    BY <2>3 DEF IsSender, MachineType
  <2>7. ~m.is_oef_outgoing /\ ~m.is_md_outgoing
    BY <1>0, <1>3, <2>2 DEF MachineInv
  <2>8. Clean(r, Len(r)) => /\ InOrder(r, Len(r))
                            /\ Undisturbed(n, has_file) => EofComplete(r, Len(r))
    <3>1. SUFFICES ASSUME Clean(r, Len(r))
                   PROVE  InOrder(r, Len(r)) /\ EofComplete(r, Len(r))
      OBVIOUS
    <3>2. /\ q # <<>> /\ q[Len(q)].type \in {"METADATA", "FILE_DATA"}
          /\ SentUpTo(q, Len(q) + 1) = m.tell
      BY <1>0, <2>2, <2>5, <2>7, <3>1 DEF PositionInv, Extends
    <3>3. Len(q) > 0
      BY <3>2
    <3>4. /\ Len(r) = Len(q) + 1 /\ Len(q) \in Nat /\ r[Len(r)] = x
          /\ r[Len(r) - 1] = q[Len(q)] /\ SentUpTo(r, Len(r)) = SentUpTo(q, Len(q) + 1)
      BY <2>5, <3>3 DEF Extends
    <3>5. EofComplete(r, Len(r))
      BY <2>1, <3>4 DEF EofComplete
    <3>6. InOrder(r, Len(r))
      BY <2>1, <3>2, <3>3, <3>4 DEF InOrder
    <3>7. QED  BY <3>5, <3>6
  <2>9. QueueInv(n, r, has_file)
    <3>1. Undisturbed(n, has_file) => Undisturbed(m, has_file)
      BY <2>6 DEF Undisturbed
    <3>2. n.state = "S2" => x.type # "EOF"
      BY <2>1
    <3>3. QED  BY <1>0, <1>3, <2>5, <2>8, <3>1, <3>2, QueueInvAppend, SMTT(30)
  <2>10. MachineInv(n, r, has_file)
    BY <1>0, <1>3, <2>2, <2>6, <2>7 DEF MachineInv, Undisturbed
  <2>11. PositionInv(n, r)
    <3>1. /\ Len(r) = Len(q) + 1 /\ Len(q) \in Nat /\ r[Len(r)] = x
      BY <2>5 DEF Extends
    <3>2. SentUpTo(r, Len(r) + 1) = t
      BY <2>1, <2>4a, <3>1 DEF SentUpTo
    <3>3. r # <<>>
      BY <3>1
    <3>4. QED  BY <2>1, <2>6, <3>1, <3>2, <3>3 DEF PositionInv
  <2>12. QED  BY <2>9, <2>10, <2>11 DEF Agree, n, r
<1>4. CASE /\ m.state = "S2" /\ ~m.suspended
           /\ n = fault_handler(m, h)
           /\ d.pdus = <<NoPdu>>
  <2>1. NoPdu.type = "NO_PDU" /\ NoPdu \in Pdu
    BY DEF NoPdu, Pdu
  <2>. HIDE DEF n, r
  <2>2. r = q \o <<NoPdu>>
    BY <1>4 DEF r
  <2>3. Extends(r, q, NoPdu)
    BY <2>1, <2>2, AppendFacts
  <2>4. ~Clean(r, Len(r))
    BY <2>1, <2>3 DEF Extends
  <2>5. /\ n.state = m.state /\ n.tell = m.tell /\ n.file_size = m.file_size
        /\ n.put_request_received = m.put_request_received /\ n.eof_sent = m.eof_sent
        /\ \/ /\ n.file = m.file /\ n.cancelled = m.cancelled /\ n.abandoned = m.abandoned
              /\ n.is_md_outgoing = m.is_md_outgoing /\ n.is_oef_outgoing = m.is_oef_outgoing
           \/ /\ n.file = "None"
              /\ n.cancelled \/ n.abandoned
              /\ m.cancelled => n.cancelled
              /\ m.abandoned => n.abandoned
              /\ n.is_md_outgoing => m.is_md_outgoing
    BY <1>4, FaultHandlerEffect, ZenonT(60) DEF IsSender
  <2>6. QueueInv(n, r, has_file)
    <3>1. Undisturbed(n, has_file) => Undisturbed(m, has_file)
      BY <2>5 DEF Undisturbed
    <3>2. n.state = "S2" => NoPdu.type # "EOF"
      BY <2>1
    <3>3. Clean(r, Len(r)) => /\ InOrder(r, Len(r))
                              /\ Undisturbed(n, has_file) => EofComplete(r, Len(r))
      BY <2>4
    <3>4. QED  BY <1>0, <1>4, <2>3, <3>1, <3>2, <3>3, QueueInvAppend
  <2>7. MachineInv(n, r, has_file)
    BY <1>0, <1>4, <2>5 DEF MachineInv, Undisturbed
  <2>8. PositionInv(n, r)
    BY <2>4 DEF PositionInv
  <2>9. QED  BY <2>6, <2>7, <2>8 DEF Agree, n, r
<1>5. \/ n = m /\ d.pdus = <<>>
      \/ /\ m.state = "S2" /\ ~m.suspended
         /\ m.file = "None" \/ m.tell = m.file_size
         /\ n = [m EXCEPT !.is_oef_outgoing = TRUE, !.condition_code = "NO_ERROR"]
         /\ d.pdus = <<>>
      \/ /\ m.state = "S2" /\ ~m.suspended
         /\ m.file # "None" /\ m.tell # m.file_size
         /\ n = [m EXCEPT !.tell = m.tell + Len(data)]
         /\ d.pdus = <<FileDataPdu(m.tell, data)>>
      \/ /\ m.state = "S2" /\ ~m.suspended
         /\ m.file # "None" /\ m.tell # m.file_size /\ data = <<>>
         /\ n = fault_handler(m, h)
         /\ d.pdus = <<NoPdu>>
  BY ONLY DataCases
<1>. HIDE DEF d, data
<1>6. QED  BY <1>1, <1>2, <1>3, <1>4, <1>5

\* Every step keeps the agreement.
LEMMA AgreementStep ==
  ASSUME TypeOK, Agreement, [Next]_vars
  PROVE  Agreement'
<1>1. /\ IsSender(sender) /\ source \in Files /\ handler \in HandlerCodes
      /\ outgoing \in Seq(Pdu) /\ opened \in BOOLEAN /\ Agree(sender, outgoing, opened)
      /\ transmitted \in 0 .. Len(outgoing) /\ Clean(outgoing, transmitted)
  BY FaultHandlersAssumption DEF TypeOK, IsSender, Agreement
<1>2. CASE UNCHANGED <<sender, outgoing, opened, transmitted>>
  BY <1>1, <1>2 DEF Agreement
<1>3. CASE Connect \/ Disconnect \/ SourceChanges \/ UNCHANGED vars
  BY <1>2, <1>3 DEF Connect, Disconnect, SourceChanges, vars, fileVars, kernelVars
<1>4. ASSUME NEW opens \in BOOLEAN, Put(opens)
      PROVE  Agreement'
  <2>1. sender = NewSender /\ outgoing = <<>>
    BY <1>1, <1>4 DEF Put, Agree, MachineInv
  <2>2. /\ sender' = put_request(NewSender, source, opens, handler)
        /\ opened' = opens /\ outgoing' = <<>> /\ transmitted' = transmitted
    BY <1>4, <2>1 DEF Put, kernelVars
  <2>3. Agree(sender', outgoing', opened')
    BY <1>1, <2>2, AgreePut
  <2>4. QED  BY <1>1, <2>1, <2>2, <2>3 DEF Agreement
<1>5. CASE Cancel \/ Suspend \/ Resume
  <2>1. UNCHANGED <<outgoing, opened, transmitted>>
    BY <1>5 DEF Cancel, Suspend, Resume, kernelVars, fileVars
  <2>2. Agree(sender', outgoing, opened)
    BY <1>1, <1>5, AgreeRequests DEF Cancel, Suspend, Resume
  <2>3. QED  BY <1>1, <2>1, <2>2 DEF Agreement
<1>6. CASE TransactionHandler
  <2> DEFINE directive == send_file_directive(sender)
             data == send_file_data(directive.machine, source, handler)
             q == outgoing \o directive.pdus
  <2>1. /\ sender.put_request_received /\ sender' = data.machine
        /\ outgoing' = q \o data.pdus
        /\ UNCHANGED <<opened, transmitted>>
    BY <1>6 DEF TransactionHandler, fileVars
  <2>2. IsSender(directive.machine) /\ directive.pdus \in Seq(Pdu)
    BY <1>1, DirectiveType
  <2>3. data.pdus \in Seq(Pdu)
    BY <1>1, <2>2, DataType
  <2>4. /\ Agree(directive.machine, q, opened)
        /\ directive.machine.put_request_received
        /\ directive.machine.state = "S2" /\ ~directive.machine.suspended
             => ~directive.machine.is_md_outgoing
    BY <1>1, <2>1, AgreeDirective
  <2>. HIDE DEF directive
  <2>5. q \in Seq(Pdu)
    BY <1>1, <2>2, ConcatProperties
  <2>. HIDE DEF q
  <2>6. Agree(data.machine, q \o data.pdus, opened)
    BY <1>1, <2>2, <2>4, <2>5, AgreeData
  <2>. HIDE DEF data
  <2>7. Clean(outgoing', transmitted)
    <3>1. \A i \in 1 .. Len(outgoing) : q[i] = outgoing[i] /\ i \in 1 .. Len(q)
      BY <1>1, <2>2, ConcatProperties DEF q
    <3>2. \A i \in 1 .. Len(q) : outgoing'[i] = q[i]
      BY <2>1, <2>3, <2>5, ConcatProperties
    <3>3. \A i \in 1 .. transmitted : i \in 1 .. Len(outgoing)
      BY <1>1
    <3>4. \A i \in 1 .. transmitted : outgoing'[i] = outgoing[i]
      BY <3>1, <3>2, <3>3
    <3>5. QED  BY <1>1, <3>4 DEF Clean
  <2>8. QED  BY <2>1, <2>6, <2>7 DEF Agreement
<1>7. ASSUME NEW accepted \in BOOLEAN, SendToSocket(accepted)
      PROVE  Agreement'
  <2>1. UNCHANGED <<sender, outgoing, opened>>
    BY <1>7 DEF SendToSocket, fileVars
  <2>2. \/ transmitted' = transmitted
        \/ transmitted' = transmitted + 1 /\ outgoing[transmitted + 1].type # "NO_PDU"
    BY <1>7 DEF SendToSocket, Encodable
  <2>3. Clean(outgoing, transmitted')
    BY <1>1, <2>2 DEF Clean
  <2>4. QED  BY <1>1, <2>1, <2>3 DEF Agreement
<1>8. QED  BY <1>3, <1>4, <1>5, <1>6, <1>7 DEF Next

\* The machine and the queue agree in every reachable state.
THEOREM AgreementHolds == Spec => []Agreement
<1>1. Init => Agreement
  BY DEF Init, Agreement, Agree, QueueInv, MachineInv, PositionInv, Clean,
         NewSender, NewMachine
<1>2. QED  BY <1>1, AgreementStep, TypeCorrect, PTL DEF Spec

----------------------------------------------------------------------------
(* What leaves the entity. *)

\* What was sent is part of a clean queue, so it is in order.
LEMMA SentInOrder ==
  ASSUME TypeOK, Agreement, NEW i \in 1 .. transmitted
  PROVE  /\ InOrder(outgoing, i)
         /\ Undisturbed(sender, opened) => EofComplete(outgoing, i)
<1>1. transmitted \in Nat /\ i \in 1 .. Len(outgoing)
  BY DEF TypeOK
<1>2. Clean(outgoing, i)
  BY <1>1 DEF Agreement, Clean
<1>3. QED  BY <1>1, <1>2 DEF Agreement, Agree, QueueInv

\* The order of the PDUs on the wire.
THEOREM WireOrderHolds == Spec => []WireOrder
<1>1. TypeOK /\ Agreement => WireOrder
  BY SentInOrder DEF WireOrder
<1>2. QED  BY <1>1, TypeCorrect, AgreementHolds, PTL

\* The EOF of an undisturbed transaction follows the whole file.
THEOREM EofAfterWholeFileHolds == Spec => []EofAfterWholeFile
<1>1. TypeOK /\ Agreement => EofAfterWholeFile
  BY SentInOrder DEF EofAfterWholeFile
<1>2. QED  BY <1>1, TypeCorrect, AgreementHolds, PTL

----------------------------------------------------------------------------
(* What the file data adds up to. *)

\* f[i] is the file data among the first i PDUs of a queue.
Gathers(f, q) ==
  /\ f[0] = <<>>
  /\ \A i \in 1 .. Len(q) :
       f[i] = IF q[i].type = "FILE_DATA" THEN f[i - 1] \o q[i].data ELSE f[i - 1]

\* The file data of a queue is gathered PDU by PDU.
LEMMA FileDataGathered ==
  ASSUME NEW q \in Seq(Pdu)
  PROVE  \E f \in [0 .. Len(q) -> Seq(Nat)] : Gathers(f, q) /\ FileDataOf(q) = f[Len(q)]
<1> DEFINE n == Len(q)
           Body(g) == [i \in 0 .. Len(q) |->
                         IF i = 0 THEN <<>>
                         ELSE IF q[i].type = "FILE_DATA" THEN g[i - 1] \o q[i].data
                         ELSE g[i - 1]]
           step == [t \in (1 .. n) \X Seq(Nat) |->
                      IF q[t[1]].type = "FILE_DATA" THEN t[2] \o q[t[1]].data ELSE t[2]]
           h == CHOOSE g : g = Body(g)
<1>1. n \in Nat /\ \A i \in 1 .. n : q[i] \in Pdu
  OBVIOUS
<1>2. \A i \in 1 .. n : q[i].type = "FILE_DATA" => q[i].data \in Seq(Nat)
  BY <1>1 DEF Pdu, NoPdu
<1>3. step \in [(1 .. n) \X Seq(Nat) -> Seq(Nat)]
  <2>1. \A t \in (1 .. n) \X Seq(Nat) :
          (IF q[t[1]].type = "FILE_DATA" THEN t[2] \o q[t[1]].data ELSE t[2]) \in Seq(Nat)
    BY <1>2, ConcatProperties
  <2>2. QED  BY <2>1
<1>4. \A i \in 1 .. n : \A s \in Seq(Nat) :
        step[<<i, s>>] = IF q[i].type = "FILE_DATA" THEN s \o q[i].data ELSE s
  OBVIOUS
<1>. HIDE DEF step
<1>5. PICK f \in [0 .. n -> Seq(Nat)] : Iterates(f, n, <<>>, step)
  BY <1>1, <1>3, EmptySeq, IterationExists
<1>6. Gathers(f, q)
  <2>1. ASSUME NEW i \in 1 .. n
        PROVE  f[i] = IF q[i].type = "FILE_DATA" THEN f[i - 1] \o q[i].data ELSE f[i - 1]
    <3>1. f[i - 1] \in Seq(Nat)
      <4>1. i - 1 \in 0 .. n
        BY <1>1
      <4>. HIDE DEF n
      <4>2. QED  BY <4>1
    <3>2. f[i] = step[<<i, f[i - 1]>>]
      BY <1>5 DEF Iterates
    <3>3. QED  BY <1>4, <3>1, <3>2
  <2>2. QED  BY <1>5, <2>1 DEF Gathers, Iterates
<1>7. f = Body(f)
  <2>1. ASSUME NEW i \in 0 .. n
        PROVE  f[i] = Body(f)[i]
    <3>1. CASE i = 0
      <4>1. f[0] = <<>>
        BY <1>6 DEF Gathers
      <4>2. Body(f)[0] = <<>>
        BY <1>1
      <4>3. f[0] = Body(f)[0]
        BY <4>1, <4>2
      <4>4. QED  BY <3>1, <4>3
    <3>2. CASE i \in 1 .. n
      <4>1. f[i] = IF q[i].type = "FILE_DATA" THEN f[i - 1] \o q[i].data ELSE f[i - 1]
        BY <1>6, <3>2 DEF Gathers
      <4>2. i \in 0 .. Len(q) /\ i # 0
        BY <1>1, <3>2
      <4>3. QED  BY <4>1, <4>2
    <3>3. i = 0 \/ i \in 1 .. n
      BY <1>1
    <3>. HIDE DEF Body
    <3>4. QED  BY <3>1, <3>2, <3>3
  <2>2. DOMAIN f = DOMAIN Body(f) /\ f = [i \in DOMAIN f |-> f[i]]
    OBVIOUS
  <2>3. QED  BY <2>1, <2>2
<1>8. h = Body(h)
  BY <1>7
<1>9. FileDataOf(q) = h[n]
  BY DEF FileDataOf
<1>10. h[0] = <<>> /\ \A i \in 1 .. n :
         h[i] = IF q[i].type = "FILE_DATA" THEN h[i - 1] \o q[i].data ELSE h[i - 1]
  <2>. HIDE DEF h
  <2>1. Body(h)[0] = <<>>
    BY <1>1
  <2>2. ASSUME NEW i \in 1 .. n
        PROVE  Body(h)[i] = IF q[i].type = "FILE_DATA" THEN h[i - 1] \o q[i].data ELSE h[i - 1]
    <3>1. i \in 0 .. Len(q) /\ i # 0
      BY <1>1
    <3>2. QED  BY <3>1
  <2>. HIDE DEF Body
  <2>3. QED  BY <1>8, <2>1, <2>2
<1>. HIDE DEF h, Body
<1>11. \A i \in 0 .. n : f[i] = h[i]
  <2>1. \A i \in 1 .. n : f[i - 1] = h[i - 1] => f[i] = h[i]
    BY <1>6, <1>10 DEF Gathers
  <2>2. f[0] = h[0]
    BY <1>6, <1>10 DEF Gathers
  <2>3. StepAlike(f, h, n)
    BY <2>1, <2>2 DEF StepAlike
  <2>4. QED  BY <1>1, <2>3, IterationsAgree
<1>12. FileDataOf(q) = f[n]
  BY <1>1, <1>9, <1>11
<1>13. QED  BY <1>6, <1>12

\* An empty queue has none.
LEMMA NoFileData == FileDataOf(<<>>) = <<>>
<1>1. <<>> \in Seq(Pdu) /\ Len(<<>>) = 0
  BY EmptySeq
<1>2. QED  BY <1>1, FileDataGathered DEF Gathers

\* One more PDU adds what it carries.
LEMMA FileDataAdded ==
  ASSUME NEW q \in Seq(Pdu), NEW x, NEW r, Extends(r, q, x)
  PROVE  /\ FileDataOf(r) = IF x.type = "FILE_DATA" THEN FileDataOf(q) \o x.data
                            ELSE FileDataOf(q)
         /\ FileDataOf(q) \in Seq(Nat)
<1>1. /\ r \in Seq(Pdu) /\ Len(q) \in Nat /\ Len(r) = Len(q) + 1 /\ r[Len(q) + 1] = x
      /\ \A i \in 1 .. Len(q) : r[i] = q[i]
  BY DEF Extends
<1>2. PICK f \in [0 .. Len(q) -> Seq(Nat)] : Gathers(f, q) /\ FileDataOf(q) = f[Len(q)]
  BY FileDataGathered
<1>3. PICK g \in [0 .. Len(r) -> Seq(Nat)] : Gathers(g, r) /\ FileDataOf(r) = g[Len(r)]
  BY <1>1, FileDataGathered
<1>4. \A i \in 0 .. Len(q) : f[i] = g[i]
  <2>1. ASSUME NEW i \in 1 .. Len(q), f[i - 1] = g[i - 1]
        PROVE  f[i] = g[i]
    <3>1. i \in 1 .. Len(r) /\ r[i] = q[i]
      BY <1>1
    <3>2. f[i] = IF q[i].type = "FILE_DATA" THEN f[i - 1] \o q[i].data ELSE f[i - 1]
      BY <1>2 DEF Gathers
    <3>3. g[i] = IF r[i].type = "FILE_DATA" THEN g[i - 1] \o r[i].data ELSE g[i - 1]
      BY <1>3, <3>1 DEF Gathers
    <3>4. QED  BY <2>1, <3>1, <3>2, <3>3
  <2>2. f[0] = g[0]
    BY <1>2, <1>3 DEF Gathers
  <2> DEFINE n == Len(q)
  <2>3. n \in Nat /\ \A i \in 1 .. n : f[i - 1] = g[i - 1] => f[i] = g[i]
    BY <1>1, <2>1
  <2>. HIDE DEF n
  <2>4. StepAlike(f, g, n)
    BY <2>2, <2>3 DEF StepAlike
  <2>5. \A i \in 0 .. n : f[i] = g[i]
    BY <2>3, <2>4, IterationsAgree
  <2>6. QED  BY <2>5 DEF n
<1>5. g[Len(q)] = FileDataOf(q)
  BY <1>1, <1>2, <1>4
<1>6. g[Len(q) + 1] = IF x.type = "FILE_DATA" THEN g[Len(q)] \o x.data ELSE g[Len(q)]
  BY <1>1, <1>3 DEF Gathers
<1>7. QED  BY <1>1, <1>2, <1>3, <1>5, <1>6

\* An EOF that reports success names the size and the checksum of the data before it.
Describes(q, i) ==
  q[i].type = "EOF" /\ q[i].condition_code = "NO_ERROR" =>
    LET data == FileDataOf(SubSeq(q, 1, i))
    IN  Len(data) = q[i].file_size /\ calc_checksum(data) = q[i].file_checksum

\* While the file is open, what was queued is what was read of it: words, as they were when
\* the size and the checksum were taken.
DataInv(m, q, has_file, words) ==
  /\ m.file = "Open" =>
       /\ m.file_size = Len(words) /\ m.filedata_checksum = calc_checksum(words)
       /\ m.tell <= Len(words)
       /\ FileDataOf(q) = SubSeq(words, 1, m.tell)
  /\ Undisturbed(m, has_file) => \A i \in 1 .. Len(q) : Describes(q, i)

DescribedInv == changes = 0 => DataInv(sender, outgoing, opened, source)

\* The machine as far as the file data depends on it.
SameForData(n, m) ==
  /\ n.file = m.file /\ n.file_size = m.file_size /\ n.tell = m.tell
  /\ n.filedata_checksum = m.filedata_checksum
  /\ n.cancelled = m.cancelled /\ n.abandoned = m.abandoned

\* Such a machine has the same data.
LEMMA SameData ==
  ASSUME NEW m, NEW n, SameForData(n, m), NEW q, NEW has_file, NEW words,
         DataInv(m, q, has_file, words)
  PROVE  DataInv(n, q, has_file, words)
BY DEF SameForData, DataInv, Undisturbed

\* Suspending, resuming and cancelling keep what was queued.
LEMMA DataRequests ==
  ASSUME NEW m, IsSender(m), NEW q, NEW has_file, NEW words, DataInv(m, q, has_file, words)
  PROVE  /\ DataInv(cancel_request(m), q, has_file, words)
         /\ DataInv(suspend_request(m), q, has_file, words)
         /\ DataInv(resume_request(m), q, has_file, words)
<1>1. DataInv(suspend_request(m), q, has_file, words)
  <2>1. SameForData([m EXCEPT !.suspended = TRUE, !.inactivity_timer = "None"], m)
    BY DEF SameForData, IsSender, MachineType
  <2>2. suspend(m) = m \/ suspend(m) = [m EXCEPT !.suspended = TRUE, !.inactivity_timer = "None"]
    BY DEF suspend, IsSender
  <2>3. QED  BY <2>1, <2>2, SameData DEF suspend_request
<1>2. DataInv(resume_request(m), q, has_file, words)
  <2>1. SameForData([m EXCEPT !.suspended = FALSE], m)
    BY DEF SameForData, IsSender, MachineType
  <2>2. QED  BY <2>1, SameData DEF resume_request
<1>3. DataInv(cancel_request(m), q, has_file, words)
  <2>1. CASE m.state # "S2"
    BY <2>1 DEF cancel_request
  <2>2. CASE m.state = "S2"
    <3> DEFINE n == cancel_request(m)
    <3>1. n.file = "None" /\ n.cancelled
      BY <2>2 DEF cancel_request, notify_partner_of_cancel, shutdown, IsSender, MachineType
    <3>. HIDE DEF n
    <3>2. DataInv(n, q, has_file, words)
      BY <3>1 DEF DataInv, Undisturbed
    <3>3. QED  BY <3>2 DEF n
  <2>3. QED  BY <2>1, <2>2
<1>4. QED  BY <1>1, <1>2, <1>3

\* A Put request takes size and checksum of the file it opens.
LEMMA DataPut ==
  ASSUME NEW words \in Files, NEW opens \in BOOLEAN, NEW h \in HandlerCodes
  PROVE  DataInv(put_request(NewSender, words, opens, h), <<>>, opens, words)
<1> DEFINE started == [NewSender EXCEPT !.put_request_received = TRUE, !.file_size = Len(words),
                                        !.is_md_outgoing = TRUE, !.state = "S2"]
           n == put_request(NewSender, words, opens, h)
<1>1. words \in Seq(Nat) /\ Len(words) \in Nat
  BY FilesAssumption
<1>2. started.file = "None" /\ started.tell = 0 /\ started.file_size = Len(words)
  BY DEF NewSender, NewMachine
<1>3. IsSender(started)
  <2>1. started \in MachineType(Checksums)
    BY <1>1, NewSenderType DEF IsSender, MachineType
  <2>2. started.role = "CLASS_1_SENDER" /\ started.inactivity_timer = "None"
        /\ started.temp_file = "None"
    BY DEF NewSender, NewMachine
  <2>3. QED  BY <2>1, <2>2 DEF IsSender
<1>4. CASE opens
  <2>1. n = [started EXCEPT !.file = "Open", !.filedata_checksum = calc_checksum(words)]
    BY <1>4 DEF put_request
  <2>. HIDE DEF n, started
  <2>2. /\ n.tell = 0 /\ n.file_size = Len(words) /\ n.filedata_checksum = calc_checksum(words)
    BY <1>2, <1>3, <2>1 DEF IsSender, MachineType
  <2>3. FileDataOf(<<>>) = SubSeq(words, 1, 0)
    <3>1. SubSeq(words, 1, 0) = <<>>
      BY SubSeqEmpty
    <3>2. QED  BY <3>1, NoFileData
  <2>4. DataInv(n, <<>>, opens, words)
    BY <1>1, <2>2, <2>3, EmptySeq DEF DataInv
  <2>5. QED  BY <2>4 DEF n
<1>5. CASE ~opens
  <2>1. n = fault_handler(started, h)
    BY <1>5 DEF put_request
  <2>. HIDE DEF n, started
  <2>2. n.file = "None"
    BY <1>2, <1>3, <2>1, FaultHandlerEffect DEF IsSender
  <2>3. DataInv(n, <<>>, opens, words)
    BY <2>2, EmptySeq DEF DataInv
  <2>4. QED  BY <2>3 DEF n
<1>6. QED  BY <1>4, <1>5

\* The EOF that a directive queues describes the file, all of which was read.
LEMMA DataDirective ==
  ASSUME NEW m, IsSender(m), NEW q \in Seq(Pdu), NEW has_file \in BOOLEAN,
         Agree(m, q, has_file), NEW words \in Files, DataInv(m, q, has_file, words)
  PROVE  LET d == send_file_directive(m)
         IN  DataInv(d.machine, q \o d.pdus, has_file, words)
<1> DEFINE d == send_file_directive(m)
           n == d.machine
<1>. SUFFICES DataInv(n, q \o d.pdus, has_file, words)
  OBVIOUS
<1>1. d.pdus \in Seq(Pdu) /\ words \in Seq(Nat)
  BY DirectiveType, FilesAssumption
<1>2. CASE n = m /\ d.pdus = <<>>
  <2>1. q \o d.pdus = q
    BY <1>2
  <2>2. QED  BY <1>2, <2>1
<1>3. CASE /\ m.state = "S2"
           /\ n = [m EXCEPT !.is_md_outgoing = FALSE]
           /\ d.pdus = <<MetadataPdu(m.file_size)>>
  <2> DEFINE x == MetadataPdu(m.file_size)
             r == q \o <<x>>
  <2>1. x \in Pdu /\ x.type = "METADATA"
    <3>1. x \in Pdu
      BY <1>1, <1>3
    <3>2. QED  BY <3>1 DEF MetadataPdu
  <2>2. q \o d.pdus = r
    BY <1>3
  <2>. HIDE DEF x, n
  <2>3. Extends(r, q, x)
    BY <2>1, AppendFacts
  <2>. HIDE DEF r
  <2>4. SameForData(n, m)
    BY <1>3 DEF SameForData, IsSender, MachineType
  <2>5. FileDataOf(r) = FileDataOf(q)
    BY <2>1, <2>3, FileDataAdded
  <2>6. \A i \in 1 .. Len(r) : Describes(r, i)
    BY <1>3, <2>1, <2>3 DEF Extends, Agree, QueueInv, Describes
  <2>7. QED  BY <2>2, <2>4, <2>5, <2>6 DEF DataInv, SameForData
<1>4. CASE /\ m.state = "S2" /\ ~m.is_md_outgoing /\ m.is_oef_outgoing
           /\ n = shutdown(finish_transaction([m EXCEPT !.eof_sent = TRUE, !.state = "S1"]))
           /\ d.pdus = <<make_eof_pdu(m)>>
  <2> DEFINE x == make_eof_pdu(m)
             r == q \o <<x>>
  <2>1. /\ x \in Pdu /\ x.type = "EOF"
        /\ x.file_size = m.file_size /\ x.file_checksum = m.filedata_checksum
    <3>1. x \in Pdu
      BY <1>1, <1>4
    <3>2. QED  BY <3>1 DEF make_eof_pdu, EofPdu
  <2>2. q \o d.pdus = r
    BY <1>4
  <2>. HIDE DEF x, n
  <2>3. Extends(r, q, x)
    BY <2>1, AppendFacts
  <2>. HIDE DEF r
  <2>4. n.file = "None" /\ n.cancelled = m.cancelled /\ n.abandoned = m.abandoned
    <3> DEFINE e == [m EXCEPT !.eof_sent = TRUE, !.state = "S1"]
               f == finish_transaction(e)
    <3>1. e.cancelled = m.cancelled /\ e.abandoned = m.abandoned /\ IsSender(e)
      BY DEF IsSender, MachineType
    <3>. HIDE DEF e
    <3>2. f.cancelled = e.cancelled /\ f.abandoned = e.abandoned
      BY <3>1 DEF finish_transaction, IsSender, MachineType
    <3>3. IsSender(f)
      BY <3>1, FinishSender
    <3>. HIDE DEF f
    <3>4. /\ shutdown(f).file = "None"
          /\ shutdown(f).cancelled = f.cancelled /\ shutdown(f).abandoned = f.abandoned
      BY <3>3 DEF shutdown, IsSender, MachineType
    <3>5. QED  BY <1>4, <3>1, <3>2, <3>4 DEF e, f
  <2>5. ASSUME Undisturbed(m, has_file)
        PROVE  Len(FileDataOf(r)) = m.file_size /\ calc_checksum(FileDataOf(r)) = m.filedata_checksum
    <3>1. m.file = "Open" /\ m.tell = m.file_size
      BY <1>4, <2>5 DEF Agree, MachineInv
    <3>2. FileDataOf(q) = SubSeq(words, 1, Len(words))
      BY <3>1 DEF DataInv
    <3>3. FileDataOf(q) = words
      BY <1>1, <3>2, SubSeqFull
    <3>4. FileDataOf(r) = words
      BY <2>1, <2>3, <3>3, FileDataAdded
    <3>5. QED  BY <3>1, <3>4 DEF DataInv
  <2>6. ASSUME Undisturbed(m, has_file), NEW i \in 1 .. Len(r)
        PROVE  Describes(r, i)
    <3>1. CASE i \in 1 .. Len(q)
      BY <1>4, <2>3, <3>1 DEF Extends, Agree, QueueInv, Describes
    <3>2. CASE i = Len(r)
      <4>1. SubSeq(r, 1, Len(r)) = r /\ r[Len(r)] = x
        BY <2>3, SubSeqFull DEF Extends
      <4>2. QED  BY <2>1, <2>5, <2>6, <3>2, <4>1 DEF Describes
    <3>3. QED  BY <2>3, <3>1, <3>2 DEF Extends
  <2>7. QED  BY <2>2, <2>4, <2>6 DEF DataInv, Undisturbed
<1>5. QED  BY <1>2, <1>3, <1>4, DirectiveCases

\* What a turn of file data reads follows what was read before.
LEMMA DataTurn ==
  ASSUME NEW m, IsSender(m), NEW q \in Seq(Pdu), NEW has_file \in BOOLEAN,
         Agree(m, q, has_file), NEW words \in Files, DataInv(m, q, has_file, words),
         NEW h \in HandlerCodes
  PROVE  LET d == send_file_data(m, words, h)
         IN  DataInv(d.machine, q \o d.pdus, has_file, words)
<1> DEFINE d == send_file_data(m, words, h)
           n == d.machine
           data == Segment(words, m.tell)
<1>. SUFFICES DataInv(n, q \o d.pdus, has_file, words)
  OBVIOUS
<1>1. /\ d.pdus \in Seq(Pdu) /\ words \in Seq(Nat) /\ Len(words) \in Nat /\ m.tell \in Nat
      /\ m.file \in {"None", "Open"}
  <2>1. d.pdus \in Seq(Pdu)
    BY DataType
  <2>2. words \in Seq(Nat) /\ Len(words) \in Nat
    BY FilesAssumption
  <2>3. m.tell \in Nat /\ m.file \in {"None", "Open"}
    BY DEF IsSender, MachineType
  <2>4. QED  BY <2>1, <2>2, <2>3
<1>2. CASE n = m /\ d.pdus = <<>>
  <2>1. q \o d.pdus = q
    BY <1>2
  <2>2. QED  BY <1>2, <2>1
<1>3. CASE /\ n = [m EXCEPT !.is_oef_outgoing = TRUE, !.condition_code = "NO_ERROR"]
           /\ d.pdus = <<>>
  <2>1. q \o d.pdus = q
    BY <1>3
  <2>. HIDE DEF n
  <2>2. SameForData(n, m)
    BY <1>3 DEF SameForData, IsSender, MachineType
  <2>3. DataInv(n, q, has_file, words)
    BY <2>2, SameData
  <2>4. QED  BY <2>1, <2>3
<1>4. CASE /\ m.state = "S2" /\ m.file # "None" /\ m.tell # m.file_size
           /\ n = [m EXCEPT !.tell = m.tell + Len(data)]
           /\ d.pdus = <<FileDataPdu(m.tell, data)>>
  <2> DEFINE x == FileDataPdu(m.tell, data)
             r == q \o <<x>>
             t == m.tell + Len(data)
  <2>1. x \in Pdu /\ x.type = "FILE_DATA" /\ x.data = data
    <3>1. x \in Pdu
      BY <1>1, <1>4
    <3>. HIDE DEF data
    <3>2. QED  BY <3>1 DEF FileDataPdu
  <2>2. q \o d.pdus = r
    BY <1>4
  <2>3. /\ m.file = "Open" /\ m.tell <= Len(words) /\ m.file_size = Len(words)
        /\ m.filedata_checksum = calc_checksum(words)
        /\ FileDataOf(q) = SubSeq(words, 1, m.tell)
    BY <1>1, <1>4 DEF DataInv
  <2>4. t \in Nat /\ t <= Len(words) /\ SubSeq(words, 1, m.tell) \o data = SubSeq(words, 1, t)
    BY <1>1, <2>3, SegmentFollows
  <2>. HIDE DEF x, n, data
  <2>5. Extends(r, q, x)
    BY <2>1, AppendFacts
  <2>. HIDE DEF r
  <2>6. FileDataOf(r) = SubSeq(words, 1, t)
    BY <2>1, <2>3, <2>4, <2>5, FileDataAdded
  <2>. HIDE DEF t
  <2>7. /\ n.tell = t /\ n.file = m.file /\ n.file_size = m.file_size
        /\ n.filedata_checksum = m.filedata_checksum
    <3>1. n = [m EXCEPT !.tell = t]
      BY <1>4 DEF t
    <3>2. QED  BY <3>1 DEF IsSender, MachineType
  <2>8. \A i \in 1 .. Len(r) : Describes(r, i)
    BY <1>4, <2>1, <2>5 DEF Extends, Agree, QueueInv, Describes
  <2>9. QED  BY <2>2, <2>3, <2>4, <2>6, <2>7, <2>8 DEF DataInv
<1>5. CASE m.state = "S2" /\ m.file # "None" /\ m.tell # m.file_size /\ data = <<>>
  <2>1. m.tell < Len(words)
    BY <1>1, <1>5 DEF DataInv
  <2>2. QED  BY <1>1, <1>5, <2>1, SegmentFollows
<1>6. \/ d.machine = m /\ d.pdus = <<>>
      \/ /\ m.state = "S2" /\ ~m.suspended
         /\ m.file = "None" \/ m.tell = m.file_size
         /\ d.machine = [m EXCEPT !.is_oef_outgoing = TRUE, !.condition_code = "NO_ERROR"]
         /\ d.pdus = <<>>
      \/ /\ m.state = "S2" /\ ~m.suspended
         /\ m.file # "None" /\ m.tell # m.file_size
         /\ d.machine = [m EXCEPT !.tell = m.tell + Len(data)]
         /\ d.pdus = <<FileDataPdu(m.tell, data)>>
      \/ /\ m.state = "S2" /\ ~m.suspended
         /\ m.file # "None" /\ m.tell # m.file_size /\ data = <<>>
         /\ d.machine = fault_handler(m, h)
         /\ d.pdus = <<NoPdu>>
  BY ONLY DataCases
<1>. HIDE DEF d, data
<1>7. QED  BY <1>2, <1>3, <1>4, <1>5, <1>6

\* Every step keeps file data, size and checksum together.
LEMMA DescribedStep ==
  ASSUME TypeOK, Agreement, DescribedInv, [Next]_vars
  PROVE  DescribedInv'
<1>1. /\ IsSender(sender) /\ source \in Files /\ handler \in HandlerCodes
      /\ outgoing \in Seq(Pdu) /\ opened \in BOOLEAN /\ Agree(sender, outgoing, opened)
  BY FaultHandlersAssumption DEF TypeOK, IsSender, Agreement
<1>2. CASE UNCHANGED <<sender, outgoing, opened, source, changes>>
  BY <1>2 DEF DescribedInv
<1>3. CASE Connect \/ Disconnect \/ UNCHANGED vars
  BY <1>2, <1>3 DEF Connect, Disconnect, vars, fileVars, kernelVars
<1>4. ASSUME NEW opens \in BOOLEAN, Put(opens)
      PROVE  DescribedInv'
  <2>1. sender = NewSender /\ outgoing = <<>>
    BY <1>1, <1>4 DEF Put, Agree, MachineInv
  <2>2. /\ sender' = put_request(NewSender, source, opens, handler)
        /\ opened' = opens /\ outgoing' = <<>> /\ source' = source
    BY <1>4, <2>1 DEF Put, kernelVars
  <2>3. QED  BY <1>1, <2>2, DataPut DEF DescribedInv
<1>5. CASE Cancel \/ Suspend \/ Resume
  <2>1. UNCHANGED <<outgoing, opened, source, changes>>
    BY <1>5 DEF Cancel, Suspend, Resume, kernelVars, fileVars
  <2>2. QED  BY <1>1, <1>5, <2>1, DataRequests DEF Cancel, Suspend, Resume, DescribedInv
<1>6. CASE TransactionHandler
  <2> DEFINE directive == send_file_directive(sender)
             data == send_file_data(directive.machine, source, handler)
             q == outgoing \o directive.pdus
  <2>1. /\ sender.put_request_received /\ sender' = data.machine
        /\ outgoing' = q \o data.pdus
        /\ UNCHANGED <<opened, source, changes>>
    BY <1>6 DEF TransactionHandler, fileVars
  <2>2. IsSender(directive.machine) /\ directive.pdus \in Seq(Pdu)
    BY <1>1, DirectiveType
  <2>3. Agree(directive.machine, q, opened)
    BY <1>1, <2>1, AgreeDirective
  <2>4. changes = 0 => DataInv(directive.machine, q, opened, source)
    BY <1>1, DataDirective DEF DescribedInv
  <2>. HIDE DEF directive
  <2>5. q \in Seq(Pdu)
    BY <1>1, <2>2, ConcatProperties
  <2>. HIDE DEF q
  <2>6. changes = 0 => DataInv(data.machine, q \o data.pdus, opened, source)
    BY <1>1, <2>2, <2>3, <2>4, <2>5, DataTurn
  <2>. HIDE DEF data
  <2>7. QED  BY <2>1, <2>6 DEF DescribedInv
<1>7. ASSUME NEW accepted \in BOOLEAN, SendToSocket(accepted)
      PROVE  DescribedInv'
  BY <1>2, <1>7 DEF SendToSocket, fileVars
<1>8. CASE SourceChanges
  <2>1. changes' # 0
    BY <1>8 DEF SourceChanges, TypeOK
  <2>2. QED  BY <2>1 DEF DescribedInv
<1>9. QED  BY <1>3, <1>4, <1>5, <1>6, <1>7, <1>8 DEF Next

\* The EOF of an undisturbed transaction names the size and the checksum of the file data
\* sent before it, whatever the file holds, unless it was rewritten meanwhile.
THEOREM EofDescribesDataHolds == Spec => []EofDescribesData
<1>1. Init => DescribedInv
  <2>1. NewSender.file = "None"
    BY DEF NewSender, NewMachine
  <2>2. QED  BY <2>1, EmptySeq DEF Init, DescribedInv, DataInv
<1>2. TypeOK /\ Agreement /\ DescribedInv /\ [Next]_vars => DescribedInv'
  BY DescribedStep
<1>3. TypeOK /\ DescribedInv => EofDescribesData
  <2> SUFFICES ASSUME TypeOK, DescribedInv, NEW i \in 1 .. transmitted,
                      outgoing[i].type = "EOF", outgoing[i].condition_code = "NO_ERROR",
                      Undisturbed(sender, opened), changes = 0
               PROVE  LET data == FileDataOf(SubSeq(outgoing, 1, i))
                      IN  /\ Len(data) = outgoing[i].file_size
                          /\ calc_checksum(data) = outgoing[i].file_checksum
    BY DEF EofDescribesData
  <2>1. i \in 1 .. Len(outgoing)
    BY DEF TypeOK
  <2>2. Describes(outgoing, i)
    BY <2>1 DEF DescribedInv, DataInv
  <2>3. QED  BY <2>2 DEF Describes
<1>4. QED  BY <1>1, <1>2, <1>3, TypeCorrect, AgreementHolds, PTL DEF Spec

----------------------------------------------------------------------------
(* What a step may never do. *)

\* Outside S2, and while it is suspended, a machine has nothing to say.
LEMMA SilentTurn ==
  ASSUME TypeOK, TransactionHandler, sender.state # "S2" \/ sender.suspended
  PROVE  UNCHANGED <<sender, outgoing>>
<1> DEFINE directive == send_file_directive(sender)
           data == send_file_data(directive.machine, source, handler)
<1>1. directive.machine = sender /\ directive.pdus = <<>>
  BY DEF send_file_directive, Step
<1>2. send_file_data(sender, source, handler) = Step(sender, <<>>)
  BY DEF send_file_data
<1>3. data.machine = sender /\ data.pdus = <<>>
  BY <1>1, <1>2 DEF Step
<1>4. sender' = data.machine /\ outgoing' = outgoing \o directive.pdus \o data.pdus
  BY DEF TransactionHandler
<1>. HIDE DEF directive, data
<1>5. outgoing' = outgoing \o <<>> \o <<>>
  BY <1>1, <1>3, <1>4
<1>6. outgoing \in Seq(Pdu)
  BY DEF TypeOK
<1>7. QED  BY <1>3, <1>4, <1>5, <1>6

\* A suspended transaction queues nothing: its turns leave machine and queue alone.
THEOREM SuspendedIsSilentHolds == Spec => SuspendedIsSilent
<1>1. ASSUME TypeOK, [Next]_vars, sender.suspended
      PROVE  UNCHANGED outgoing
  <2>1. CASE TransactionHandler
    BY <1>1, <2>1, SilentTurn
  <2>2. CASE ~TransactionHandler
    BY <1>1, <2>2 DEF Next, Connect, Disconnect, Put, Cancel, Suspend, Resume, SendToSocket,
                      SourceChanges, vars, kernelVars, fileVars
  <2>3. QED  BY <2>1, <2>2
<1>2. TypeOK /\ [Next]_vars => [sender.suspended => UNCHANGED outgoing]_vars
  BY <1>1
<1>3. QED  BY <1>2, TypeCorrect, PTL DEF Spec, SuspendedIsSilent

\* A finished transaction is left alone: in S1 its machine reacts to nothing.
THEOREM FinishedIsFinalHolds == Spec => FinishedIsFinal
<1>1. ASSUME TypeOK, Agreement, [Next]_vars, sender.eof_sent
      PROVE  UNCHANGED <<sender, outgoing>>
  <2>1. sender.put_request_received /\ sender.state = "S1"
    BY <1>1 DEF Agreement, Agree, MachineInv
  <2>2. CASE TransactionHandler
    BY <1>1, <2>1, <2>2, SilentTurn
  <2>3. CASE Cancel \/ Suspend \/ Resume
    BY <2>1, <2>3 DEF Cancel, Suspend, Resume, cancel_request, suspend_request,
                      resume_request, kernelVars
  <2>4. CASE ~TransactionHandler /\ ~Cancel /\ ~Suspend /\ ~Resume
    BY <1>1, <2>1, <2>4 DEF Next, Connect, Disconnect, Put, SendToSocket,
                            SourceChanges, vars, kernelVars, fileVars
  <2>5. QED  BY <2>2, <2>3, <2>4
<1>2. TypeOK /\ Agreement /\ [Next]_vars => [sender.eof_sent => UNCHANGED <<sender, outgoing>>]_vars
  BY <1>1
<1>3. QED  BY <1>2, TypeCorrect, AgreementHolds, PTL DEF Spec, FinishedIsFinal

\* A cancelled transaction has closed its file, so its turn can at most mark the EOF.
THEOREM NoDataAfterCancelHolds == Spec => NoDataAfterCancel
<1>1. ASSUME TypeOK, Agreement, TransactionHandler, sender.cancelled,
             NEW i \in Len(outgoing) + 1 .. Len(outgoing')
      PROVE  outgoing'[i].type # "FILE_DATA"
  <2> DEFINE directive == send_file_directive(sender)
             data == send_file_data(directive.machine, source, handler)
  <2>1. IsSender(sender) /\ outgoing \in Seq(Pdu)
    BY <1>1 DEF TypeOK, IsSender
  <2>2. sender.file = "None"
    BY <1>1, <2>1 DEF Agreement, Agree, MachineInv, IsSender, MachineType
  <2>3. sender.put_request_received /\ Agree(sender, outgoing, opened) /\ opened \in BOOLEAN
    BY <1>1 DEF TransactionHandler, Agreement, TypeOK
  <2>4. /\ directive.machine.file = "None"
        /\ \/ directive.pdus = <<>>
           \/ directive.pdus = <<MetadataPdu(sender.file_size)>>
           \/ directive.pdus = <<make_eof_pdu(sender)>>
    <3> DEFINE marked == [sender EXCEPT !.eof_sent = TRUE, !.state = "S1"]
               metadata == [sender EXCEPT !.is_md_outgoing = FALSE]
    <3>1. shutdown(finish_transaction(marked)).file = "None"
      <4>1. IsSender(marked)
        BY <2>1 DEF IsSender, MachineType
      <4>. HIDE DEF marked
      <4>2. IsSender(finish_transaction(marked))
        BY <4>1, FinishSender
      <4>3. QED  BY <4>2 DEF IsSender, MachineType, shutdown
    <3>2. metadata.file = "None"
      BY <2>1, <2>2 DEF IsSender, MachineType
    <3>3. QED  BY <2>2, <3>1, <3>2 DEF send_file_directive, Step
  <2>. HIDE DEF directive
  <2>5. data.pdus = <<>>
    BY <2>4 DEF send_file_data, Step
  <2>6. outgoing' = outgoing \o directive.pdus \o data.pdus
    BY <1>1 DEF TransactionHandler, directive
  <2>. HIDE DEF data
  <2>7. CASE directive.pdus = <<>>
    <3>1. outgoing' = outgoing
      BY <2>1, <2>5, <2>6, <2>7
    <3>2. QED  BY <1>1, <2>1, <3>1
  <2>8. ASSUME NEW x, directive.pdus = <<x>>, x.type # "FILE_DATA"
        PROVE  outgoing'[i].type # "FILE_DATA"
    <3>1. directive.pdus \in Seq(Pdu)
      BY <2>1, DirectiveType DEF directive
    <3>2. x \in Pdu
      BY <2>8, <3>1
    <3>3. outgoing' = outgoing \o <<x>>
      BY <2>1, <2>5, <2>6, <2>8, <3>2
    <3>4. Extends(outgoing', outgoing, x)
      BY <2>1, <3>2, <3>3, AppendFacts
    <3>5. i = Len(outgoing) + 1
      BY <1>1, <3>4 DEF Extends
    <3>6. QED  BY <2>8, <3>4, <3>5 DEF Extends
  <2>9. MetadataPdu(sender.file_size).type # "FILE_DATA" /\ make_eof_pdu(sender).type # "FILE_DATA"
    BY DEF MetadataPdu, make_eof_pdu, EofPdu
  <2>10. QED  BY <2>4, <2>7, <2>8, <2>9
<1>2. ASSUME TypeOK, [Next]_vars, ~TransactionHandler
      PROVE  UNCHANGED outgoing /\ Len(outgoing) \in Nat
  BY <1>2 DEF Next, Connect, Disconnect, Put, Cancel, Suspend, Resume, SendToSocket,
              SourceChanges, vars, kernelVars, fileVars, TypeOK
<1>3. ASSUME TypeOK, Agreement, [Next]_vars, sender.cancelled
      PROVE  \A i \in Len(outgoing) + 1 .. Len(outgoing') : outgoing'[i].type # "FILE_DATA"
  <2>1. CASE TransactionHandler
    BY <1>1, <1>3, <2>1
  <2>2. CASE ~TransactionHandler
    BY <1>2, <1>3, <2>2
  <2>3. QED  BY <2>1, <2>2
<1>4. TypeOK /\ Agreement /\ [Next]_vars =>
        [sender.cancelled => \A i \in Len(outgoing) + 1 .. Len(outgoing') :
                               outgoing'[i].type # "FILE_DATA"]_vars
  BY <1>3
<1>5. QED  BY <1>4, TypeCorrect, AgreementHolds, PTL DEF Spec, NoDataAfterCancel
============================================================================
