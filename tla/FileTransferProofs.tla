------------------------- MODULE FileTransferProofs -------------------------
(***************************************************************************)
(* What a file transfer delivers, for every set of files, segment length,  *)
(* checksum modulus, length field, MIB setting and number of duplicates,   *)
(* over a network that loses, duplicates and reorders datagrams as it      *)
(* likes.                                                                  *)
(***************************************************************************)
EXTENDS FileTransfer, SendingEntityProofs

----------------------------------------------------------------------------
(* The sending entity is not disturbed by what it is connected to. *)

\* A step of the transfer is one of the sending entity or leaves it as it is.
LEMMA SenderStep == [TransferNext]_transferVars => [Next]_vars
<1>1. RequestOfSender => Next
  BY DEF RequestOfSender, Next
<1>2. QueuePdus => Next
  BY DEF QueuePdus, Next
<1>3. \A accepted \in BOOLEAN : Send(accepted) => Next
  BY DEF Send, Next
<1>4. \A i \in DOMAIN net, succeeds \in BOOLEAN : Deliver(i, succeeds) => UNCHANGED vars
  BY DEF Deliver, senderVars, vars
<1>5. \A i \in DOMAIN net : Duplicate(i) => UNCHANGED vars
  BY DEF Duplicate, senderVars, vars
<1>6. ReceiverOnItsOwn => UNCHANGED vars
  BY DEF ReceiverOnItsOwn, senderVars, vars
<1>7. UNCHANGED transferVars => UNCHANGED vars
  BY DEF transferVars, senderVars, vars
<1>8. QED  BY <1>1, <1>2, <1>3, <1>4, <1>5, <1>6, <1>7 DEF TransferNext

\* The transfer implements the sending entity: whatever holds of the entity on its own
\* holds of it when a receiver and a network are at its other end.
THEOREM SenderInTransfer == TransferSpec => Spec
<1>1. TransferInit => Init
  BY DEF TransferInit
<1>2. QED  BY <1>1, SenderStep, PTL DEF TransferSpec, Spec

----------------------------------------------------------------------------
(* Pieces of a file. *)

\* A piece cut off at its end is a piece of the file too.
LEMMA PartOfPart ==
  ASSUME NEW words \in Seq(Nat), NEW data \in Seq(Nat), NEW offset \in Nat,
         IsPartOf(data, offset, words), NEW n \in Int, n <= Len(data)
  PROVE  /\ SubSeq(data, 1, n) \in Seq(Nat)
         /\ IsPartOf(SubSeq(data, 1, n), offset, words)
<1> DEFINE part == SubSeq(data, 1, n)
<1>1. Len(data) \in Nat /\ Len(words) \in Nat
  OBVIOUS
<1>2. \A i \in 1 .. n : data[i] \in Nat
  BY <1>1
<1>3. /\ part \in Seq(Nat)
      /\ Len(part) = IF 1 <= n THEN n - 1 + 1 ELSE 0
      /\ \A i \in 1 .. n - 1 + 1 : part[i] = data[1 + i - 1]
  BY <1>2, SubSeqProperties
<1>. HIDE DEF part
<1>4. Len(part) <= Len(data) /\ Len(part) \in Nat
  BY <1>1, <1>3
<1>5. \A i \in 1 .. Len(part) : part[i] = data[i]
  BY <1>1, <1>3
<1>6. \A k \in 1 .. Len(data) : data[k] = words[offset + k]
  BY DEF IsPartOf
<1>7. ASSUME NEW k \in 1 .. Len(part)
      PROVE  part[k] = words[offset + k]
  <2>1. k \in 1 .. Len(data)
    BY <1>1, <1>4
  <2>2. QED  BY <1>5, <1>6, <2>1
<1>8. offset + Len(part) <= Len(words)
  BY <1>1, <1>4 DEF IsPartOf
<1>9. QED  BY <1>3, <1>7, <1>8 DEF IsPartOf, part

\* What is read of a file is a piece of it.
LEMMA SegmentIsPart ==
  ASSUME NEW words \in Seq(Nat), NEW offset \in Nat, offset <= Len(words)
  PROVE  IsPartOf(Segment(words, offset), offset, words)
<1> DEFINE end == Least(offset + maximum_file_segment_length, Len(words))
           data == Segment(words, offset)
<1>1. Len(words) \in Nat
  OBVIOUS
<1>2. end \in Nat /\ offset <= end /\ end <= Len(words)
  BY <1>1, SegmentAssumption DEF Least
<1>3. data = SubSeq(words, offset + 1, end)
  BY DEF Segment
<1>. HIDE DEF end
<1>4. \A j \in offset + 1 .. end : words[j] \in Nat
  BY <1>1, <1>2
<1>5. /\ Len(data) = IF offset + 1 <= end THEN end - (offset + 1) + 1 ELSE 0
      /\ \A i \in 1 .. end - (offset + 1) + 1 : data[i] = words[offset + 1 + i - 1]
  <2>1. offset + 1 \in Int /\ end \in Int
    BY <1>2
  <2>2. QED  BY <1>3, <1>4, <2>1, SubSeqProperties
<1>. HIDE DEF data
<1>6. Len(data) = end - offset
  BY <1>2, <1>5
<1>7. ASSUME NEW i \in 1 .. Len(data)
      PROVE  data[i] = words[offset + i]
  <2>1. i \in 1 .. end - (offset + 1) + 1 /\ offset + 1 + i - 1 = offset + i
    BY <1>2, <1>6
  <2>2. QED  BY <1>5, <2>1
<1>8. IsPartOf(data, offset, words)
  BY <1>2, <1>6, <1>7 DEF IsPartOf
<1>9. QED  BY <1>8 DEF data

\* Writing a piece where it belongs keeps an excerpt an excerpt.
LEMMA WriteAtExcerpt ==
  ASSUME NEW words \in Seq(Nat), NEW old \in Seq(Nat), IsExcerpt(old, words),
         NEW data \in Seq(Nat), NEW offset \in Nat, IsPartOf(data, offset, words)
  PROVE  /\ WriteAt(old, offset, data) \in Seq(Nat)
         /\ IsExcerpt(WriteAt(old, offset, data), words)
<1> DEFINE n == IF Len(old) > offset + Len(data) THEN Len(old) ELSE offset + Len(data)
           word(i) == CASE offset < i /\ i <= offset + Len(data) -> data[i - offset]
                        [] (i <= offset \/ offset + Len(data) < i) /\ i <= Len(old) -> old[i]
                        [] OTHER -> 0
           new == WriteAt(old, offset, data)
<1>1. Len(old) \in Nat /\ Len(data) \in Nat /\ Len(words) \in Nat
  OBVIOUS
<1>2. new = [i \in 1 .. n |-> word(i)]
  BY DEF WriteAt
<1>3. n \in Nat /\ n <= Len(words)
  BY <1>1 DEF IsExcerpt, IsPartOf
<1>4. ASSUME NEW i \in 1 .. n
      PROVE  word(i) \in Nat /\ word(i) \in {0, words[i]}
  <2>1. i \in Nat /\ i >= 1
    BY <1>3
  <2>2. CASE offset < i /\ i <= offset + Len(data)
    <3>1. i - offset \in 1 .. Len(data) /\ offset + (i - offset) = i
      <4> DEFINE L == Len(data)
      <4>1. L \in Nat /\ offset < i /\ i <= offset + L
        BY <1>1, <2>2
      <4>. HIDE DEF L
      <4>2. i - offset \in 1 .. L /\ offset + (i - offset) = i
        BY <2>1, <4>1
      <4>3. QED  BY <4>2 DEF L
    <3>2. word(i) = data[i - offset]
      BY <2>2, SMTT(30)
    <3>3. data[i - offset] = words[offset + (i - offset)]
      BY <3>1 DEF IsPartOf
    <3>4. data[i - offset] \in Nat
      <4>1. \A k \in 1 .. Len(data) : data[k] \in Nat
        OBVIOUS
      <4>2. QED  BY <3>1, <4>1, Zenon
    <3>. HIDE DEF word
    <3>5. QED  BY <3>1, <3>2, <3>3, <3>4
  <2>3. CASE (i <= offset \/ offset + Len(data) < i) /\ i <= Len(old)
    <3>1. ~(offset < i /\ i <= offset + Len(data))
      BY <1>1, <2>1, <2>3
    <3>2. word(i) = old[i]
      BY <2>3, <3>1
    <3>3. i \in 1 .. Len(old)
      BY <1>1, <2>1, <2>3
    <3>4. old[i] \in Nat
      BY <3>3, ElementOfSeq
    <3>5. old[i] \in {0, words[i]}
      BY <3>3 DEF IsExcerpt
    <3>. HIDE DEF word
    <3>6. QED  BY <3>2, <3>4, <3>5
  <2>4. CASE /\ ~(offset < i /\ i <= offset + Len(data))
             /\ ~((i <= offset \/ offset + Len(data) < i) /\ i <= Len(old))
    <3>1. word(i) = 0
      BY <2>4
    <3>. HIDE DEF word
    <3>2. QED  BY <3>1
  <2>5. QED  BY <2>2, <2>3, <2>4
<1>. HIDE DEF n, word
<1>5. new \in Seq(Nat) /\ Len(new) = n
  <2>1. new \in [1 .. n -> Nat]
    BY <1>2, <1>4
  <2>2. QED  BY <1>3, <2>1
<1>6. \A i \in 1 .. n : new[i] \in {0, words[i]}
  BY <1>2, <1>4
<1>. HIDE DEF new
<1>7. IsExcerpt(new, words)
  BY <1>3, <1>5, <1>6 DEF IsExcerpt
<1>8. QED  BY <1>5, <1>7 DEF new

\* An empty file is an excerpt of every file.
LEMMA EmptyExcerpt ==
  ASSUME NEW words \in Seq(Nat)
  PROVE  <<>> \in Seq(Nat) /\ IsExcerpt(<<>>, words)
<1>1. Len(<<>>) = 0 /\ Len(words) \in Nat
  OBVIOUS
<1>2. QED  BY <1>1 DEF IsExcerpt

\* An excerpt with the checksum of a file that the checksum tells is the file.
LEMMA ExcerptIsFile ==
  ASSUME NEW words \in Seq(Nat), NEW data \in Seq(Nat), IsExcerpt(data, words),
         calc_checksum(data) = calc_checksum(words), ChecksumTells(words)
  PROVE  data = words
<1> DEFINE n == Len(data)
           kept == {i \in 1 .. n : data[i] = words[i]}
<1>1. n \in 0 .. Len(words) /\ Len(words) \in Nat
  BY DEF IsExcerpt
<1>2. kept \in SUBSET (1 .. n)
  OBVIOUS
<1>3. Excerpt(words, n, kept) = data
  <2>1. \A i \in 1 .. n : data[i] = IF i \in kept THEN words[i] ELSE 0
    BY DEF IsExcerpt
  <2>2. data = [i \in 1 .. n |-> data[i]]
    OBVIOUS
  <2>. HIDE DEF kept
  <2>3. QED  BY <2>1, <2>2 DEF Excerpt
<1>. HIDE DEF n, kept
<1>4. QED  BY <1>1, <1>2, <1>3 DEF ChecksumTells

----------------------------------------------------------------------------
(* The sending entity knows its file. *)

\* The machine as far as it knows its file; it may have closed it.
SameForSource(n, m) ==
  /\ n.put_request_received = m.put_request_received
  /\ n.file_size = m.file_size /\ n.filedata_checksum = m.filedata_checksum
  /\ n.tell = m.tell
  /\ n.file = m.file \/ n.file = "None"

\* Such a machine knows the file as well.
LEMMA SameSource ==
  ASSUME NEW m, NEW n, SameForSource(n, m), NEW q, NEW words, NEW has_file,
         SourceInv(m, q, words, has_file)
  PROVE  SourceInv(n, q, words, has_file)
BY DEF SameForSource, SourceInv

\* The methods of machine.py do not change what a sender knows of its file.
LEMMA MethodsSource ==
  ASSUME NEW C, NEW m \in MachineType(C)
  PROVE  /\ SameForSource(shutdown(m), m)
         /\ SameForSource(abandon(m), m)
         /\ SameForSource(suspend(m), m)
         /\ SameForSource(cancel(m), m)
         /\ SameForSource(notify_partner_of_cancel(m), m)
         /\ SameForSource(finish_transaction(m), m)
<1>1. SameForSource(shutdown(m), m)
  BY DEF SameForSource, MachineType, shutdown
<1>2. SameForSource(abandon(m), m)
  BY DEF SameForSource, MachineType, shutdown, abandon
<1>3. SameForSource(suspend(m), m)
  <2>1. CASE m.suspended
    BY <2>1 DEF SameForSource, suspend
  <2>2. CASE ~m.suspended
    <3> DEFINE mode == IF m.inactivity_timer = "RUNNING" THEN "PAUSED" ELSE m.inactivity_timer
    <3>1. suspend(m) = [m EXCEPT !.suspended = TRUE, !.inactivity_timer = mode]
      BY <2>2 DEF suspend
    <3>. HIDE DEF mode
    <3>2. QED  BY <3>1 DEF SameForSource, MachineType
  <2>3. QED  BY <2>1, <2>2
<1>4. SameForSource(cancel(m), m)
  BY DEF SameForSource, MachineType, cancel
<1>5. SameForSource(notify_partner_of_cancel(m), m)
  BY DEF SameForSource, MachineType, shutdown, notify_partner_of_cancel
<1>6. SameForSource(finish_transaction(m), m)
  <2> DEFINE status == CASE m.role = "CLASS_1_RECEIVER" -> "NO_METADATA"
                         [] m.role # "CLASS_1_RECEIVER" /\ m.cancelled -> "CANCELLED"
                         [] OTHER -> "SUCCESSFUL"
             timer == StopTimers(m.inactivity_timer)
  <2>1. finish_transaction(m) = [m EXCEPT !.is_oef_outgoing = FALSE, !.is_md_outgoing = FALSE,
                                  !.inactivity_timer = timer,
                                  !.finished = TRUE, !.final_status = status]
    BY DEF finish_transaction
  <2>. HIDE DEF status, timer
  <2>2. QED  BY <2>1 DEF SameForSource, MachineType
<1>7. QED  BY <1>1, <1>2, <1>3, <1>4, <1>5, <1>6

\* Nor does a fault.
LEMMA FaultSource ==
  ASSUME NEW m, IsSender(m), NEW h \in HandlerCodes
  PROVE  SameForSource(fault_handler(m, h), m)
<1> DEFINE marked == [m EXCEPT !.initiated_cancel = TRUE]
           c == cancel(marked)
<1>1. m \in MachineType(Checksums) /\ m.role = "CLASS_1_SENDER"
  BY DEF IsSender
<1>2. marked \in MachineType(Checksums) /\ SameForSource(marked, m)
  BY <1>1 DEF MachineType, SameForSource
<1>. HIDE DEF marked
<1>3. c \in MachineType(Checksums) /\ SameForSource(c, marked)
  BY <1>2, MachineMethods, MethodsSource
<1>. HIDE DEF c
<1>4. SameForSource(notify_partner_of_cancel(c), c)
  BY <1>3, MethodsSource
<1>5. SameForSource(notify_partner_of_cancel(c), m)
  BY <1>2, <1>3, <1>4 DEF SameForSource
<1>6. SameForSource(m, m) /\ SameForSource(abandon(m), m) /\ SameForSource(suspend(m), m)
  BY <1>1, MethodsSource DEF SameForSource
<1>7. \/ fault_handler(m, h) = m
      \/ fault_handler(m, h) = notify_partner_of_cancel(c)
      \/ fault_handler(m, h) = abandon(m)
      \/ fault_handler(m, h) = suspend(m)
  BY <1>1 DEF fault_handler, HandlerCodes, c, marked
<1>8. QED  BY <1>5, <1>6, <1>7

\* Suspending, resuming and cancelling leave the knowledge of the file as it is.
LEMMA RequestsSource ==
  ASSUME NEW m, IsSender(m)
  PROVE  /\ SameForSource(cancel_request(m), m)
         /\ SameForSource(suspend_request(m), m)
         /\ SameForSource(resume_request(m), m)
<1>1. m \in MachineType(Checksums) /\ SameForSource(m, m)
  BY DEF IsSender, SameForSource
<1>2. SameForSource(cancel_request(m), m)
  <2> DEFINE coded == [m EXCEPT !.condition_code = "CANCEL_REQUEST_RECEIVED"]
  <2>1. coded \in MachineType(Checksums) /\ SameForSource(coded, m)
    BY <1>1 DEF MachineType, SameForSource, ConditionCodes
  <2>2. cancel_request(m) = m \/ cancel_request(m) = notify_partner_of_cancel(coded)
    BY DEF cancel_request
  <2>. HIDE DEF coded
  <2>3. SameForSource(notify_partner_of_cancel(coded), coded)
    BY <2>1, MethodsSource
  <2>4. SameForSource(notify_partner_of_cancel(coded), m)
    BY <2>1, <2>3 DEF SameForSource
  <2>5. QED  BY <1>1, <2>2, <2>4
<1>3. SameForSource(suspend_request(m), m)
  BY <1>1, MethodsSource DEF suspend_request
<1>4. SameForSource(resume_request(m), m)
  <2>1. SameForSource([m EXCEPT !.suspended = FALSE], m)
    BY <1>1 DEF MachineType, SameForSource
  <2>2. QED  BY <1>1, <2>1 DEF resume_request
<1>5. QED  BY <1>2, <1>3, <1>4

\* A Put request learns the size of the file, and its checksum if it can open it.
LEMMA PutSource ==
  ASSUME NEW words \in Files, NEW opens \in BOOLEAN, NEW h \in HandlerCodes
  PROVE  SourceInv(put_request(NewSender, words, opens, h), <<>>, words, opens)
<1> DEFINE started == [NewSender EXCEPT !.put_request_received = TRUE, !.file_size = Len(words),
                                        !.is_md_outgoing = TRUE, !.state = "S2"]
           n == put_request(NewSender, words, opens, h)
<1>1. Len(words) \in Nat /\ Len(<<>>) = 0
  BY FilesAssumption
<1>2. /\ started.put_request_received /\ started.tell = 0 /\ started.file = "None"
      /\ started.file_size = Len(words)
  BY DEF NewSender, NewMachine
<1>3. IsSender(started)
  <2>1. started \in MachineType(Checksums)
    BY <1>1, NewSenderType DEF IsSender, MachineType
  <2>2. /\ started.role = "CLASS_1_SENDER" /\ started.inactivity_timer = "None"
        /\ started.temp_file = "None"
    BY DEF NewSender, NewMachine
  <2>3. QED  BY <2>1, <2>2 DEF IsSender
<1>4. CASE opens
  <2>1. n = [started EXCEPT !.file = "Open", !.filedata_checksum = calc_checksum(words)]
    BY <1>4 DEF put_request
  <2>. HIDE DEF n, started
  <2>2. /\ n.tell = 0 /\ n.file_size = Len(words) /\ n.filedata_checksum = calc_checksum(words)
        /\ n.put_request_received
    BY <1>2, <1>3, <2>1 DEF IsSender, MachineType
  <2>3. SourceInv(n, <<>>, words, opens)
    BY <1>1, <1>4, <2>2 DEF SourceInv
  <2>4. QED  BY <2>3 DEF n
<1>5. CASE ~opens
  <2>1. n = fault_handler(started, h)
    BY <1>5 DEF put_request
  <2>. HIDE DEF n, started
  <2>2. SameForSource(n, started)
    BY <1>3, <2>1, FaultSource
  <2>3. SourceInv(n, <<>>, words, opens)
    BY <1>1, <1>2, <1>5, <2>2 DEF SourceInv, SameForSource
  <2>4. QED  BY <2>3 DEF n
<1>6. QED  BY <1>4, <1>5

\* A queue of true PDUs and one more.
LEMMA SourceAppend ==
  ASSUME NEW m, NEW n, NEW words, NEW has_file, NEW q \in Seq(Pdu), NEW x \in Pdu,
         SourceInv(m, q, words, has_file), SourceInv(n, q, words, has_file),
         Truthful(x, words, has_file)
  PROVE  SourceInv(n, q \o <<x>>, words, has_file)
<1> DEFINE r == q \o <<x>>
<1>1. Extends(r, q, x)
  BY AppendFacts
<1>. HIDE DEF r
<1>2. \A k \in 1 .. Len(r) : Truthful(r[k], words, has_file)
  BY <1>1 DEF Extends, SourceInv
<1>3. SourceInv(n, r, words, has_file)
  BY <1>2 DEF SourceInv
<1>4. QED  BY <1>3 DEF r

\* The directives are true of the file: the EOF carries what the Put request learned.
LEMMA DirectiveSource ==
  ASSUME NEW m, IsSender(m), m.put_request_received, NEW q \in Seq(Pdu),
         NEW words \in Files, NEW has_file, SourceInv(m, q, words, has_file)
  PROVE  LET d == send_file_directive(m)
         IN  /\ SourceInv(d.machine, q \o d.pdus, words, has_file)
             /\ d.machine.put_request_received = m.put_request_received
<1> DEFINE d == send_file_directive(m)
           n == d.machine
<1>. SUFFICES /\ SourceInv(n, q \o d.pdus, words, has_file)
              /\ n.put_request_received = m.put_request_received
  OBVIOUS
<1>1. d.pdus \in Seq(Pdu)
  BY DirectiveType
<1>2. CASE n = m /\ d.pdus = <<>>
  <2>1. q \o d.pdus = q
    BY <1>2
  <2>2. QED  BY <1>2, <2>1
<1>3. CASE /\ n = [m EXCEPT !.is_md_outgoing = FALSE]
           /\ d.pdus = <<MetadataPdu(m.file_size)>>
  <2> DEFINE x == MetadataPdu(m.file_size)
  <2>1. x \in Pdu /\ x.type = "METADATA"
    <3>1. x \in Pdu
      BY <1>1, <1>3
    <3>2. QED  BY <3>1 DEF MetadataPdu
  <2>2. q \o d.pdus = q \o <<x>>
    BY <1>3
  <2>. HIDE DEF x, n
  <2>3. SameForSource(n, m)
    BY <1>3 DEF SameForSource, IsSender, MachineType
  <2>4. SourceInv(n, q, words, has_file)
    BY <2>3, SameSource
  <2>5. Truthful(x, words, has_file)
    BY <2>1 DEF Truthful
  <2>6. QED  BY <2>1, <2>2, <2>3, <2>4, <2>5, SourceAppend DEF SameForSource
<1>4. CASE /\ n = shutdown(finish_transaction([m EXCEPT !.eof_sent = TRUE, !.state = "S1"]))
           /\ d.pdus = <<make_eof_pdu(m)>>
  <2> DEFINE x == make_eof_pdu(m)
             e == [m EXCEPT !.eof_sent = TRUE, !.state = "S1"]
             f == finish_transaction(e)
  <2>1. /\ x \in Pdu /\ x.type = "EOF"
        /\ x.file_size = m.file_size /\ x.file_checksum = m.filedata_checksum
    <3>1. x \in Pdu
      BY <1>1, <1>4
    <3>2. QED  BY <3>1 DEF make_eof_pdu, EofPdu
  <2>2. q \o d.pdus = q \o <<x>>
    BY <1>4
  <2>3. n = shutdown(f)
    BY <1>4
  <2>4. IsSender(e) /\ SameForSource(e, m)
    BY DEF IsSender, MachineType, SameForSource
  <2>. HIDE DEF x, n, e
  <2>5. IsSender(f) /\ SameForSource(f, e)
    BY <2>4, FinishSender, MethodsSource DEF IsSender
  <2>. HIDE DEF f
  <2>6. SameForSource(n, f)
    BY <2>3, <2>5, MethodsSource DEF IsSender
  <2>7. SameForSource(n, m)
    BY <2>4, <2>5, <2>6 DEF SameForSource
  <2>8. SourceInv(n, q, words, has_file)
    BY <2>7, SameSource
  <2>9. Truthful(x, words, has_file)
    BY <2>1 DEF Truthful, SourceInv
  <2>10. QED  BY <2>1, <2>2, <2>7, <2>8, <2>9, SourceAppend DEF SameForSource
<1>5. QED  BY <1>2, <1>3, <1>4, DirectiveCases

\* What is read of the file is true of it, and the position stays within it.
LEMMA DataSource ==
  ASSUME NEW m, IsSender(m), NEW q \in Seq(Pdu), NEW words \in Files, NEW has_file,
         SourceInv(m, q, words, has_file), NEW h \in HandlerCodes
  PROVE  LET d == send_file_data(m, words, h)
         IN  /\ SourceInv(d.machine, q \o d.pdus, words, has_file)
             /\ d.machine.put_request_received = m.put_request_received
<1> DEFINE d == send_file_data(m, words, h)
           n == d.machine
           data == Segment(words, m.tell)
<1>. SUFFICES /\ SourceInv(n, q \o d.pdus, words, has_file)
              /\ n.put_request_received = m.put_request_received
  OBVIOUS
<1>1. /\ words \in Seq(Nat) /\ Len(words) \in Nat /\ m.tell \in Nat
      /\ m.file \in {"None", "Open"}
  BY FilesAssumption DEF IsSender, MachineType
<1>2. d.pdus \in Seq(Pdu)
  BY DataType
<1>3. CASE n = m /\ d.pdus = <<>>
  <2>1. q \o d.pdus = q
    BY <1>3
  <2>2. QED  BY <1>3, <2>1
<1>4. CASE /\ n = [m EXCEPT !.is_oef_outgoing = TRUE, !.condition_code = "NO_ERROR"]
           /\ d.pdus = <<>>
  <2>1. q \o d.pdus = q
    BY <1>4
  <2>. HIDE DEF n
  <2>2. SameForSource(n, m)
    BY <1>4 DEF SameForSource, IsSender, MachineType
  <2>3. QED  BY <2>1, <2>2, SameSource DEF SameForSource
<1>5. CASE /\ m.file # "None"
           /\ n = [m EXCEPT !.tell = m.tell + Len(data)]
           /\ d.pdus = <<FileDataPdu(m.tell, data)>>
  <2> DEFINE x == FileDataPdu(m.tell, data)
             t == m.tell + Len(data)
  <2>1. m.file = "Open" /\ m.put_request_received /\ has_file /\ m.tell <= Len(words)
    BY <1>1, <1>5 DEF SourceInv
  <2>2. t \in Nat /\ t <= Len(words) /\ IsPartOf(data, m.tell, words)
    BY <1>1, <2>1, SegmentFollows, SegmentIsPart
  <2>3. /\ x \in Pdu /\ x.type = "FILE_DATA" /\ x.data = data /\ x.segment_offset = m.tell
    <3>1. x \in Pdu
      BY <1>2, <1>5
    <3>. HIDE DEF data
    <3>2. QED  BY <3>1 DEF FileDataPdu
  <2>4. q \o d.pdus = q \o <<x>>
    BY <1>5
  <2>5. n = [m EXCEPT !.tell = t]
    BY <1>5
  <2>. HIDE DEF x, n, data, t
  <2>6. /\ n.tell = t /\ n.file = m.file /\ n.file_size = m.file_size
        /\ n.filedata_checksum = m.filedata_checksum
        /\ n.put_request_received = m.put_request_received
    BY <2>5 DEF IsSender, MachineType
  <2>7. SourceInv(n, q, words, has_file)
    BY <2>1, <2>2, <2>6 DEF SourceInv
  <2>8. Truthful(x, words, has_file)
    BY <2>1, <2>2, <2>3 DEF Truthful
  <2>9. QED  BY <2>3, <2>4, <2>6, <2>7, <2>8, SourceAppend
<1>6. CASE n = fault_handler(m, h) /\ d.pdus = <<NoPdu>>
  <2>1. SourceInv(n, q, words, has_file) /\ n.put_request_received = m.put_request_received
    BY <1>6, FaultSource, SameSource DEF SameForSource
  <2>2. NoPdu \in Pdu /\ Truthful(NoPdu, words, has_file)
    BY DEF Pdu, NoPdu, Truthful
  <2>3. q \o d.pdus = q \o <<NoPdu>>
    BY <1>6
  <2>. HIDE DEF n
  <2>4. QED  BY <2>1, <2>2, <2>3, SourceAppend
<1>7. \/ d.machine = m /\ d.pdus = <<>>
      \/ /\ m.state = "S2" /\ ~m.suspended
         /\ m.file = "None" \/ m.tell = m.file_size
         /\ d.machine = [m EXCEPT !.is_oef_outgoing = TRUE, !.condition_code = "NO_ERROR"]
         /\ d.pdus = <<>>
      \/ /\ m.state = "S2" /\ ~m.suspended
         /\ m.file # "None" /\ m.tell # m.file_size
         /\ d.machine = [m EXCEPT !.tell = m.tell + Len(data)]
         /\ d.pdus = <<FileDataPdu(m.tell, data)>>
      \/ /\ m.state = "S2" /\ ~m.suspended
         /\ m.file # "None" /\ m.tell # m.file_size /\ data = <<>>
         /\ d.machine = fault_handler(m, h)
         /\ d.pdus = <<NoPdu>>
  BY ONLY DataCases
<1>. HIDE DEF d, data
<1>8. QED  BY <1>3, <1>4, <1>5, <1>6, <1>7

----------------------------------------------------------------------------
(* The receiver's machine. *)

\* A machine in the receiving entity: the class does not set its role, and its timer never
\* pauses.
IsReceiver(m) ==
  /\ m \in MachineType(Checksums)
  /\ m.role = "UNDEFINED" /\ m.inactivity_timer \in {"OFF", "RUNNING"}

\* The machine as far as the delivery depends on it.
SameReceipt(n, m) ==
  /\ n.temp_data = m.temp_data /\ n.recv_file_size = m.recv_file_size
  /\ n.delivery_code = m.delivery_code /\ n.final_status = m.final_status

\* The fields of the temporary file can be set.
LEMMA TempFields ==
  ASSUME NEW C, NEW m \in MachineType(C)
  PROVE  /\ \A f \in {"None", "Open", "Closed"} : [m EXCEPT !.temp_file = f] \in MachineType(C)
         /\ \A data \in Seq(Nat) : [m EXCEPT !.temp_data = data] \in MachineType(C)
         /\ \A size \in Nat : [m EXCEPT !.recv_file_size = size] \in MachineType(C)
<1>1. ASSUME NEW f \in {"None", "Open", "Closed"}
      PROVE  [m EXCEPT !.temp_file = f] \in MachineType(C)
  BY Zenon DEF MachineType
<1>2. ASSUME NEW data \in Seq(Nat)
      PROVE  [m EXCEPT !.temp_data = data] \in MachineType(C)
  BY Zenon DEF MachineType
<1>3. ASSUME NEW size \in Nat
      PROVE  [m EXCEPT !.recv_file_size = size] \in MachineType(C)
  BY Zenon DEF MachineType
<1>4. QED  BY <1>1, <1>2, <1>3

\* A new machine is one.
LEMMA NewReceiverType ==
  /\ IsReceiver(NewReceiver)
  /\ NewReceiver.temp_data = <<>> /\ NewReceiver.recv_file_size = 0
  /\ NewReceiver.delivery_code = "None" /\ NewReceiver.final_status = "None"
<1>1. <<>> \in Seq(Nat) /\ 0 \in Checksums
  BY DEF Checksums
<1>2. NewReceiver \in MachineType(Checksums)
  BY <1>1 DEF NewReceiver, NewMachine, MachineType, Roles, TimerModes
<1>3. QED  BY <1>2 DEF IsReceiver, NewReceiver, NewMachine

\* Shutting down and cancelling leave a receiver a receiver, with what it received.
LEMMA ReceiverMethods ==
  ASSUME NEW m, IsReceiver(m)
  PROVE  /\ IsReceiver(shutdown(m)) /\ SameReceipt(shutdown(m), m)
         /\ IsReceiver(cancel(m)) /\ SameReceipt(cancel(m), m) /\ cancel(m).cancelled
<1>1. m \in MachineType(Checksums)
  BY DEF IsReceiver
<1>2. /\ shutdown(m).role = m.role /\ shutdown(m).inactivity_timer = m.inactivity_timer
      /\ SameReceipt(shutdown(m), m)
  BY <1>1 DEF MachineType, shutdown, SameReceipt
<1>3. /\ cancel(m).role = m.role
      /\ cancel(m).inactivity_timer = StopTimers(m.inactivity_timer)
      /\ SameReceipt(cancel(m), m) /\ cancel(m).cancelled
  BY <1>1 DEF MachineType, cancel, SameReceipt
<1>4. StopTimers(m.inactivity_timer) = "OFF"
  BY DEF IsReceiver, StopTimers
<1>5. shutdown(m) \in MachineType(Checksums) /\ cancel(m) \in MachineType(Checksums)
  BY <1>1, MachineMethods
<1>6. QED  BY <1>2, <1>3, <1>4, <1>5 DEF IsReceiver

\* Whatever the MIB says, a fault leaves a receiver with what it received: it never
\* finishes the transaction.
LEMMA ReceiverFault ==
  ASSUME NEW m, IsReceiver(m), NEW h \in HandlerCodes
  PROVE  IsReceiver(fault_handler(m, h)) /\ SameReceipt(fault_handler(m, h), m)
<1> DEFINE marked == [m EXCEPT !.initiated_cancel = TRUE]
<1>1. IsReceiver(marked) /\ SameReceipt(marked, m)
  BY DEF IsReceiver, MachineType, SameReceipt
<1>2. IsReceiver(cancel(marked)) /\ SameReceipt(cancel(marked), m)
  <2>. HIDE DEF marked
  <2>1. IsReceiver(cancel(marked)) /\ SameReceipt(cancel(marked), marked)
    BY <1>1, ReceiverMethods
  <2>2. QED  BY <1>1, <2>1 DEF SameReceipt
<1>3. SameReceipt(m, m) /\ IsReceiver(shutdown(m)) /\ SameReceipt(shutdown(m), m)
  BY ReceiverMethods DEF SameReceipt
<1>4. \/ fault_handler(m, h) = m
      \/ fault_handler(m, h) = cancel(marked)
      \/ fault_handler(m, h) = shutdown(m)
  BY DEF IsReceiver, fault_handler, HandlerCodes
<1>. HIDE DEF marked
<1>5. QED  BY <1>2, <1>3, <1>4

\* Finishing changes the final status only, to a success if nothing cancelled the receipt.
LEMMA ReceiverFinish ==
  ASSUME NEW m, IsReceiver(m), NEW f, f = finish_transaction(m)
  PROVE  /\ IsReceiver(f)
         /\ f.temp_data = m.temp_data /\ f.recv_file_size = m.recv_file_size
         /\ f.delivery_code = m.delivery_code
         /\ f.final_status = IF m.cancelled THEN "CANCELLED" ELSE "SUCCESSFUL"
<1> DEFINE status == IF m.cancelled THEN "CANCELLED" ELSE "SUCCESSFUL"
           timer == StopTimers(m.inactivity_timer)
<1>1. m \in MachineType(Checksums) /\ f \in MachineType(Checksums)
  BY MachineMethods DEF IsReceiver
<1>2. timer = "OFF"
  BY DEF IsReceiver, StopTimers
<1>3. f = [m EXCEPT !.is_oef_outgoing = FALSE, !.is_md_outgoing = FALSE,
                    !.inactivity_timer = timer, !.finished = TRUE, !.final_status = status]
  <2>1. status = CASE m.role = "CLASS_1_RECEIVER" -> "NO_METADATA"
                   [] m.role # "CLASS_1_RECEIVER" /\ m.cancelled -> "CANCELLED"
                   [] OTHER -> "SUCCESSFUL"
    BY DEF IsReceiver
  <2>. HIDE DEF status
  <2>2. QED  BY <2>1 DEF finish_transaction
<1>. HIDE DEF timer, status
<1>4. /\ f.temp_data = m.temp_data /\ f.recv_file_size = m.recv_file_size
      /\ f.delivery_code = m.delivery_code
      /\ f.final_status = status /\ f.role = m.role /\ f.inactivity_timer = timer
  BY <1>1, <1>3 DEF MachineType
<1>5. QED  BY <1>1, <1>2, <1>4 DEF IsReceiver, status

\* Opening the temporary file empties it and changes nothing else that matters.
LEMMA OpenTemp ==
  ASSUME NEW m, IsReceiver(m)
  PROVE  /\ IsReceiver(open_temp(m))
         /\ open_temp(m).temp_data = <<>>
         /\ open_temp(m).recv_file_size = m.recv_file_size
         /\ open_temp(m).delivery_code = m.delivery_code
         /\ open_temp(m).final_status = m.final_status
<1>1. <<>> \in Seq(Nat)
  OBVIOUS
<1>2. QED  BY <1>1 DEF IsReceiver, MachineType, open_temp

\* Metadata leaves the temporary file as it is or empties it.
LEMMA MetadataReceipt ==
  ASSUME NEW m, IsReceiver(m), NEW opens \in BOOLEAN, NEW h \in HandlerCodes,
         NEW n, n = received_metadata(m, opens, h)
  PROVE  /\ IsReceiver(n)
         /\ n.temp_data \in {<<>>, m.temp_data} /\ n.recv_file_size = m.recv_file_size
         /\ n.delivery_code = m.delivery_code /\ n.final_status = m.final_status
<1>1. CASE m.state # "S1"
  BY <1>1 DEF received_metadata
<1>2. CASE m.state = "S1"
  <2> DEFINE x == IF opens THEN open_temp(m) ELSE fault_handler(m, h)
  <2>1. /\ IsReceiver(x)
        /\ x.temp_data \in {<<>>, m.temp_data} /\ x.recv_file_size = m.recv_file_size
        /\ x.delivery_code = m.delivery_code /\ x.final_status = m.final_status
    BY OpenTemp, ReceiverFault DEF SameReceipt
  <2>2. n = [x EXCEPT !.state = "S2"]
    BY <1>2 DEF received_metadata
  <2>. HIDE DEF x
  <2>3. x \in MachineType(Checksums)
    BY <2>1 DEF IsReceiver
  <2>4. n \in MachineType(Checksums)
    BY <2>2, <2>3 DEF MachineType
  <2>5. n.role = x.role /\ n.inactivity_timer = x.inactivity_timer /\ SameReceipt(n, x)
    BY <2>2, <2>3 DEF MachineType, SameReceipt
  <2>6. QED  BY <2>1, <2>4, <2>5 DEF IsReceiver, SameReceipt
<1>3. QED  BY <1>1, <1>2

\* File data is written to the temporary file, after it may have been emptied, or not at all.
LEMMA FileDataReceipt ==
  ASSUME NEW m, IsReceiver(m), NEW pdu, pdu.segment_offset \in Nat, pdu.data \in Seq(Nat),
         NEW words \in Seq(Nat), IsExcerpt(m.temp_data, words),
         IsPartOf(pdu.data, pdu.segment_offset, words),
         NEW opens \in BOOLEAN, NEW h \in HandlerCodes,
         NEW n, n = received_filedata(m, pdu, opens, h)
  PROVE  /\ IsReceiver(n)
         /\ IsExcerpt(n.temp_data, words)
         /\ n.delivery_code = m.delivery_code /\ n.final_status = m.final_status
<1> DEFINE restarted == [m EXCEPT !.inactivity_timer = "RUNNING"]
           ready == IF m.temp_file = "Open" THEN restarted ELSE open_temp(restarted)
<1>1. IsReceiver(restarted) /\ SameReceipt(restarted, m)
  BY DEF IsReceiver, MachineType, TimerModes, SameReceipt
<1>2. CASE m.temp_file # "Open" /\ ~opens
  <2>1. n = fault_handler(restarted, h)
    BY <1>2 DEF received_filedata
  <2>. HIDE DEF restarted
  <2>2. IsReceiver(n) /\ SameReceipt(n, restarted)
    BY <1>1, <2>1, ReceiverFault
  <2>3. QED  BY <1>1, <2>2 DEF SameReceipt
<1>3. CASE ~(m.temp_file # "Open" /\ ~opens)
  <2>1. n = [ready EXCEPT !.temp_data = WriteAt(@, pdu.segment_offset, pdu.data),
                          !.recv_file_size = @ + Len(pdu.data)]
    BY <1>3 DEF received_filedata
  <2>. HIDE DEF restarted
  <2>2. /\ IsReceiver(ready)
        /\ ready.temp_data \in {<<>>, m.temp_data}
        /\ ready.recv_file_size = m.recv_file_size
        /\ ready.delivery_code = m.delivery_code /\ ready.final_status = m.final_status
    BY <1>1, OpenTemp DEF SameReceipt
  <2>. HIDE DEF ready
  <2> DEFINE new == WriteAt(ready.temp_data, pdu.segment_offset, pdu.data)
             size == ready.recv_file_size + Len(pdu.data)
  <2>3. ready \in MachineType(Checksums) /\ ready.temp_data \in Seq(Nat)
        /\ ready.recv_file_size \in Nat
    BY <2>2 DEF IsReceiver, MachineType
  <2>4. IsExcerpt(ready.temp_data, words)
    BY <2>2, EmptyExcerpt
  <2>5. new \in Seq(Nat) /\ IsExcerpt(new, words)
    BY <2>3, <2>4, WriteAtExcerpt
  <2>6. size \in Nat
    BY <2>3
  <2>7. n = [ready EXCEPT !.temp_data = new, !.recv_file_size = size]
    BY <2>1, <2>3 DEF MachineType
  <2>. HIDE DEF new, size
  <2>8. /\ n.role = ready.role /\ n.inactivity_timer = ready.inactivity_timer
        /\ n.temp_data = new
        /\ n.delivery_code = ready.delivery_code /\ n.final_status = ready.final_status
    BY <2>3, <2>7 DEF MachineType
  <2>9. n \in MachineType(Checksums)
    <3> DEFINE filled == [ready EXCEPT !.temp_data = new]
    <3>1. filled \in MachineType(Checksums)
      BY <2>3, <2>5, TempFields
    <3>2. n = [filled EXCEPT !.recv_file_size = size]
      BY <2>7
    <3>. HIDE DEF filled
    <3>3. \A k \in Nat : [filled EXCEPT !.recv_file_size = k] \in MachineType(Checksums)
      BY <3>1, TempFields
    <3>4. QED  BY <2>6, <3>2, <3>3
  <2>10. QED  BY <2>2, <2>5, <2>8, <2>9 DEF IsReceiver
<1>4. QED  BY <1>2, <1>3

\* An EOF without an error changes no data. It completes the delivery if size and checksum
\* agree, and finishes the transaction if the file was copied as well.
LEMMA EofReceipt ==
  ASSUME NEW m, IsReceiver(m), NEW pdu, NEW copies \in BOOLEAN,
         NEW settings \in [FaultConditions -> HandlerCodes],
         NEW n, n = received_eof_no_error(m, pdu, copies, settings)
  PROVE  /\ IsReceiver(n)
         /\ n.temp_data = m.temp_data /\ n.recv_file_size = m.recv_file_size
         /\ ~Accepts(m, pdu, copies) => n.final_status = m.final_status
<1> DEFINE closed == [m EXCEPT !.temp_file = IF @ = "Open" THEN "Closed" ELSE @]
           complete == [closed EXCEPT !.delivery_code = "DATA_COMPLETE"]
<1>1. /\ settings["FILE_SIZE_ERROR"] \in HandlerCodes
      /\ settings["FILE_CHECKSUM_FAILURE"] \in HandlerCodes
      /\ settings["FILESTORE_REJECTION"] \in HandlerCodes
  BY DEF FaultConditions
<1>2. IsReceiver(closed) /\ SameReceipt(closed, m)
  <2> DEFINE f == IF m.temp_file = "Open" THEN "Closed" ELSE m.temp_file
  <2>1. f \in {"None", "Open", "Closed"} /\ closed = [m EXCEPT !.temp_file = f]
    BY DEF IsReceiver, MachineType
  <2>. HIDE DEF f, closed
  <2>2. closed \in MachineType(Checksums)
    BY <2>1, TempFields DEF IsReceiver
  <2>3. closed.role = m.role /\ closed.inactivity_timer = m.inactivity_timer
    BY <2>1 DEF IsReceiver, MachineType
  <2>4. SameReceipt(closed, m)
    BY <2>1 DEF IsReceiver, MachineType, SameReceipt
  <2>5. QED  BY <2>2, <2>3, <2>4 DEF IsReceiver
<1>3. /\ IsReceiver(complete)
      /\ complete.temp_data = m.temp_data /\ complete.recv_file_size = m.recv_file_size
      /\ complete.final_status = m.final_status
  <2>. HIDE DEF closed
  <2>1. closed \in MachineType(Checksums)
    BY <1>2 DEF IsReceiver
  <2>2. complete \in MachineType(Checksums)
    BY <2>1 DEF MachineType
  <2>3. /\ complete.role = closed.role /\ complete.inactivity_timer = closed.inactivity_timer
        /\ complete.temp_data = closed.temp_data
        /\ complete.recv_file_size = closed.recv_file_size
        /\ complete.final_status = closed.final_status
    BY <2>1 DEF MachineType
  <2>. HIDE DEF complete
  <2>4. QED  BY <1>2, <2>2, <2>3 DEF IsReceiver, SameReceipt
<1> DEFINE rejected ==
             \/ n = fault_handler(closed, settings["FILE_SIZE_ERROR"])
             \/ n = fault_handler(closed, settings["FILE_CHECKSUM_FAILURE"])
             \/ n = fault_handler(complete, settings["FILESTORE_REJECTION"])
           accepted == n = finish_transaction(complete)
<1>4. (~Accepts(m, pdu, copies) /\ rejected) \/ (Accepts(m, pdu, copies) /\ accepted)
  <2>1. ASSUME ~SizeAgrees(m, pdu)
        PROVE  n = fault_handler(closed, settings["FILE_SIZE_ERROR"])
    BY <2>1 DEF received_eof_no_error, Accepts
  <2>2. ASSUME SizeAgrees(m, pdu), ~ChecksumAgrees(m, pdu)
        PROVE  n = fault_handler(closed, settings["FILE_CHECKSUM_FAILURE"])
    BY <2>2 DEF received_eof_no_error, Accepts
  <2>3. ASSUME SizeAgrees(m, pdu), ChecksumAgrees(m, pdu), ~copies
        PROVE  n = fault_handler(complete, settings["FILESTORE_REJECTION"])
    BY <2>3 DEF received_eof_no_error, Accepts
  <2>4. ASSUME Accepts(m, pdu, copies)
        PROVE  n = finish_transaction(complete)
    BY <2>4 DEF received_eof_no_error, Accepts
  <2>. HIDE DEF closed, complete
  <2>5. QED  BY <2>1, <2>2, <2>3, <2>4 DEF Accepts
<1>. HIDE DEF closed, complete
<1>5. accepted => /\ IsReceiver(n)
                  /\ n.temp_data = m.temp_data /\ n.recv_file_size = m.recv_file_size
  BY <1>3, ReceiverFinish
<1>6. n = fault_handler(complete, settings["FILESTORE_REJECTION"]) =>
        IsReceiver(n) /\ SameReceipt(n, complete)
  BY <1>1, <1>3, ReceiverFault
<1>7. ASSUME NEW h \in HandlerCodes, n = fault_handler(closed, h)
      PROVE  IsReceiver(n) /\ SameReceipt(n, closed)
  BY <1>2, <1>7, ReceiverFault
<1>8. rejected => /\ IsReceiver(n)
                  /\ n.temp_data = m.temp_data /\ n.recv_file_size = m.recv_file_size
                  /\ n.final_status = m.final_status
  BY <1>1, <1>2, <1>3, <1>6, <1>7 DEF SameReceipt
<1>. HIDE DEF rejected, accepted
<1>9. QED  BY <1>4, <1>5, <1>8

\* The timer and the user change no data and never make a transaction succeed.
LEMMA OwnReceipt ==
  ASSUME NEW m, IsReceiver(m), NEW h \in HandlerCodes
  PROVE  LET expired == inactivity_timer_expired(m, h)
             cancelled == receiver_cancel_request(m)
         IN  /\ IsReceiver(expired) /\ SameReceipt(expired, m)
             /\ IsReceiver(cancelled)
             /\ cancelled.temp_data = m.temp_data
             /\ cancelled.recv_file_size = m.recv_file_size
             /\ cancelled.delivery_code = m.delivery_code
             /\ cancelled.final_status = "CANCELLED"
<1> DEFINE expired == inactivity_timer_expired(m, h)
           restarted == [m EXCEPT !.inactivity_timer = "RUNNING"]
           coded == [m EXCEPT !.condition_code = "CANCEL_REQUEST_RECEIVED"]
           c == cancel(coded)
           f == finish_transaction(c)
<1>1. IsReceiver(restarted) /\ SameReceipt(restarted, m)
  BY DEF IsReceiver, MachineType, TimerModes, SameReceipt
<1>2. expired = fault_handler(restarted, h)
  BY DEF inactivity_timer_expired
<1>3. IsReceiver(coded) /\ SameReceipt(coded, m)
  BY DEF IsReceiver, MachineType, ConditionCodes, SameReceipt
<1>4. receiver_cancel_request(m) = shutdown(f)
  BY DEF receiver_cancel_request
<1>. HIDE DEF restarted, coded, expired
<1>5. IsReceiver(expired) /\ SameReceipt(expired, m)
  <2>1. IsReceiver(expired) /\ SameReceipt(expired, restarted)
    BY <1>1, <1>2, ReceiverFault
  <2>2. QED  BY <1>1, <2>1 DEF SameReceipt
<1>6. IsReceiver(c) /\ SameReceipt(c, coded) /\ c.cancelled
  BY <1>3, ReceiverMethods
<1>. HIDE DEF c
<1>7. /\ IsReceiver(f) /\ f.temp_data = c.temp_data /\ f.recv_file_size = c.recv_file_size
      /\ f.delivery_code = c.delivery_code /\ f.final_status = "CANCELLED"
  BY <1>6, ReceiverFinish
<1>. HIDE DEF f
<1>8. IsReceiver(shutdown(f)) /\ SameReceipt(shutdown(f), f)
  BY <1>7, ReceiverMethods
<1>9. QED  BY <1>3, <1>4, <1>5, <1>6, <1>7, <1>8 DEF SameReceipt, expired

----------------------------------------------------------------------------
(* Datagrams. *)

\* Header.to_object finds some length in the length field.
LEMMA DecodedLengthType ==
  ASSUME NEW length \in Nat
  PROVE  DecodedLength(length) \in Nat
<1>1. LengthBase \in Nat \ {0} /\ LengthShift \in Nat
  BY LengthAssumption
<1>2. length \div LengthBase \in Nat /\ length % LengthBase \in Nat
  BY <1>1
<1>3. (length \div LengthBase) * LengthShift \in Nat
  BY <1>1, <1>2
<1>4. QED  BY <1>2, <1>3 DEF DecodedLength

\* A PDU that was cut short is still a PDU of its kind, and as true as it was.
LEMMA CutFacts ==
  ASSUME NEW pdu \in Pdu
  PROVE  /\ Cut(pdu) \in Pdu
         /\ Cut(pdu).type = pdu.type
         /\ pdu.type # "FILE_DATA" => Cut(pdu) = pdu
         /\ \A words \in Seq(Nat), has_file \in BOOLEAN :
              Truthful(pdu, words, has_file) => Truthful(Cut(pdu), words, has_file)
<1>1. CASE pdu.type # "FILE_DATA"
  BY <1>1 DEF Cut
<1>2. CASE pdu.type = "FILE_DATA"
  <2> DEFINE n == Least(Len(pdu.data), DecodedLength(1 + Len(pdu.data)) - 1)
             part == SubSeq(pdu.data, 1, n)
             c == [pdu EXCEPT !.data = part]
  <2>1. /\ pdu.segment_offset \in Nat /\ pdu.data \in Seq(Nat)
        /\ pdu = [type |-> "FILE_DATA", segment_offset |-> pdu.segment_offset, data |-> pdu.data]
    BY <1>2 DEF Pdu, NoPdu
  <2>2. Len(pdu.data) \in Nat /\ 1 + Len(pdu.data) \in Nat
    BY <2>1
  <2>3. n \in Int /\ n <= Len(pdu.data)
    <3>1. DecodedLength(1 + Len(pdu.data)) \in Nat
      BY <2>2, DecodedLengthType
    <3>2. QED  BY <2>2, <3>1 DEF Least
  <2>4. Cut(pdu) = c
    BY <1>2, <2>1 DEF Cut
  <2>. HIDE DEF n
  <2>5. part \in Seq(Nat)
    <3>1. \A i \in 1 .. n : pdu.data[i] \in Nat
      BY <2>1, <2>2, <2>3
    <3>2. QED  BY <2>3, <3>1, SubSeqProperties
  <2>6. \A words \in Seq(Nat) :
          IsPartOf(pdu.data, pdu.segment_offset, words) => IsPartOf(part, pdu.segment_offset, words)
    BY <2>1, <2>3, PartOfPart
  <2>. HIDE DEF part
  <2>7. c = [type |-> "FILE_DATA", segment_offset |-> pdu.segment_offset, data |-> part]
    BY <2>1
  <2>8. c \in Pdu
    BY <2>1, <2>5, <2>7 DEF Pdu
  <2>9. c.type = "FILE_DATA" /\ c.segment_offset = pdu.segment_offset /\ c.data = part
    BY <2>7
  <2>. HIDE DEF c
  <2>10. QED  BY <1>2, <2>4, <2>6, <2>8, <2>9 DEF Truthful
<1>3. QED  BY <1>1, <1>2

\* What is left in flight was in flight.
LEMMA WithoutFacts ==
  ASSUME NEW S, NEW s \in Seq(S), NEW i \in DOMAIN s
  PROVE  /\ Without(s, i) \in Seq(S)
         /\ \A j \in DOMAIN Without(s, i) : \E k \in DOMAIN s : Without(s, i)[j] = s[k]
<1> DEFINE a == SubSeq(s, 1, i - 1)
           b == SubSeq(s, i + 1, Len(s))
           T == {s[k] : k \in DOMAIN s}
<1>1. i \in 1 .. Len(s) /\ Len(s) \in Nat
  OBVIOUS
<1>2. a \in Seq(T)
  <2>1. \A j \in 1 .. i - 1 : s[j] \in T
    BY <1>1
  <2>2. 1 \in Int /\ i - 1 \in Int
    BY <1>1
  <2>. HIDE DEF T
  <2>3. QED  BY <2>1, <2>2, SubSeqProperties
<1>3. b \in Seq(T)
  <2>1. \A j \in i + 1 .. Len(s) : s[j] \in T
    BY <1>1
  <2>2. i + 1 \in Int /\ Len(s) \in Int
    BY <1>1
  <2>. HIDE DEF T
  <2>3. QED  BY <2>1, <2>2, SubSeqProperties
<1>4. T \subseteq S
  OBVIOUS
<1>. HIDE DEF a, b, T
<1>5. a \o b \in Seq(T)
  BY <1>2, <1>3, ConcatProperties
<1>6. a \o b = Without(s, i)
  BY DEF Without, a, b
<1>7. \A j \in DOMAIN Without(s, i) : Without(s, i)[j] \in T
  BY <1>5, <1>6, ElementOfSeq, LenProperties
<1>8. Without(s, i) \in Seq(S)
  <2> DEFINE w == Without(s, i)
  <2>1. w \in Seq(T)
    BY <1>5, <1>6
  <2>. HIDE DEF w
  <2>2. w \in Seq(S)
    BY <1>4, <2>1
  <2>3. QED  BY <2>2 DEF w
<1>9. QED  BY <1>7, <1>8 DEF T

----------------------------------------------------------------------------
(* The sender's side of a step. *)

\* What was sent stays as it was sent.
SentStays ==
  \A k \in 1 .. transmitted : k \in 1 .. transmitted' /\ outgoing'[k] = outgoing[k]

\* What a receiver relies on at the other end: the same file, the same answer to whether
\* it could be opened, and what was sent.
SenderStays ==
  /\ source' = source
  /\ sender.put_request_received => sender'.put_request_received /\ opened' = opened
  /\ SentStays

\* Every step leaves the file as it is, and the sending entity's knowledge of it true.
LEMMA SourceStep ==
  ASSUME TypeOK, Agreement, SourceInv(sender, outgoing, source, opened),
         [TransferNext]_transferVars
  PROVE  SenderStays /\ SourceInv(sender', outgoing', source', opened')
<1>1. /\ IsSender(sender) /\ source \in Files /\ handler \in HandlerCodes
      /\ outgoing \in Seq(Pdu) /\ opened \in BOOLEAN /\ Agree(sender, outgoing, opened)
      /\ transmitted \in 0 .. Len(outgoing) /\ Len(outgoing) \in Nat
  BY FaultHandlersAssumption DEF TypeOK, IsSender, Agreement
<1>2. CASE UNCHANGED <<sender, outgoing, opened, source, transmitted>>
  BY <1>2 DEF SenderStays, SentStays
<1>3. CASE Connect \/ Disconnect \/ UNCHANGED vars
  BY <1>2, <1>3 DEF Connect, Disconnect, vars, fileVars, kernelVars
<1>4. ASSUME NEW opens \in BOOLEAN, Put(opens)
      PROVE  SenderStays /\ SourceInv(sender', outgoing', source', opened')
  <2>1. sender = NewSender /\ outgoing = <<>> /\ ~sender.put_request_received
    BY <1>1, <1>4 DEF Put, Agree, MachineInv
  <2>2. /\ sender' = put_request(NewSender, source, opens, handler)
        /\ opened' = opens /\ outgoing' = <<>> /\ source' = source
        /\ transmitted' = transmitted
    BY <1>4, <2>1 DEF Put, kernelVars
  <2>3. SourceInv(sender', outgoing', source', opened')
    BY <1>1, <2>2, PutSource
  <2>4. SentStays
    BY <1>1, <2>1, <2>2 DEF SentStays
  <2>5. QED  BY <2>1, <2>2, <2>3, <2>4 DEF SenderStays
<1>5. CASE Cancel \/ Suspend \/ Resume
  <2>1. UNCHANGED <<outgoing, opened, source, transmitted>>
    BY <1>5 DEF Cancel, Suspend, Resume, kernelVars, fileVars
  <2>2. SameForSource(sender', sender)
    BY <1>1, <1>5, RequestsSource DEF Cancel, Suspend, Resume
  <2>3. SourceInv(sender', outgoing, source, opened)
    BY <2>2, SameSource
  <2>4. QED  BY <2>1, <2>2, <2>3 DEF SenderStays, SentStays, SameForSource
<1>6. CASE TransactionHandler
  <2> DEFINE directive == send_file_directive(sender)
             data == send_file_data(directive.machine, source, handler)
             q == outgoing \o directive.pdus
  <2>1. /\ sender.put_request_received /\ sender' = data.machine
        /\ outgoing' = q \o data.pdus
        /\ UNCHANGED <<opened, source, transmitted>>
    BY <1>6 DEF TransactionHandler, fileVars
  <2>2. IsSender(directive.machine) /\ directive.pdus \in Seq(Pdu)
    BY <1>1, DirectiveType
  <2>3. data.pdus \in Seq(Pdu)
    BY <1>1, <2>2, DataType
  <2>4. /\ SourceInv(directive.machine, q, source, opened)
        /\ directive.machine.put_request_received
    BY <1>1, <2>1, DirectiveSource
  <2>. HIDE DEF directive
  <2>5. q \in Seq(Pdu) /\ \A k \in 1 .. Len(outgoing) : k \in 1 .. Len(q) /\ q[k] = outgoing[k]
    BY <1>1, <2>2, ConcatProperties
  <2>. HIDE DEF q
  <2>6. /\ SourceInv(data.machine, q \o data.pdus, source, opened)
        /\ data.machine.put_request_received
    BY <1>1, <2>2, <2>4, <2>5, DataSource
  <2>. HIDE DEF data
  <2>7. \A k \in 1 .. Len(q) : outgoing'[k] = q[k]
    BY <2>1, <2>3, <2>5, ConcatProperties
  <2>8. \A k \in 1 .. transmitted : k \in 1 .. Len(outgoing)
    BY <1>1
  <2>9. SentStays
    BY <2>1, <2>5, <2>7, <2>8 DEF SentStays
  <2>10. QED  BY <2>1, <2>6, <2>9 DEF SenderStays
<1>7. ASSUME NEW accepted \in BOOLEAN, SendToSocket(accepted)
      PROVE  SenderStays /\ SourceInv(sender', outgoing', source', opened')
  <2>1. UNCHANGED <<sender, outgoing, opened, source>>
    BY <1>7 DEF SendToSocket, fileVars
  <2>2. transmitted' \in {transmitted, transmitted + 1}
    BY <1>7 DEF SendToSocket
  <2>3. SentStays
    BY <1>1, <2>1, <2>2 DEF SentStays
  <2>4. QED  BY <2>1, <2>3 DEF SenderStays
<1>8. RequestOfSender =>
        \/ Connect \/ Disconnect \/ \E opens \in BOOLEAN : Put(opens)
        \/ Cancel \/ Suspend \/ Resume
  BY DEF RequestOfSender
<1>9. QueuePdus => TransactionHandler
  BY DEF QueuePdus
<1>10. \A accepted \in BOOLEAN : Send(accepted) => SendToSocket(accepted)
  BY DEF Send
<1>11. \A i \in DOMAIN net, succeeds \in BOOLEAN : Deliver(i, succeeds) => UNCHANGED vars
  BY DEF Deliver, senderVars, vars
<1>12. \A i \in DOMAIN net : Duplicate(i) => UNCHANGED vars
  BY DEF Duplicate, senderVars, vars
<1>13. ReceiverOnItsOwn => UNCHANGED vars
  BY DEF ReceiverOnItsOwn, senderVars, vars
<1>14. UNCHANGED transferVars => UNCHANGED vars
  BY DEF transferVars, senderVars, vars
<1>15. QED
  BY <1>3, <1>4, <1>5, <1>6, <1>7, <1>8, <1>9, <1>10, <1>11, <1>12, <1>13, <1>14
  DEF TransferNext

\* What was sent, was sent afterwards, too.
LEMMA SentMonotone ==
  ASSUME SentStays
  PROVE  /\ \A pdu : WasSent(pdu) => WasSent(pdu)'
         /\ \A code : EofSent(code) => EofSent(code)'
<1>1. ASSUME NEW pdu, WasSent(pdu)
      PROVE  WasSent(pdu)'
  <2>1. PICK k \in 1 .. transmitted : pdu = outgoing[k]
    BY <1>1 DEF WasSent
  <2>2. k \in 1 .. transmitted' /\ pdu = outgoing'[k]
    BY <2>1 DEF SentStays
  <2>3. QED  BY <2>2 DEF WasSent
<1>2. ASSUME NEW code, EofSent(code)
      PROVE  EofSent(code)'
  <2>1. PICK k \in 1 .. transmitted :
          outgoing[k].type = "EOF" /\ outgoing[k].condition_code = code
    BY <1>2 DEF EofSent
  <2>2. k \in 1 .. transmitted' /\ outgoing'[k] = outgoing[k]
    BY <2>1 DEF SentStays
  <2>3. QED  BY <2>1, <2>2 DEF EofSent
<1>3. QED  BY <1>1, <1>2

\* An entity sends one EOF at most.
LEMMA OneEof ==
  ASSUME TypeOK, Agreement
  PROVE  ~(EofSent("NO_ERROR") /\ EofSent("CANCEL_REQUEST_RECEIVED"))
<1> SUFFICES ASSUME NEW i \in 1 .. transmitted, NEW j \in 1 .. transmitted,
                    outgoing[i].type = "EOF", outgoing[i].condition_code = "NO_ERROR",
                    outgoing[j].type = "EOF",
                    outgoing[j].condition_code = "CANCEL_REQUEST_RECEIVED"
             PROVE  FALSE
  BY DEF EofSent
<1>1. i = Len(outgoing) /\ j = Len(outgoing)
  BY SentInOrder DEF InOrder
<1>2. QED  BY <1>1

\* What was sent is a PDU, and true of the file.
LEMMA SentIsTrue ==
  ASSUME TypeOK, Agreement, SourceInv(sender, outgoing, source, opened),
         NEW pdu, WasSent(pdu)
  PROVE  /\ pdu \in Pdu
         /\ Truthful(pdu, source, opened)
         /\ sender.put_request_received
         /\ pdu.type = "EOF" => EofSent(pdu.condition_code)
<1>1. PICK k \in 1 .. transmitted : pdu = outgoing[k]
  BY DEF WasSent
<1>2. k \in 1 .. Len(outgoing)
  BY DEF TypeOK
<1>3. pdu \in Pdu
  BY <1>1, <1>2 DEF TypeOK
<1>4. Truthful(pdu, source, opened)
  BY <1>1, <1>2 DEF SourceInv
<1>5. sender.put_request_received
  <2>1. ~sender.put_request_received => outgoing = <<>>
    BY DEF Agreement, Agree, MachineInv
  <2>2. QED  BY <1>2, <2>1
<1>6. QED  BY <1>1, <1>3, <1>4, <1>5 DEF EofSent

----------------------------------------------------------------------------
(* The receiver's side of a step. *)

\* The types of what the transfer adds to the sending entity.
TransferTyped ==
  /\ IsReceiver(receiver)
  /\ registered \in BOOLEAN
  /\ destination \in Seq(Nat) \cup {NoFile}
  /\ copy_failed \in BOOLEAN
  /\ handlers \in ReceiverHandlers
  /\ net \in Seq(Pdu)
  /\ duplicates \in 0 .. MaxDuplicates

\* What may be delivered.
Fits(data) == PassesFor(data, source)

\* A copy to the destination, which may fail on the way.
Copies ==
  \/ Fits(destination') /\ copy_failed' = FALSE
  \/ /\ destination' = destination \/ PartOf(destination', source)
     /\ copy_failed' = TRUE

\* What a step makes of the receiver, given what was sent until then.
ReceiverMoves ==
  /\ IsReceiver(receiver') /\ registered' \in BOOLEAN /\ handlers' = handlers
  /\ ReceiptInv(receiver', source)
  /\ \/ UNCHANGED destinationVars
     \/ sender.put_request_received /\ Copies
  /\ receiver'.final_status = "SUCCESSFUL" =>
       \/ receiver.final_status = "SUCCESSFUL"
       \/ EofSent("CANCEL_REQUEST_RECEIVED")
       \/ Fits(destination')

\* A receiver that stays as it is.
LEMMA ReceiverIdles ==
  ASSUME TransferTyped, Receipt, UNCHANGED receiverVars
  PROVE  ReceiverMoves
BY DEF TransferTyped, Receipt, receiverVars, destinationVars, ReceiverMoves

\* So is a receiver that changed nothing of what it received, nor its final status to
\* success.
LEMMA ReceiptKept ==
  ASSUME TransferTyped, Receipt, IsReceiver(receiver'),
         registered' \in BOOLEAN, UNCHANGED <<handlers, destinationVars>>,
         receiver'.temp_data \in {<<>>, receiver.temp_data},
         receiver'.recv_file_size = receiver.recv_file_size,
         receiver'.delivery_code = receiver.delivery_code,
         receiver'.final_status \in {receiver.final_status, "CANCELLED"},
         source \in Seq(Nat)
  PROVE  ReceiverMoves
<1>1. IsExcerpt(receiver'.temp_data, source)
  BY EmptyExcerpt DEF Receipt, ReceiptInv
<1>2. ReceiptInv(receiver', source)
  BY <1>1 DEF Receipt, ReceiptInv
<1>3. QED  BY <1>2 DEF ReceiverMoves

\* What is accepted at an EOF that was sent may be delivered: all of it is the file's, and
\* its checksum is the file's - also when the sender had no file to take a checksum of,
\* for then no file data was sent and the file must be empty.
LEMMA AcceptedFits ==
  ASSUME TypeOK, TransferTyped, Receipt, NEW pdu, pdu.type = "EOF",
         Truthful(pdu, source, opened), NEW copies, Accepts(receiver, pdu, copies)
  PROVE  Fits(receiver.temp_data)
<1>1. /\ receiver.temp_data \in Seq(Nat) /\ IsExcerpt(receiver.temp_data, source)
      /\ source \in Seq(Nat)
  BY FilesAssumption DEF TypeOK, TransferTyped, IsReceiver, MachineType, Receipt, ReceiptInv
<1>2. /\ receiver.recv_file_size = Len(source)
      /\ calc_checksum(receiver.temp_data) = pdu.file_checksum
  BY DEF Accepts, SizeAgrees, ChecksumAgrees, Truthful
<1>3. CASE opened
  BY <1>1, <1>2, <1>3 DEF Fits, PassesFor, PartOf, Truthful
<1>4. CASE ~opened
  <2>1. Len(source) = 0
    BY <1>2, <1>4 DEF Receipt, ReceiptInv
  <2>2. source = <<>>
    BY <1>1, <2>1
  <2>3. Len(receiver.temp_data) = 0
    BY <1>1, <2>1 DEF IsExcerpt
  <2>4. receiver.temp_data = <<>>
    BY <1>1, <2>3
  <2>5. QED  BY <1>1, <2>2, <2>4 DEF Fits, PassesFor, PartOf
<1>5. QED  BY <1>3, <1>4

\* The beginning of an excerpt is a part of the file.
LEMMA BeginningIsPart ==
  ASSUME NEW data \in Seq(Nat), NEW words \in Seq(Nat), IsExcerpt(data, words),
         NEW begun \in Beginnings(data)
  PROVE  PartOf(begun, words)
<1>1. PICK n \in 0 .. Len(data) : begun = SubSeq(data, 1, n)
  BY DEF Beginnings
<1>2. n \in Nat /\ Len(data) \in Nat /\ n <= Len(data)
  BY <1>1
<1>3. begun = [i \in 1 .. n |-> data[i]]
  BY <1>1, <1>2
<1>4. \A i \in 1 .. n : begun[i] \in Nat /\ begun[i] = data[i]
  BY <1>2, <1>3
<1>5. begun \in Seq(Nat) /\ Len(begun) = n
  BY <1>2, <1>3, <1>4
<1>6. Len(data) <= Len(words) /\ \A i \in 1 .. Len(data) : data[i] \in {0, words[i]}
  BY DEF IsExcerpt
<1>7. n <= Len(words)
  BY <1>2, <1>6
<1>8. ASSUME NEW i \in 1 .. n
      PROVE  begun[i] \in {0, words[i]}
  <2>1. i \in 1 .. Len(data)
    BY <1>2
  <2>2. QED  BY <1>4, <1>6, <2>1, Zenon
<1>9. QED  BY <1>5, <1>7, <1>8 DEF PartOf, IsExcerpt

\* The receiver makes no more of a datagram that was sent, whole or cut short.
LEMMA ReceiveStep ==
  ASSUME TypeOK, Agreement, TransferTyped, Receipt, NEW pdu, WasSent(pdu),
         NEW succeeds \in BOOLEAN, Receive(Cut(pdu), succeeds)
  PROVE  ReceiverMoves
<1> DEFINE c == Cut(pdu)
<1>1. /\ source \in Seq(Nat) /\ opened \in BOOLEAN /\ IsReceiver(receiver)
      /\ handlers \in [FaultConditions -> HandlerCodes]
      /\ registered \in BOOLEAN
  BY FilesAssumption, ReceiverHandlersAssumption DEF TypeOK, TransferTyped
<1>2. handlers["FILESTORE_REJECTION"] \in HandlerCodes
  BY <1>1 DEF FaultConditions
<1>3. /\ pdu \in Pdu /\ Truthful(pdu, source, opened) /\ sender.put_request_received
      /\ pdu.type = "EOF" => EofSent(pdu.condition_code)
  BY SentIsTrue DEF Receipt
<1>4. /\ c \in Pdu /\ Truthful(c, source, opened)
      /\ c.type = "EOF" => c = pdu
  BY <1>1, <1>3, CutFacts
<1>5. /\ IsExcerpt(receiver.temp_data, source)
      /\ receiver.delivery_code = "DATA_COMPLETE" => EofSent("NO_ERROR")
      /\ receiver.recv_file_size # 0 => sender.put_request_received /\ opened
  BY DEF Receipt, ReceiptInv
<1>. HIDE DEF c
<1>6. CASE DropPdu(c)
  BY <1>6, ReceiverIdles DEF DropPdu
<1>7. CASE ReceiveMetadata(c, succeeds)
  <2>1. /\ receiver' = received_metadata(receiver, succeeds, handlers["FILESTORE_REJECTION"])
        /\ registered' = TRUE /\ UNCHANGED <<handlers, destinationVars>>
    BY <1>7 DEF ReceiveMetadata
  <2>2. /\ IsReceiver(receiver')
        /\ receiver'.temp_data \in {<<>>, receiver.temp_data}
        /\ receiver'.recv_file_size = receiver.recv_file_size
        /\ receiver'.delivery_code = receiver.delivery_code
        /\ receiver'.final_status = receiver.final_status
    BY <1>1, <1>2, <2>1, MetadataReceipt
  <2>3. QED  BY <1>1, <2>1, <2>2, ReceiptKept
<1>8. CASE ReceiveFileData(c, succeeds)
  <2>1. c.type = "FILE_DATA" /\ UNCHANGED <<registered, handlers, destinationVars>>
    BY <1>8 DEF ReceiveFileData
  <2>2. CASE ~registered
    <3>1. UNCHANGED receiverVars
      BY <1>8, <2>2 DEF ReceiveFileData, receiverVars
    <3>2. QED  BY <3>1, ReceiverIdles
  <2>3. CASE registered
    <3>1. receiver' = received_filedata(receiver, c, succeeds, handlers["FILESTORE_REJECTION"])
      BY <1>8, <2>3 DEF ReceiveFileData
    <3>2. c.segment_offset \in Nat /\ c.data \in Seq(Nat)
      BY <1>4, <2>1 DEF Pdu, NoPdu
    <3>3. opened /\ IsPartOf(c.data, c.segment_offset, source)
      BY <1>4, <2>1 DEF Truthful
    <3>4. /\ IsReceiver(receiver')
          /\ IsExcerpt(receiver'.temp_data, source)
          /\ receiver'.delivery_code = receiver.delivery_code
          /\ receiver'.final_status = receiver.final_status
      BY <1>1, <1>2, <1>5, <3>1, <3>2, <3>3, FileDataReceipt
    <3>5. ReceiptInv(receiver', source)
      BY <1>3, <1>5, <3>3, <3>4 DEF ReceiptInv
    <3>6. QED  BY <1>1, <2>1, <3>4, <3>5 DEF ReceiverMoves
  <2>4. QED  BY <1>1, <2>2, <2>3
<1>9. CASE ReceiveEofNoError(c, succeeds)
  <2>1. /\ c.type = "EOF" /\ EofSent("NO_ERROR") /\ UNCHANGED <<registered, handlers>>
    BY <1>3, <1>4, <1>9 DEF ReceiveEofNoError
  <2>2. CASE ~registered
    <3>1. UNCHANGED receiverVars
      BY <1>9, <2>2 DEF ReceiveEofNoError, receiverVars
    <3>2. QED  BY <3>1, ReceiverIdles
  <2>3. CASE registered
    <3>1. receiver' = received_eof_no_error(receiver, c, succeeds, handlers)
      BY <1>9, <2>3 DEF ReceiveEofNoError
    <3>2. /\ IsReceiver(receiver')
          /\ receiver'.temp_data = receiver.temp_data
          /\ receiver'.recv_file_size = receiver.recv_file_size
          /\ ~Accepts(receiver, c, succeeds) => receiver'.final_status = receiver.final_status
      <4>1. IsReceiver(receiver) /\ handlers \in [FaultConditions -> HandlerCodes]
        BY <1>1
      <4>2. QED  BY <3>1, <4>1, EofReceipt
    <3>3. ReceiptInv(receiver', source)
      BY <1>5, <2>1, <3>2 DEF ReceiptInv
    <3>4. CASE Accepts(receiver, c, succeeds)
      <4>1. destination' = receiver.temp_data /\ copy_failed' = FALSE
        BY <1>9, <2>3, <3>4 DEF ReceiveEofNoError, CopyToDestination, Accepts
      <4>2. Fits(destination')
        BY <1>4, <2>1, <3>4, <4>1, AcceptedFits
      <4>3. QED  BY <1>1, <1>3, <2>1, <3>2, <3>3, <4>1, <4>2 DEF ReceiverMoves, Copies
    <3>5. CASE SizeAgrees(receiver, c) /\ ChecksumAgrees(receiver, c) /\ ~succeeds
      <4>1. /\ destination' \in {destination} \cup Beginnings(receiver.temp_data)
            /\ copy_failed' = TRUE
        BY <1>9, <2>3, <3>5 DEF ReceiveEofNoError, CopyToDestination
      <4>2. destination' = destination \/ PartOf(destination', source)
        BY <1>1, <1>5, <4>1, BeginningIsPart DEF IsReceiver, MachineType
      <4>3. QED
        BY <1>1, <1>3, <2>1, <3>2, <3>3, <3>5, <4>1, <4>2 DEF ReceiverMoves, Copies, Accepts
    <3>6. CASE ~(SizeAgrees(receiver, c) /\ ChecksumAgrees(receiver, c))
      <4>1. UNCHANGED destinationVars
        BY <1>9, <2>3, <3>6 DEF ReceiveEofNoError
      <4>2. QED  BY <1>1, <2>1, <3>2, <3>3, <3>6, <4>1 DEF ReceiverMoves, Accepts
    <3>7. QED  BY <3>4, <3>5, <3>6 DEF Accepts
  <2>4. QED  BY <1>1, <2>2, <2>3
<1>10. CASE ReceiveEofCancel(c)
  <2>1. /\ c.type = "EOF" /\ EofSent("CANCEL_REQUEST_RECEIVED")
        /\ UNCHANGED <<registered, handlers, destinationVars>>
    BY <1>3, <1>4, <1>10 DEF ReceiveEofCancel
  <2>2. CASE ~registered
    <3>1. UNCHANGED receiverVars
      BY <1>10, <2>2 DEF ReceiveEofCancel, receiverVars
    <3>2. QED  BY <3>1, ReceiverIdles
  <2>3. CASE registered
    <3>1. receiver' = finish_transaction(receiver)
      BY <1>10, <2>3 DEF ReceiveEofCancel, received_eof_cancel
    <3>2. /\ IsReceiver(receiver')
          /\ receiver'.temp_data = receiver.temp_data
          /\ receiver'.recv_file_size = receiver.recv_file_size
          /\ receiver'.delivery_code = receiver.delivery_code
      BY <1>1, <3>1, ReceiverFinish
    <3>3. ReceiptInv(receiver', source)
      BY <1>5, <3>2 DEF ReceiptInv
    <3>4. QED  BY <1>1, <2>1, <3>2, <3>3 DEF ReceiverMoves
  <2>4. QED  BY <1>1, <2>2, <2>3
<1>11. Receive(c, succeeds)
  BY DEF c
<1>12. QED  BY <1>6, <1>7, <1>8, <1>9, <1>10, <1>11 DEF Receive

\* Nor does it by its timer or at the request of its user.
LEMMA OwnStep ==
  ASSUME TypeOK, TransferTyped, Receipt, TimerExpires \/ CancelReceipt \/ StopReceiving
  PROVE  ReceiverMoves
<1>1. /\ source \in Seq(Nat) /\ IsReceiver(receiver) /\ registered \in BOOLEAN
      /\ handlers["INACTIVITY_DETECTED"] \in HandlerCodes
  BY FilesAssumption, ReceiverHandlersAssumption DEF TypeOK, TransferTyped, FaultConditions
<1>2. CASE TimerExpires
  <2>1. /\ receiver' = inactivity_timer_expired(receiver, handlers["INACTIVITY_DETECTED"])
        /\ UNCHANGED <<registered, destinationVars, handlers>>
    BY <1>2 DEF TimerExpires
  <2>2. IsReceiver(receiver') /\ SameReceipt(receiver', receiver)
    BY <1>1, <2>1, OwnReceipt
  <2>3. QED  BY <1>1, <2>1, <2>2, ReceiptKept DEF SameReceipt
<1>3. CASE CancelReceipt
  <2>1. /\ receiver' = receiver_cancel_request(receiver)
        /\ UNCHANGED <<registered, destinationVars, handlers>>
    BY <1>3 DEF CancelReceipt
  <2>2. /\ IsReceiver(receiver')
        /\ receiver'.temp_data = receiver.temp_data
        /\ receiver'.recv_file_size = receiver.recv_file_size
        /\ receiver'.delivery_code = receiver.delivery_code
        /\ receiver'.final_status = "CANCELLED"
    BY <1>1, <2>1, OwnReceipt
  <2>3. QED  BY <1>1, <2>1, <2>2, ReceiptKept
<1>4. CASE StopReceiving
  BY <1>1, <1>4, ReceiptKept DEF StopReceiving
<1>5. QED  BY <1>2, <1>3, <1>4

\* In every step of the transfer.
LEMMA ReceiverStep ==
  ASSUME TypeOK, Agreement, TransferTyped, Receipt, [TransferNext]_transferVars
  PROVE  ReceiverMoves
<1>1. CASE UNCHANGED receiverVars
  BY <1>1, ReceiverIdles
<1>2. ASSUME NEW i \in DOMAIN net, NEW succeeds \in BOOLEAN, Deliver(i, succeeds)
      PROVE  ReceiverMoves
  <2>1. WasSent(net[i]) /\ Receive(Cut(net[i]), succeeds)
    BY <1>2 DEF Receipt, Deliver
  <2>2. QED  BY <2>1, ReceiveStep
<1>3. CASE ReceiverOnItsOwn
  BY <1>3, OwnStep DEF ReceiverOnItsOwn
<1>4. \/ RequestOfSender
      \/ QueuePdus
      \/ \E accepted \in BOOLEAN : Send(accepted)
      \/ \E i \in DOMAIN net : Duplicate(i)
      \/ UNCHANGED transferVars
      => UNCHANGED receiverVars
  BY DEF RequestOfSender, QueuePdus, Send, Duplicate, transferVars
<1>5. QED  BY <1>1, <1>2, <1>3, <1>4 DEF TransferNext

----------------------------------------------------------------------------
(* The datagrams in flight. *)

\* A PDU will have been sent after the step.
WillBeSent(pdu) == \E k \in 1 .. transmitted' : pdu = outgoing'[k]

\* Only datagrams that were sent are in flight, however the network repeats and reorders.
LEMMA NetStep ==
  ASSUME TypeOK, TypeOK', TransferTyped, Receipt, SenderStays, [TransferNext]_transferVars
  PROVE  /\ net' \in Seq(Pdu)
         /\ \A i \in DOMAIN net' : WillBeSent(net'[i])
         /\ duplicates' \in 0 .. MaxDuplicates
<1>1. /\ net \in Seq(Pdu) /\ duplicates \in 0 .. MaxDuplicates /\ MaxDuplicates \in Nat
      /\ \A i \in DOMAIN net : WasSent(net[i])
  BY MaxDuplicatesAssumption DEF TransferTyped, Receipt
<1>2. \A pdu : WasSent(pdu) => WillBeSent(pdu)
  BY SentMonotone DEF SenderStays, WasSent, WillBeSent
<1>3. CASE UNCHANGED <<net, duplicates>>
  BY <1>1, <1>2, <1>3
<1>4. ASSUME NEW pdu \in Pdu, net' = Append(net, pdu), WillBeSent(pdu),
             duplicates' \in 0 .. MaxDuplicates
      PROVE  /\ net' \in Seq(Pdu)
             /\ \A i \in DOMAIN net' : WillBeSent(net'[i])
             /\ duplicates' \in 0 .. MaxDuplicates
  <2>1. /\ net' \in Seq(Pdu) /\ Len(net') = Len(net) + 1 /\ Len(net) \in Nat
        /\ net'[Len(net) + 1] = pdu
        /\ \A i \in 1 .. Len(net) : net'[i] = net[i]
    BY <1>1, <1>4
  <2>2. DOMAIN net' = 1 .. Len(net) + 1 /\ DOMAIN net = 1 .. Len(net)
    BY <1>1, <2>1
  <2>3. ASSUME NEW i \in DOMAIN net'
        PROVE  WillBeSent(net'[i])
    <3>1. CASE i \in 1 .. Len(net)
      BY <1>1, <1>2, <2>1, <2>2, <3>1
    <3>2. CASE i = Len(net) + 1
      BY <1>4, <2>1, <3>2
    <3>3. QED  BY <2>1, <2>2, <2>3, <3>1, <3>2
  <2>4. QED  BY <1>4, <2>1, <2>3
<1>5. ASSUME NEW accepted \in BOOLEAN, Send(accepted)
      PROVE  /\ net' \in Seq(Pdu)
             /\ \A i \in DOMAIN net' : WillBeSent(net'[i])
             /\ duplicates' \in 0 .. MaxDuplicates
  <2>1. /\ net' = IF transmitted' > transmitted THEN Append(net, outgoing[transmitted']) ELSE net
        /\ duplicates' = duplicates /\ outgoing' = outgoing
    BY <1>5 DEF Send, SendToSocket
  <2>2. CASE ~(transmitted' > transmitted)
    BY <1>3, <2>1, <2>2
  <2>3. CASE transmitted' > transmitted
    <3>1. transmitted' \in 1 .. transmitted' /\ transmitted' \in 1 .. Len(outgoing)
      BY <2>1, <2>3 DEF TypeOK
    <3>2. outgoing[transmitted'] \in Pdu
      BY <3>1 DEF TypeOK
    <3>3. WillBeSent(outgoing[transmitted'])
      BY <2>1, <3>1 DEF WillBeSent
    <3>4. QED  BY <1>1, <1>4, <2>1, <2>3, <3>2, <3>3
  <2>4. QED  BY <2>2, <2>3
<1>6. ASSUME NEW i \in DOMAIN net, NEW succeeds \in BOOLEAN, Deliver(i, succeeds)
      PROVE  /\ net' \in Seq(Pdu)
             /\ \A j \in DOMAIN net' : WillBeSent(net'[j])
             /\ duplicates' \in 0 .. MaxDuplicates
  <2>1. net' = Without(net, i) /\ duplicates' = duplicates
    BY <1>6 DEF Deliver
  <2>2. net' \in Seq(Pdu) /\ \A j \in DOMAIN net' : \E k \in DOMAIN net : net'[j] = net[k]
    BY <1>1, <2>1, WithoutFacts
  <2>3. QED  BY <1>1, <1>2, <2>1, <2>2
<1>7. ASSUME NEW i \in DOMAIN net, Duplicate(i)
      PROVE  /\ net' \in Seq(Pdu)
             /\ \A j \in DOMAIN net' : WillBeSent(net'[j])
             /\ duplicates' \in 0 .. MaxDuplicates
  <2>1. net[i] \in Pdu /\ WillBeSent(net[i])
    BY <1>1, <1>2
  <2>2. net' = Append(net, net[i]) /\ duplicates' = duplicates - 1 /\ duplicates > 0
    BY <1>7 DEF Duplicate
  <2>3. duplicates' \in 0 .. MaxDuplicates
    BY <1>1, <2>2
  <2>4. QED  BY <1>4, <2>1, <2>2, <2>3
<1>8. RequestOfSender \/ QueuePdus \/ ReceiverOnItsOwn \/ UNCHANGED transferVars
        => UNCHANGED <<net, duplicates>>
  BY DEF RequestOfSender, QueuePdus, ReceiverOnItsOwn, netVars, transferVars
<1>9. QED  BY <1>3, <1>5, <1>6, <1>7, <1>8 DEF TransferNext

\* Types and receipt are kept by every step.
LEMMA ReceiptStep ==
  ASSUME TypeOK, TypeOK', Agreement, TransferTyped, Receipt, [TransferNext]_transferVars
  PROVE  TransferTyped' /\ Receipt' /\ SenderStays /\ ReceiverMoves
<1>1. SenderStays /\ SourceInv(sender', outgoing', source', opened')
  BY SourceStep DEF Receipt
<1>2. ReceiverMoves
  BY ReceiverStep
<1>3. /\ net' \in Seq(Pdu)
      /\ \A i \in DOMAIN net' : WillBeSent(net'[i])
      /\ duplicates' \in 0 .. MaxDuplicates
  BY <1>1, NetStep
<1>4. destination' \in Seq(Nat) \cup {NoFile} /\ copy_failed' \in BOOLEAN
  BY <1>2 DEF ReceiverMoves, Copies, Fits, PassesFor, PartOf, TransferTyped, destinationVars
<1>5. TransferTyped'
  BY <1>2, <1>3, <1>4 DEF TransferTyped, ReceiverMoves
<1>6. ReceiptInv(receiver, source)'
  <2>1. \A code : EofSent(code) => EofSent(code)'
    BY <1>1, SentMonotone DEF SenderStays
  <2>2. /\ IsExcerpt(receiver'.temp_data, source')
        /\ receiver'.recv_file_size # 0 => sender'.put_request_received /\ opened'
    BY <1>1, <1>2 DEF SenderStays, ReceiverMoves, ReceiptInv
  <2>3. receiver'.delivery_code = "DATA_COMPLETE" => EofSent("NO_ERROR")'
    BY <1>2, <2>1 DEF ReceiverMoves, ReceiptInv
  <2>4. QED  BY <2>2, <2>3 DEF ReceiptInv
<1>7. destination' # NoFile =>
        /\ sender'.put_request_received
        /\ PartOf(destination', source')
        /\ copy_failed' \/ PassesFor(destination', source')
  <2>1. source' = source /\ (sender.put_request_received => sender'.put_request_received)
    BY <1>1 DEF SenderStays
  <2>2. CASE UNCHANGED destinationVars
    BY <2>1, <2>2 DEF Receipt, destinationVars
  <2>3. CASE sender.put_request_received /\ Copies
    BY <2>1, <2>3 DEF Copies, Fits, PassesFor, Receipt
  <2>4. QED  BY <1>2, <2>2, <2>3 DEF ReceiverMoves
<1>8. Receipt'
  BY <1>1, <1>3, <1>6, <1>7 DEF Receipt, WasSent, WillBeSent
<1>9. QED  BY <1>1, <1>2, <1>5, <1>8

\* They hold before anything happens.
LEMMA ReceiptInitially == TransferInit => TypeOK /\ TransferTyped /\ Receipt
<1> SUFFICES ASSUME TransferInit
             PROVE  TypeOK /\ TransferTyped /\ Receipt
  OBVIOUS
<1>1. /\ IsSender(sender) /\ sender = NewSender /\ source \in Files /\ outgoing = <<>>
      /\ handler \in FaultHandlers /\ changes = 0 /\ opened = FALSE /\ transmitted = 0
      /\ socket = "None" /\ sending_handler = "Running"
  BY NewSenderType DEF TransferInit, Init
<1>2. /\ source \in Seq(Nat) /\ <<>> \in Seq(Pdu) /\ Len(<<>>) = 0 /\ 0 \in 0 .. Len(<<>>)
      /\ 0 \in 0 .. MaxChanges
  BY <1>1, FilesAssumption, BoundsAssumption
<1>3. TypeOK
  BY <1>1, <1>2 DEF TypeOK, IsSender
<1>4. /\ receiver = NewReceiver /\ registered = FALSE
      /\ destination = NoFile /\ copy_failed = FALSE
      /\ handlers \in ReceiverHandlers /\ net = <<>> /\ duplicates \in {0, MaxDuplicates}
  BY DEF TransferInit, ReceiverInit
<1>5. TransferTyped
  <2>1. IsReceiver(receiver) /\ registered \in BOOLEAN
    BY <1>4, NewReceiverType
  <2>2. duplicates \in 0 .. MaxDuplicates
    BY <1>4, MaxDuplicatesAssumption
  <2>3. net \in Seq(Pdu) /\ destination \in Seq(Nat) \cup {NoFile}
    BY <1>2, <1>4
  <2>4. QED  BY <1>4, <2>1, <2>2, <2>3 DEF TransferTyped
<1>6. ~sender.put_request_received /\ sender.file = "None"
  BY <1>1 DEF NewSender, NewMachine
<1>7. SourceInv(sender, outgoing, source, opened)
  BY <1>1, <1>2, <1>6 DEF SourceInv
<1>8. ReceiptInv(receiver, source)
  BY <1>2, <1>4, NewReceiverType, EmptyExcerpt DEF ReceiptInv
<1>9. \A i \in DOMAIN net : WasSent(net[i])
  BY <1>4
<1>10. Receipt
  BY <1>4, <1>7, <1>8, <1>9 DEF Receipt
<1>11. QED  BY <1>3, <1>5, <1>10

----------------------------------------------------------------------------
(* What is delivered. *)

\* The invariant of the transfer: what the temporary file holds at every moment.
THEOREM ReceiptHolds == TransferSpec => [](TransferTyped /\ Receipt)
<1>1. TypeOK /\ TypeOK' /\ Agreement /\ (TransferTyped /\ Receipt)
        /\ [TransferNext]_transferVars => (TransferTyped /\ Receipt)'
  BY ReceiptStep
<1>2. QED
  BY <1>1, ReceiptInitially, SenderInTransfer, TypeCorrect, AgreementHolds, PTL DEF TransferSpec

\* Type correctness of the transfer.
THEOREM TransferTypeOKHolds == TransferSpec => []TransferTypeOK
<1>1. TypeOK /\ TransferTyped => TransferTypeOK
  BY DEF TransferTyped, IsReceiver, MachineType, TransferTypeOK
<1>2. QED  BY <1>1, SenderInTransfer, TypeCorrect, ReceiptHolds, PTL

\* A success keeps its reason.
LEMMA SuccessStep ==
  ASSUME TypeOK, TypeOK', Agreement, TransferTyped, Receipt, SuccessInv,
         [TransferNext]_transferVars
  PROVE  SuccessInv'
<1>1. SenderStays /\ ReceiverMoves
  BY ReceiptStep
<1>2. source' = source /\ \A code : EofSent(code) => EofSent(code)'
  BY <1>1, SentMonotone DEF SenderStays
<1>3. \A data : Fits(data) => PassesFor(data, source')
  BY <1>2 DEF Fits
<1>4. SUFFICES ASSUME receiver'.final_status = "SUCCESSFUL"
               PROVE  \/ PassesFor(destination', source')
                      \/ copy_failed'
                      \/ EofSent("CANCEL_REQUEST_RECEIVED")'
  BY <1>2 DEF SuccessInv
<1>5. CASE receiver.final_status = "SUCCESSFUL"
  <2>1. CASE EofSent("CANCEL_REQUEST_RECEIVED")
    BY <1>2, <2>1
  <2>2. CASE Fits(destination) \/ copy_failed
    BY <1>1, <1>3, <2>2 DEF ReceiverMoves, Copies, destinationVars
  <2>3. QED  BY <1>5, <2>1, <2>2 DEF SuccessInv, Fits
<1>6. CASE EofSent("CANCEL_REQUEST_RECEIVED")
  BY <1>2, <1>6
<1>7. CASE Fits(destination')
  BY <1>3, <1>7
<1>8. QED  BY <1>1, <1>4, <1>5, <1>6, <1>7 DEF ReceiverMoves

\* A receiver that reports complete data and success has delivered the file, or what passes
\* for it.
THEOREM SuccessMeansDeliveredHolds == TransferSpec => []SuccessMeansDelivered
<1>1. TransferInit => SuccessInv
  BY NewReceiverType DEF TransferInit, ReceiverInit, SuccessInv
<1>2. TypeOK /\ TypeOK' /\ Agreement /\ (TransferTyped /\ Receipt) /\ SuccessInv
        /\ [TransferNext]_transferVars => SuccessInv'
  BY SuccessStep
<1>3. TypeOK /\ Agreement /\ (TransferTyped /\ Receipt) /\ SuccessInv => SuccessMeansDelivered
  BY OneEof DEF Receipt, ReceiptInv, SuccessInv, SuccessMeansDelivered
<1>4. QED
  BY <1>1, <1>2, <1>3, SenderInTransfer, TypeCorrect, AgreementHolds, ReceiptHolds, PTL
  DEF TransferSpec

\* The transfer implements the delivery of files, whatever is lost, repeated, reordered or
\* cut short: a step that copies the temporary file delivers what passes for the source.
THEOREM DeliversOrNotHolds == TransferSpec => DeliversOrNot
<1> DEFINE offer == IF sender.put_request_received THEN source ELSE NoFile
<1>1. TransferInit => Promise!Init
  BY DEF TransferInit, Init, ReceiverInit, NewSender, NewMachine, Promise!Init
<1>2. TypeOK /\ TypeOK' /\ Agreement /\ (TransferTyped /\ Receipt) /\ [TransferNext]_transferVars
        => [Promise!Next]_Promise!vars
  <2> SUFFICES ASSUME TypeOK, TypeOK', Agreement, TransferTyped, Receipt,
                      [TransferNext]_transferVars
               PROVE  [Promise!Next]_Promise!vars
    OBVIOUS
  <2>1. SenderStays /\ ReceiverMoves
    BY ReceiptStep
  <2>2. source' = source /\ source \in Files /\ source # NoFile
    BY <2>1, NoFileAssumption DEF SenderStays, TypeOK
  <2>3. UNCHANGED destinationVars \/ (sender.put_request_received /\ Copies)
    BY <2>1 DEF ReceiverMoves
  <2>4. CASE ~sender.put_request_received
    <3>1. UNCHANGED <<destination, copy_failed>> /\ offer = NoFile
      BY <2>3, <2>4 DEF destinationVars
    <3>2. CASE ~sender'.put_request_received
      BY <2>4, <3>1, <3>2 DEF Promise!vars
    <3>3. CASE sender'.put_request_received
      BY <2>2, <2>4, <3>1, <3>3 DEF Promise!Next, Promise!Offer
    <3>4. QED  BY <3>2, <3>3
  <2>5. CASE sender.put_request_received
    <3>1. sender'.put_request_received
      BY <2>1, <2>5 DEF SenderStays
    <3>2. CASE UNCHANGED destinationVars
      BY <2>2, <2>5, <3>1, <3>2 DEF Promise!vars, destinationVars
    <3>3. CASE Fits(destination') /\ copy_failed' = FALSE
      BY <2>2, <2>5, <3>1, <3>3 DEF Fits, Promise!Next, Promise!Deliver
    <3>4. CASE /\ destination' = destination \/ PartOf(destination', source)
               /\ copy_failed' = TRUE
      BY <2>2, <2>5, <3>1, <3>4 DEF Promise!Next, Promise!Fail
    <3>5. QED  BY <2>3, <3>2, <3>3, <3>4 DEF Copies
  <2>6. QED  BY <2>4, <2>5
<1>3. QED
  BY <1>1, <1>2, SenderInTransfer, TypeCorrect, AgreementHolds, ReceiptHolds, PTL
  DEF TransferSpec, DeliversOrNot, Promise!Spec

\* A file that the checksum tells from itself with words missing is delivered exactly or not
\* at all, unless the last copy to the destination failed.
THEOREM ToldFileDelivered ==
  TransferSpec => [](ChecksumTells(source) /\ ~copy_failed => destination \in {NoFile, source})
<1>1. TypeOK /\ (TransferTyped /\ Receipt)
        => (ChecksumTells(source) /\ ~copy_failed => destination \in {NoFile, source})
  <2> SUFFICES ASSUME TypeOK, Receipt, ChecksumTells(source), ~copy_failed,
                      destination # NoFile
               PROVE  destination = source
    OBVIOUS
  <2>1. source \in Seq(Nat)
    BY FilesAssumption DEF TypeOK
  <2>2. PassesFor(destination, source)
    BY DEF Receipt
  <2>3. QED  BY <2>1, <2>2, ExcerptIsFile DEF PassesFor, PartOf
<1>2. QED  BY <1>1, SenderInTransfer, TypeCorrect, ReceiptHolds, PTL

----------------------------------------------------------------------------
(* Files that the checksum tells. *)

\* f[i] is the sum of the first i words.
Sums(f, words) ==
  f[0] = 0 /\ \A i \in 1 .. Len(words) : f[i] = f[i - 1] + words[i]

\* The words have one sum.
LEMMA SumsAgree ==
  ASSUME NEW words \in Seq(Nat), NEW f, NEW g, Sums(f, words), Sums(g, words)
  PROVE  f[Len(words)] = g[Len(words)]
<1>1. Len(words) \in Nat /\ Len(words) \in 0 .. Len(words)
  OBVIOUS
<1>2. StepAlike(f, g, Len(words))
  BY DEF StepAlike, Sums
<1>3. \A i \in 0 .. Len(words) : f[i] = g[i]
  BY <1>1, <1>2, IterationsAgree
<1>4. QED  BY <1>1, <1>3

\* The checksum is the remainder of the last sum.
LEMMA ChecksumSummed ==
  ASSUME NEW words \in Seq(Nat)
  PROVE  \E f \in [0 .. Len(words) -> Nat] :
           Sums(f, words) /\ calc_checksum(words) = f[Len(words)] % Modulus
<1> DEFINE n == Len(words)
           Body(g) == [i \in 0 .. Len(words) |-> IF i = 0 THEN 0 ELSE g[i - 1] + words[i]]
           step == [t \in (1 .. n) \X Nat |-> t[2] + words[t[1]]]
           h == CHOOSE g : g = Body(g)
<1>1. n \in Nat /\ \A i \in 1 .. n : words[i] \in Nat
  OBVIOUS
<1>2. step \in [(1 .. n) \X Nat -> Nat]
  <2>1. \A t \in (1 .. n) \X Nat : t[2] + words[t[1]] \in Nat
    BY <1>1
  <2>2. QED  BY <2>1
<1>3. \A i \in 1 .. n : \A s \in Nat : step[<<i, s>>] = s + words[i]
  OBVIOUS
<1>. HIDE DEF step
<1>4. PICK f \in [0 .. n -> Nat] : Iterates(f, n, 0, step)
  BY <1>1, <1>2, IterationExists
<1>5. Sums(f, words)
  <2>1. ASSUME NEW i \in 1 .. n
        PROVE  f[i] = f[i - 1] + words[i]
    <3>1. i - 1 \in 0 .. n
      BY <1>1
    <3>. HIDE DEF n
    <3>2. f[i - 1] \in Nat
      BY <3>1
    <3>3. f[i] = step[<<i, f[i - 1]>>]
      BY <1>4 DEF Iterates
    <3>4. QED  BY <1>3, <3>2, <3>3
  <2>2. QED  BY <1>4, <2>1 DEF Sums, Iterates
<1>6. f = Body(f)
  <2>1. ASSUME NEW i \in 0 .. n
        PROVE  f[i] = Body(f)[i]
    <3>1. CASE i = 0
      BY <1>5, <3>1 DEF Sums
    <3>2. CASE i \in 1 .. n
      <4>1. f[i] = f[i - 1] + words[i] /\ i \in 0 .. Len(words) /\ i # 0
        BY <1>1, <1>5, <3>2 DEF Sums
      <4>2. QED  BY <4>1
    <3>3. i = 0 \/ i \in 1 .. n
      BY <1>1
    <3>4. QED  BY <3>1, <3>2, <3>3
  <2>2. DOMAIN f = DOMAIN Body(f) /\ f = [i \in DOMAIN f |-> f[i]]
    OBVIOUS
  <2>3. QED  BY <2>1, <2>2
<1>7. h = Body(h)
  BY <1>6
<1>8. calc_checksum(words) = h[n] % Modulus
  BY DEF calc_checksum
<1>9. Sums(h, words)
  <2>. HIDE DEF h
  <2>1. Body(h)[0] = 0
    BY <1>1
  <2>2. ASSUME NEW i \in 1 .. n
        PROVE  Body(h)[i] = h[i - 1] + words[i]
    <3>1. i \in 0 .. Len(words) /\ i # 0
      BY <1>1
    <3>2. QED  BY <3>1
  <2>. HIDE DEF Body
  <2>3. QED  BY <1>7, <2>1, <2>2 DEF Sums
<1>. HIDE DEF h, Body
<1>10. f[n] = h[n]
  BY <1>5, <1>9, SumsAgree
<1>11. QED  BY <1>5, <1>8, <1>10

\* A sum that grows no faster than another, and once less, ends below it.
LEMMA SumsPart ==
  ASSUME NEW L \in Nat, NEW s \in [0 .. L -> Nat], NEW t \in [0 .. L -> Nat], s[0] <= t[0],
         \A i \in 1 .. L : s[i] + t[i - 1] <= s[i - 1] + t[i],
         NEW once \in 1 .. L, s[once] + t[once - 1] < s[once - 1] + t[once]
  PROVE  s[L] < t[L]
<1> DEFINE I == {i \in Nat : i <= L => s[i] <= t[i] /\ (once <= i => s[i] < t[i])}
<1>1. 0 \in I
  OBVIOUS
<1>2. ASSUME NEW k \in Nat, k \in I
      PROVE  k + 1 \in I
  <2> SUFFICES ASSUME k + 1 <= L
               PROVE  s[k + 1] <= t[k + 1] /\ (once <= k + 1 => s[k + 1] < t[k + 1])
    OBVIOUS
  <2> DEFINE a == s[k]
             b == t[k]
             c == s[k + 1]
             d == t[k + 1]
  <2>1. k + 1 \in 1 .. L /\ (k + 1) - 1 = k /\ k \in 0 .. L /\ k + 1 \in 0 .. L /\ once \in Nat
    OBVIOUS
  <2>2. a <= b /\ (once <= k => a < b)
    BY <1>2, <2>1
  <2>3. a \in Nat /\ b \in Nat /\ c \in Nat /\ d \in Nat /\ c + b <= a + d
    BY <2>1
  <2>4. once = k + 1 => c + b < a + d
    BY <2>1
  <2>. HIDE DEF I, a, b, c, d
  <2>5. c <= d
    BY <2>2, <2>3
  <2>6. a < b => c < d
    BY <2>3
  <2>7. once = k + 1 => c < d
    BY <2>2, <2>3, <2>4
  <2>8. once <= k + 1 => once <= k \/ once = k + 1
    BY <2>1
  <2>9. c <= d /\ (once <= k + 1 => c < d)
    BY <2>2, <2>5, <2>6, <2>7, <2>8
  <2>10. QED  BY <2>9 DEF c, d
<1>. HIDE DEF I
<1>3. L \in I
  BY <1>1, <1>2, SetInduction
<1>4. QED  BY <1>3 DEF I

\* An excerpt that misses a word adds up to less.
LEMMA ExcerptAddsLess ==
  ASSUME NEW words \in Seq(Nat), \A i \in 1 .. Len(words) : words[i] # 0,
         NEW n \in 0 .. Len(words), NEW kept \in SUBSET (1 .. n),
         NEW f \in [0 .. Len(words) -> Nat], Sums(f, words),
         NEW g \in [0 .. n -> Nat], Sums(g, Excerpt(words, n, kept)),
         NEW missed \in 1 .. Len(words), missed \notin kept
  PROVE  g[n] < f[Len(words)]
<1> DEFINE L == Len(words)
           s == [i \in 0 .. L |-> g[IF i <= n THEN i ELSE n]]
<1>1. L \in Nat /\ n \in Nat /\ n <= L /\ \A i \in 1 .. L : words[i] \in Nat \ {0}
  OBVIOUS
<1>2. s \in [0 .. L -> Nat] /\ s[0] = 0 /\ s[L] = g[n]
  <2>1. \A i \in 0 .. L : (IF i <= n THEN i ELSE n) \in 0 .. n
    BY <1>1
  <2>2. \A i \in 0 .. L : g[IF i <= n THEN i ELSE n] \in Nat
    BY <2>1
  <2>3. g[0] = 0
    BY DEF Sums
  <2>4. s[0] = g[0] /\ s[L] = g[n]
    BY <1>1
  <2>5. QED  BY <2>2, <2>3, <2>4
<1>3. ASSUME NEW i \in 1 .. L
      PROVE  s[i] = s[i - 1] + (IF i \in kept THEN words[i] ELSE 0)
  <2>1. CASE i <= n
    <3>1. i \in 1 .. n /\ i - 1 <= n /\ i \in 0 .. L /\ i - 1 \in 0 .. L
      BY <1>1, <2>1
    <3>2. Excerpt(words, n, kept)[i] = (IF i \in kept THEN words[i] ELSE 0)
      BY <3>1 DEF Excerpt
    <3>3. Len(Excerpt(words, n, kept)) = n
      BY <1>1 DEF Excerpt
    <3>4. g[i] = g[i - 1] + Excerpt(words, n, kept)[i]
      BY <3>1, <3>3 DEF Sums
    <3>5. s[i] = g[i] /\ s[i - 1] = g[i - 1]
      BY <2>1, <3>1
    <3>. HIDE DEF s
    <3>6. QED  BY <3>2, <3>4, <3>5
  <2>2. CASE ~(i <= n)
    <3>1. /\ i \notin kept /\ i \in 0 .. L /\ i - 1 \in 0 .. L
          /\ i - 1 <= n => i - 1 = n
      BY <1>1, <2>2
    <3>2. g[n] \in Nat
      BY <1>1
    <3>3. s[i] = g[n]
      BY <2>2, <3>1
    <3>4. s[i - 1] = g[n]
      BY <3>1
    <3>. HIDE DEF s
    <3>5. QED  BY <3>1, <3>2, <3>3, <3>4
  <2>3. QED  BY <2>1, <2>2
<1>4. ASSUME NEW i \in 1 .. L
      PROVE  /\ s[i] + f[i - 1] <= s[i - 1] + f[i]
             /\ i \notin kept => s[i] + f[i - 1] < s[i - 1] + f[i]
  <2> DEFINE a == s[i - 1]
             b == f[i - 1]
             w == words[i]
  <2>1. a \in Nat /\ b \in Nat /\ w \in Nat \ {0}
    <3>1. i - 1 \in 0 .. L
      BY <1>1
    <3>. HIDE DEF s
    <3>2. QED  BY <1>1, <1>2, <3>1
  <2>2. f[i] = b + w
    BY DEF Sums
  <2>3. s[i] = a + (IF i \in kept THEN w ELSE 0)
    BY <1>3
  <2>. HIDE DEF s, a, b, w
  <2>4. /\ s[i] + b <= a + f[i]
        /\ i \notin kept => s[i] + b < a + f[i]
    BY <2>1, <2>2, <2>3
  <2>5. QED  BY <2>4 DEF a, b
<1>5. s[0] <= f[0]
  <2>1. f[0] = 0
    BY DEF Sums
  <2>2. QED  BY <1>2, <2>1
<1>. HIDE DEF s
<1>6. s[L] < f[L]
  BY <1>1, <1>2, <1>4, <1>5, SumsPart
<1>7. QED  BY <1>2, <1>6

\* The checksum tells every file without zeros whose words add up to less than the modulus:
\* there are files that it tells, whatever the modulus is.
THEOREM SmallSumsTell ==
  ASSUME NEW words \in Seq(Nat), \A i \in 1 .. Len(words) : words[i] # 0,
         \E f \in [0 .. Len(words) -> 0 .. Modulus - 1] : Sums(f, words)
  PROVE  ChecksumTells(words)
<1> SUFFICES ASSUME NEW n \in 0 .. Len(words), NEW kept \in SUBSET (1 .. n),
                    calc_checksum(Excerpt(words, n, kept)) = calc_checksum(words)
             PROVE  Excerpt(words, n, kept) = words
  BY DEF ChecksumTells
<1> DEFINE L == Len(words)
           part == Excerpt(words, n, kept)
<1>1. L \in Nat /\ n \in Nat /\ n <= L /\ \A i \in 1 .. L : words[i] \in Nat
  OBVIOUS
<1>2. part \in Seq(Nat) /\ Len(part) = n
  <2>1. part \in [1 .. n -> Nat]
    BY <1>1 DEF Excerpt
  <2>. HIDE DEF part
  <2>2. QED  BY <1>1, <2>1
<1>3. PICK f \in [0 .. L -> Nat] : Sums(f, words) /\ calc_checksum(words) = f[L] % Modulus
  BY ChecksumSummed
<1>4. PICK g \in [0 .. n -> Nat] : Sums(g, part) /\ calc_checksum(part) = g[n] % Modulus
  <2>. HIDE DEF part
  <2>1. QED  BY <1>2, ChecksumSummed
<1>5. f[L] \in Nat /\ f[L] < Modulus
  <2>1. PICK b \in [0 .. L -> 0 .. Modulus - 1] : Sums(b, words)
    OBVIOUS
  <2>2. f[L] = b[L]
    BY <1>3, <2>1, SumsAgree, Zenon
  <2>3. b[L] \in 0 .. Modulus - 1
    <3>1. L \in 0 .. L
      BY <1>1
    <3>. HIDE DEF L
    <3>2. QED  BY <3>1
  <2>4. QED  BY <2>2, <2>3, ModulusAssumption
<1>6. \A missed \in 1 .. L : missed \in kept
  <2>1. SUFFICES ASSUME NEW missed \in 1 .. L, missed \notin kept
                 PROVE  FALSE
    OBVIOUS
  <2>2. g[n] < f[L]
    BY <1>3, <1>4, <2>1, ExcerptAddsLess, Zenon
  <2>. g[n] \in Nat
    BY <1>1
  <2>3. g[n] % Modulus = f[L] % Modulus
    BY <1>3, <1>4
  <2>4. g[n] = f[L]
    BY <1>5, <2>2, <2>3, ModEqual, ModulusAssumption
  <2>5. QED  BY <1>5, <2>2, <2>4
<1>7. n = L
  BY <1>1, <1>6
<1>8. part = [i \in 1 .. L |-> words[i]]
  BY <1>6, <1>7, Zenon DEF Excerpt
<1>9. words = [i \in 1 .. L |-> words[i]]
  OBVIOUS
<1>10. QED  BY <1>8, <1>9
============================================================================
