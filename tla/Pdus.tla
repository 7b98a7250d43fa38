-------------------------------- MODULE Pdus --------------------------------
(***************************************************************************)
(* The protocol data units CFDP class 1 entities exchange, the files they  *)
(* carry and the checksum that protects them.                              *)
(*                                                                         *)
(* A file is a sequence of 32-bit words, the unit of the checksum; offsets *)
(* and sizes count words. Segments start on a word boundary, which is so   *)
(* for the default maximum_file_segment_length of 4096 octets.             *)
(***************************************************************************)
EXTENDS Naturals, Sequences

CONSTANTS
  Files,                        \* contents a source file can have
  maximum_file_segment_length,  \* MIB: words of file data in one PDU
  Modulus                       \* of the checksum; 2^32 in the code

ASSUME FilesAssumption == Files \subseteq Seq(Nat)
ASSUME SegmentAssumption == maximum_file_segment_length \in Nat \ {0}
ASSUME ModulusAssumption == Modulus \in Nat \ {0}

Least(a, b) == IF a <= b THEN a ELSE b

\* The sum of the words of a file, truncated.
calc_checksum(words) ==
  LET sum[i \in 0 .. Len(words)] == IF i = 0 THEN 0 ELSE sum[i - 1] + words[i]
  IN  sum[Len(words)] % Modulus

\* What a read at `offset` returns: at most a segment, nothing at the end.
Segment(words, offset) ==
  SubSeq(words, offset + 1, Least(offset + maximum_file_segment_length, Len(words)))

\* As it would be if the receiver appended what arrives.
WriteAtEnd(words, offset, data) == words \o data

\* A seek and a write: words below `offset` that were never written read as zero.
WriteAt(words, offset, data) ==
  [i \in 1 .. (IF Len(words) > offset + Len(data) THEN Len(words) ELSE offset + Len(data)) |->
     CASE offset < i /\ i <= offset + Len(data) -> data[i - offset]
       [] (i <= offset \/ offset + Len(data) < i) /\ i <= Len(words) -> words[i]
       [] OTHER -> 0]

MetadataPdu(size) == [type |-> "METADATA", file_size |-> size]

FileDataPdu(offset, data) ==
  [type |-> "FILE_DATA", segment_offset |-> offset, data |-> data]

EofPdu(code, checksum, size) ==
  [type |-> "EOF", condition_code |-> code, file_checksum |-> checksum, file_size |-> size]

\* What make_fd_pdu returns when it has no data to send: the result of the fault
\* handler, True or None, which is no PDU.
NoPdu == [type |-> "NO_PDU"]

\* The checksums a sender can find: 0 until the file was opened.
Checksums == {0} \cup {calc_checksum(words) : words \in Files}

Pdu ==
  [type : {"METADATA"}, file_size : Nat]
    \cup [type : {"FILE_DATA"}, segment_offset : Nat, data : Seq(Nat)]
    \cup [type : {"EOF"}, condition_code : {"None", "NO_ERROR", "CANCEL_REQUEST_RECEIVED"},
          file_checksum : Checksums, file_size : Nat]
    \cup {NoPdu}

\* to_bytes succeeds. An EOF without a condition code has none to encode.
Encodable(pdu) ==
  /\ pdu.type # "NO_PDU"
  /\ pdu.type = "EOF" => pdu.condition_code # "None"

\* The file data among a sequence of PDUs, put together in the order it was sent.
FileDataOf(pdus) ==
  LET data[i \in 0 .. Len(pdus)] ==
        IF i = 0 THEN <<>>
        ELSE IF pdus[i].type = "FILE_DATA" THEN data[i - 1] \o pdus[i].data
        ELSE data[i - 1]
  IN  data[Len(pdus)]
============================================================================
