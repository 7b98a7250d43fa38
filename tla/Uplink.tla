------------------------------- MODULE Uplink -------------------------------
(* The uplink chain of plugins: TCTF_Manager puts a command into a telecommand
   transfer frame, BCHPlugin the frame into code blocks, CreateCLTU the blocks
   between the start and the tail of a CLTU.  Each runs on its own, and takes
   what the one before published from its queue. *)
EXTENDS Bch

CONSTANTS
  Params,     \* the managed parameters of TCTF_Manager
  Commands,   \* the commands, as octets
  MaxCommands \* bound: commands given

ASSUME ParamsAssumption ==
  \A p \in Params :
    /\ p.seq \in 0 .. 255 /\ p.version \in 0 .. 3 /\ p.rsvd \in 0 .. 3
    /\ p.bypass \in 0 .. 1 /\ p.cc \in 0 .. 1 /\ p.scID \in 0 .. 1023 /\ p.vcID \in 0 .. 63
    /\ p.apply_ecf \in BOOLEAN /\ p.add_segmentation_byte \in BOOLEAN

VARIABLES
  params,        \* the managed parameters
  frame_seq_num, \* the number of the next frame
  frames,        \* TCTF_Manager's frames, on their way to BCHPlugin
  blocks,        \* BCHPlugin's code blocks, on their way to CreateCLTU
  cltus,         \* CreateCLTU's CLTUs
  given,         \* history: the commands that made a frame
  refused        \* the number of commands that did not

vars == <<params, frame_seq_num, frames, blocks, cltus, given, refused>>

Init ==
  /\ params \in Params /\ frame_seq_num = params.seq
  /\ frames = <<>> /\ blocks = <<>> /\ cltus = <<>>
  /\ given = <<>> /\ refused = 0

-----------------------------------------------------------------------------
Segmented(command) == (IF params.add_segmentation_byte THEN <<192>> ELSE <<>>) \o command

\* As it would be if the modulus were one less still.
wrapsAt254 == (frame_seq_num + 1) % 254

NextNumber == (frame_seq_num + 1) % 255

\* A frame whose header cannot be encoded raises: nothing is published, and
\* the number stays.
TCTF_Manager_process(command) ==
  LET header == [params EXCEPT !.seq = frame_seq_num]
      data   == Segmented(command)
  IN  /\ Len(given) + refused < MaxCommands
      /\ \/ /\ Encodes(header, data)
            /\ frames' = Append(frames, encode(header, data))
            /\ frame_seq_num' = NextNumber
            /\ given' = Append(given, command)
            /\ UNCHANGED refused
         \/ /\ ~Encodes(header, data)
            /\ refused' = refused + 1
            /\ UNCHANGED <<frames, frame_seq_num, given>>
      /\ UNCHANGED <<params, blocks, cltus>>

\* One sequence of pieces of the same length.
Joined(pieces) ==
  IF pieces = <<>> THEN <<>>
  ELSE LET size == Len(pieces[1])
       IN  [i \in 1 .. size * Len(pieces) |-> pieces[(i + size - 1) \div size][((i - 1) % size) + 1]]

Filler(k) == [i \in 1 .. k |-> 85]

\* The seven octets of each code block, the last one filled up.
Chunks(octets) ==
  LET whole == Len(octets) \div BlockOctets
      left  == Len(octets) % BlockOctets
  IN  [k \in 1 .. whole |-> SubSeq(octets, BlockOctets * (k - 1) + 1, BlockOctets * k)]
        \o (IF left = 0 THEN <<>>
            ELSE <<SubSeq(octets, Len(octets) - left + 1, Len(octets))
                     \o Filler(BlockOctets - left)>>)

BCHPlugin_process ==
  /\ frames # <<>> /\ frames' = Tail(frames)
  /\ LET chunks == Chunks(Head(frames))
     IN  blocks' = Append(blocks, Joined([k \in DOMAIN chunks |-> generateBCH(chunks[k])]))
  /\ UNCHANGED <<params, frame_seq_num, cltus, given, refused>>

cltu_start == <<235, 144>>
cltu_tail == <<197, 197, 197, 197, 197, 197, 197, 121>>

CreateCLTU_process ==
  /\ blocks # <<>> /\ blocks' = Tail(blocks)
  /\ cltus' = Append(cltus, cltu_start \o Head(blocks) \o cltu_tail)
  /\ UNCHANGED <<params, frame_seq_num, frames, given, refused>>

Next ==
  \/ \E command \in Commands : TCTF_Manager_process(command)
  \/ BCHPlugin_process
  \/ CreateCLTU_process

Spec == Init /\ [][Next]_vars

-----------------------------------------------------------------------------
(* What a spacecraft makes of a CLTU: the code blocks between the start and
   the tail, the octets of each without the parity, cut to the length that the
   header of the frame gives, and the frame decoded by the code's own decode. *)

BlocksOf(cltu) ==
  LET inner == SubSeq(cltu, Len(cltu_start) + 1, Len(cltu) - Len(cltu_tail))
  IN  [k \in 1 .. Len(inner) \div 8 |-> SubSeq(inner, 8 * k - 7, 8 * k)]

Extracted(cltu) ==
  LET inner  == BlocksOf(cltu)
      octets == Joined([k \in DOMAIN inner |-> SubSeq(inner[k], 1, 7)])
      length == decode(octets, FALSE).header_map["length"] + 1
  IN  SubSeq(octets, 1, IF length < Len(octets) THEN length ELSE Len(octets))

FrameOf(cltu) == decode(Extracted(cltu), params.apply_ecf)

\* The number that a receiver expects after another. CCSDS 232.0-B, which the
\* documentation names, counts frames in the eight bits of the field.
Expected(number) == (number + 1) % 256

\* The first frame has the configured number, and each other one the number
\* expected; except that one number is passed over where the code's count ends,
\* after 254, and after 255 if the count is set to begin there.
InSequence(k) ==
  LET Number(i) == FrameOf(cltus[i]).header_map["seq"]
  IN  IF k = 1 THEN Number(1) = params.seq
      ELSE \/ Number(k) = Expected(Number(k - 1))
           \/ /\ Number(k - 1) \in {254, 255}
              /\ Number(k) = Expected(Expected(Number(k - 1)))

Carries(cltu, k) ==
  LET frame == FrameOf(cltu)
  IN  /\ \A key \in {"version", "bypass", "cc", "rsvd", "scID", "vcID"} :
           frame.header_map[key] = params[key]
      /\ frame.payload = Segmented(given[k])
      /\ params.apply_ecf =>
           frame.ecf = crc_func(SubSeq(Extracted(cltu), 1, Len(Extracted(cltu)) - 2))

\* The chain as a whole is lossless: out of the k-th CLTU a receiver gets the
\* command and the header fields of the k-th frame back, the filler of the last
\* code block cut off by the frame's own length, up to the largest frame; a
\* command too long for the length field makes no CLTU and uses no number. The
\* frames are in the receiver's sequence, but for the number passed over at the
\* wrap.
CommandsSurvive ==
  cltus # <<>> =>
    LET last == Len(cltus) IN Carries(cltus[last], last) /\ InSequence(last)

\* The shift register computes the BCH code: every block published is a
\* multiple of the generator polynomial, and has its filler bit, the padded last
\* block too.
BlocksAreCodewords ==
  cltus # <<>> =>
    LET last == BlocksOf(cltus[Len(cltus)])
    IN  \A k \in DOMAIN last : IsCodeword(last[k])
=============================================================================
