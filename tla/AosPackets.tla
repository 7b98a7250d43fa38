----------------------------- MODULE AosPackets -----------------------------
(* The plugin that takes the CCSDS packets out of a stream of AOS frames
   (plugins/AOS_to_CCSDS.py).  A spacecraft lays packets into the zones of
   its virtual channels, frames get lost on the way, and the plugin joins the
   octets it holds with the next frame that arrives.

   Octets are told apart by their packet and their place in it.  The sizes
   are scaled down: HeaderLen octets hold the length of a packet, ZoneLen
   octets are a packet zone. *)
EXTENDS AosFrame

CONSTANTS
  Configs,   \* the configurations checked
  Channels,  \* the virtual channels of the spacecraft
  ZoneLen,   \* octets of a packet zone (about 1100)
  HeaderLen, \* octets of a packet header (6)
  Lengths,   \* the lengths of the packets
  Garbage,   \* the lengths that may be read where no header is
  MaxFrames, \* bound: frames sent
  MaxLosses  \* bound: frames lost

ASSUME SizesAssumption ==
  /\ ZoneLen \in Nat \ {0} /\ HeaderLen \in Nat \ {0}
  /\ \A k \in Lengths \cup Garbage : k \in Nat /\ k > HeaderLen

VARIABLES
  config,   \* the AOSConfig
  previous, \* bytes_from_previous_frame, empty for None
  sent,     \* the packets published: each a sequence of octets
  open,     \* of each channel, the octets so far of a packet not yet complete
  remains,  \* of each channel, the octets of it that are still to be sent
  packets, frames, losses \* counters

vars == <<config, previous, sent, open, remains, packets, frames, losses>>

Init ==
  /\ config \in Configs
  /\ previous = <<>> /\ sent = <<>>
  /\ open = [vc \in Channels |-> <<>>] /\ remains = [vc \in Channels |-> <<>>]
  /\ packets = 0 /\ frames = 0 /\ losses = 0

-----------------------------------------------------------------------------
(* The plugin. *)

Octet(of, p, i) == [of |-> of, n |-> p, i |-> i]
Fill == Octet("fill", 0, 0)
Packet(p, len) == [i \in 1 .. len |-> [of |-> "packet", n |-> p, i |-> i, len |-> len]]

AllFill(octets) == \A i \in 1 .. Len(octets) : octets[i].of = "fill"

\* The length in the first octets.  A header cut short gives at least seven,
\* more than there are; one of fill octets, more than a zone holds.
get_packet_length_from_header(octets, garbage) ==
  CASE Len(octets) < HeaderLen \/ AllFill(SubSeq(octets, 1, HeaderLen)) -> Len(octets) + 1
    [] Len(octets) >= HeaderLen /\ octets[1].of = "packet" /\ octets[1].i = 1 -> octets[1].len
    [] OTHER -> garbage

\* The packets of the octets of a zone, and what is kept for the next frame.
Split(octets, garbage) ==
  LET from[i \in 1 .. Len(octets) + 1] ==
        LET left   == SubSeq(octets, i, Len(octets))
            length == get_packet_length_from_header(left, garbage)
        IN  IF AllFill(left) THEN [sent |-> <<>>, kept |-> <<>>]
            ELSE IF length > Len(left) THEN [sent |-> <<>>, kept |-> left]
            ELSE [sent |-> <<SubSeq(left, 1, length)>> \o from[i + length].sent,
                  kept |-> from[i + length].kept]
  IN  from[1]

\* As it would be if the octets joined were looked at again.
joinedAndKept(held, mpdu, garbage) ==
  LET split == Split(mpdu.zone, garbage)
  IN  [sent |-> (IF held = <<>> THEN <<>> ELSE <<held \o Slice(mpdu.zone, 0, mpdu.pointer)>>)
                  \o split.sent,
       kept |-> split.kept]

\* Octets held are joined with those before the pointer, whatever frame it is.
process_m_pdu_tuple(held, mpdu, garbage) ==
  LET start == IF held = <<>> THEN 0 ELSE mpdu.pointer
      split == Split(Slice(mpdu.zone, start, NoIndex), garbage)
  IN  [sent |-> (IF held = <<>> THEN <<>> ELSE <<held \o Slice(mpdu.zone, 0, mpdu.pointer)>>)
                  \o split.sent,
       kept |-> split.kept]

\* A frame that is idle or not an M_PDU is dropped.
process(data) ==
  LET frame == decode(config, data)
  IN  IF frame.is_idle \/ frame.type # "M_PDU"
      THEN UNCHANGED <<previous, sent>>
      ELSE \E garbage \in Garbage :
             LET done == process_m_pdu_tuple(previous, frame.mpdu, garbage)
             IN  previous' = done.kept /\ sent' = sent \o done.sent

-----------------------------------------------------------------------------
(* The spacecraft.  A zone holds what remains of a packet, then new packets,
   then fill; its last packet goes on in the next frame of the channel. *)

\* A zone of new packets of these lengths: the octets laid out.
LaidOut(vc, lengths) ==
  LET upTo[k \in 0 .. Len(lengths)] ==
        IF k = 0 THEN remains[vc]
        ELSE upTo[k - 1] \o Packet(packets + k, lengths[k])
  IN  upTo[Len(lengths)]

Fits(vc, lengths) ==
  \A k \in 1 .. Len(lengths) : Len(LaidOut(vc, SubSeq(lengths, 1, k - 1))) < ZoneLen

Filled(octets) ==
  [i \in 1 .. ZoneLen |-> IF i <= Len(octets) THEN octets[i] ELSE Fill]

Starts(zone) == {i \in 1 .. Len(zone) : zone[i].of = "packet" /\ zone[i].i = 1}

PointerOf(zone) ==
  IF AllFill(zone) THEN OnlyIdle
  ELSE IF Starts(zone) = {} THEN NoStart
  ELSE CHOOSE k \in 0 .. Len(zone) - 1 : k + 1 \in Starts(zone) /\ \A i \in Starts(zone) : k < i

Times(k, of) == [i \in 1 .. k |-> Octet(of, 0, i)]

\* The fields of a frame in the order of the standard.
FrameOf(vc, zone) ==
  <<Octet("header", 0, 1), Octet("header", vc, 2)>>
    \o Times(4 + frame_header_error_control_len(config), "header")
    \o Times(config.insert_zone, "insert")
    \o <<Octet("pointer", PointerOf(zone), 1), Octet("pointer", 0, 2)>>
    \o zone
    \o Times(operational_control_field_len(config), "operational")
    \o Times(frame_error_control_field_len(config), "control")

ZoneOf(vc, lengths) == Filled(LaidOut(vc, lengths))

\* The octets since the last start, unless fill or the packet's end follows.
OpenAfter(vc, lengths) ==
  LET octets == LaidOut(vc, lengths)
      before == open[vc] \o Slice(octets, 0, ZoneLen)
      starts == {i \in 1 .. Len(before) : before[i].i = 1}
  IN  IF Len(octets) <= ZoneLen THEN <<>>
      ELSE SubSeq(before, CHOOSE i \in starts : \A j \in starts : j <= i, Len(before))

\* A frame of a channel, that arrives or is lost.
Send(vc, lengths, arrives) ==
  /\ frames < MaxFrames /\ frames' = frames + 1
  /\ Fits(vc, lengths)
  /\ open' = [open EXCEPT ![vc] = OpenAfter(vc, lengths)]
  /\ remains' = [remains EXCEPT ![vc] =
                   SubSeq(LaidOut(vc, lengths), ZoneLen + 1, Len(LaidOut(vc, lengths)))]
  /\ packets' = packets + Len(lengths)
  /\ \/ /\ arrives
        /\ process(FrameOf(vc, ZoneOf(vc, lengths)))
        /\ UNCHANGED losses
     \/ /\ ~arrives
        /\ losses < MaxLosses /\ losses' = losses + 1
        /\ UNCHANGED <<previous, sent>>
  /\ UNCHANGED config

\* An idle frame.
SendIdle ==
  /\ frames < MaxFrames /\ frames' = frames + 1
  /\ process(FrameOf(IdleChannel, Filled(<<>>)))
  /\ UNCHANGED <<config, open, remains, packets, losses>>

NewPackets == {<<>>} \cup {<<k>> : k \in Lengths} \cup {<<k, l>> : k \in Lengths, l \in Lengths}

Next ==
  \/ \E vc \in Channels, lengths \in NewPackets, arrives \in BOOLEAN : Send(vc, lengths, arrives)
  \/ SendIdle

Spec == Init /\ [][Next]_vars

-----------------------------------------------------------------------------
(* Properties. *)

MpduChannels == {vc \in Channels : get_data_field_type(config, vc) = "M_PDU"}

\* The packets that a frame completes, from what was open and what it holds.
Completed(vc, lengths) ==
  LET octets == open[vc] \o Slice(LaidOut(vc, lengths), 0, ZoneLen)
      ended  == SelectSeq(octets, LAMBDA o : o.i = o.len)
  IN  [k \in 1 .. Len(ended) |-> SelectSeq(octets, LAMBDA o : o.n = ended[k].n)]

NewlySent == SubSeq(sent', Len(sent) + 1, Len(sent'))

\* While the plugin holds exactly what is open on the channel of the frame, it
\* publishes the packets that the frame completes, whole, in order and nothing else, and
\* holds what is then open: wherever the packets are cut, headers included,
\* and whatever the optional fields of the frame.  Excepted is a frame in which
\* no packet starts, while one is open: the plugin cannot join three frames.
StaysInSync ==
  [][\A vc \in MpduChannels, lengths \in NewPackets :
       /\ Send(vc, lengths, TRUE)
       /\ previous = open[vc]
       /\ PointerOf(ZoneOf(vc, lengths)) # NoStart
       => NewlySent = Completed(vc, lengths) /\ previous' = open'[vc]]_vars

\* Whatever was lost, and whichever channel came before, a frame in which a
\* packet starts brings the plugin into step again, unless the plugin holds
\* nothing and the frame starts with the end of a packet.
RegainsSync ==
  [][\A vc \in MpduChannels, lengths \in NewPackets :
       LET pointer == PointerOf(ZoneOf(vc, lengths))
       IN  /\ Send(vc, lengths, TRUE)
           /\ pointer < ZoneLen /\ (previous # <<>> \/ pointer = 0)
           => previous' = open'[vc]]_vars
=============================================================================
