---------------------------- MODULE MCAosPackets ----------------------------
(* AosPackets on small instances: two packet channels, or one beside a
   bitstream channel. *)
EXTENDS AosPackets

Fields(header, insert, ocf, control, types) ==
  [header_control |-> header, insert_zone |-> insert, operational |-> ocf,
   error_control |-> control, channels |-> types]

TwoPacketChannels == <<"M_PDU", "M_PDU">>
OnePacketChannel == <<"M_PDU", "B_PDU">>

MCConfigs ==
  {Fields(FALSE, 0, FALSE, FALSE, TwoPacketChannels),
   Fields(TRUE, 3, TRUE, TRUE, TwoPacketChannels),
   Fields(TRUE, 0, FALSE, TRUE, OnePacketChannel),
   Fields(FALSE, 1, TRUE, FALSE, OnePacketChannel)}
=============================================================================
