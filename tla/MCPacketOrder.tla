---------------------------- MODULE MCPacketOrder ----------------------------
(* PacketOrder with small counts. *)
EXTENDS PacketOrder
============================================================================
