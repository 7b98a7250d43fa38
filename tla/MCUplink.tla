------------------------------ MODULE MCUplink ------------------------------
(* Uplink on small instances: short commands around the length of a code
   block, and those around the longest that fits with each option. *)
EXTENDS Uplink

Octets(len, seed) == [i \in 1 .. len |-> (37 * i + seed) % 256]

MCCommands == {Octets(len, len) : len \in {1, 2, 9, 24, 25, 27, 28}}

Fields(seq, ecf, segmented) ==
  [version |-> 0, bypass |-> 1, cc |-> 0, rsvd |-> 0, scID |-> 622, vcID |-> 5,
   seq |-> seq, apply_ecf |-> ecf, add_segmentation_byte |-> segmented]

MCParams ==
  {Fields(0, FALSE, FALSE), Fields(254, TRUE, TRUE), Fields(255, TRUE, FALSE)}
=============================================================================
