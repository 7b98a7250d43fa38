------------------------------ MODULE AosFrame ------------------------------
(* The AOS transfer frame and its configuration (sle/frames.py): where the
   fields of a frame are, of which type the data field of a virtual channel
   is, and what decoding a frame yields.

   An octet is a record of what it belongs to; the octet of the primary
   header with the virtual channel, and the first one of an M_PDU header,
   hold their number.  The primary header's other fields are left out. *)
EXTENDS Integers, Sequences

IdleChannel == 63

\* Python's slice of a sequence: to the end without an end, from the end when
\* negative, never beyond.
NoIndex == 1000
Slice(s, begin, end) ==
  LET At(k) == IF k > Len(s) THEN Len(s) ELSE IF k < 0 THEN Len(s) + k ELSE k
  IN  SubSeq(s, At(begin) + 1, At(end))

\* A configuration: the optional fields (the insert zone by its length), and
\* the types of the virtual channels declared.
primary_header_min_len == 6
frame_header_error_control_len(c) == IF c.header_control THEN 2 ELSE 0
operational_control_field_len(c) == IF c.operational THEN 4 ELSE 0
frame_error_control_field_len(c) == IF c.error_control THEN 2 ELSE 0

data_field_startIndex(c) ==
  primary_header_min_len + frame_header_error_control_len(c) + c.insert_zone

\* As it would be if it forgot the frame error control field.
endBeforeOperational(c) ==
  IF operational_control_field_len(c) = 0 THEN NoIndex ELSE -operational_control_field_len(c)

\* With no trailer the end is None.
data_field_endIndex(c) ==
  LET trailer == operational_control_field_len(c) + frame_error_control_field_len(c)
  IN  IF trailer = 0 THEN NoIndex ELSE -trailer

get_data_field_type(c, vc) == IF vc \in DOMAIN c.channels THEN c.channels[vc] ELSE "None"

\* The first header pointer of a zone in which no packet starts, and of one
\* that holds idle data only.
NoStart == 2047
OnlyIdle == 2046

decode_dataField_MPDU(field) == [pointer |-> field[1].n, zone |-> Slice(field, 2, NoIndex)]

\* Of the data field only an M_PDU is looked into here.
decode_data_field(type, field) ==
  IF type = "M_PDU" THEN decode_dataField_MPDU(field) ELSE [pointer |-> 0, zone |-> <<>>]

\* What AOSTransFrame.decode finds: a frame of the idle channel is not looked
\* into, and only an M_PDU has a pointer and a packet zone.
decode(c, data) ==
  LET vc    == data[2].n
      idle  == vc = IdleChannel
      type  == IF idle THEN "None" ELSE get_data_field_type(c, vc)
      field == Slice(data, data_field_startIndex(c), data_field_endIndex(c))
  IN  [is_idle |-> idle, type |-> type,
       mpdu |-> decode_data_field(type, field)]
=============================================================================
