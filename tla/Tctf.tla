-------------------------------- MODULE Tctf --------------------------------
(* The telecommand transfer frame (sle/tctf.py): its primary header, encoded
   field by field in bits, its data field and its error control field.
   Octets are numbers, bits are 0 and 1.  The length field is scaled down, so
   that its limit is met; the bits it lacks go to the spacecraft's field, and
   the header keeps its five octets. *)
EXTENDS Integers, Sequences, SequencesExt, FiniteSetsExt, Bitwise

CONSTANT LengthBits \* bits of the frame length (10)
ASSUME LengthAssumption == LengthBits \in 1 .. 10

BitsOf(n, width) == [i \in 1 .. width |-> (n \div 2 ^ (width - i)) % 2]
Value(bits) == MapThenSumSet(LAMBDA i : bits[i] * 2 ^ (Len(bits) - i), DOMAIN bits)

\* format(n, '0{width}b'): padded to the width, never cut to it.
Format(n, width) ==
  LET fits == {w \in width .. 30 : n < 2 ^ w}
  IN  BitsOf(n, Min(fits))

OctetsToBits(octets) ==
  [i \in 1 .. 8 * Len(octets) |-> (octets[(i + 7) \div 8] \div 2 ^ ((8 - i) % 8)) % 2]
BitsToOctets(bits) ==
  [k \in 1 .. Len(bits) \div 8 |-> Value([i \in 1 .. 8 |-> bits[8 * (k - 1) + i]])]

-----------------------------------------------------------------------------
\* The fields of the header in their order, with ICD.Header.INFO's sizes.
HeaderKeys == <<"version", "bypass", "cc", "rsvd", "scID", "vcID", "length", "seq">>
INFO == <<2, 1, 1, 2, 20 - LengthBits, 6, LengthBits, 8>>

\* HeaderSlices.SLICES, each from its first bit to before its second number;
\* the last one reaches a bit beyond the header.
SLICES ==
  LET id == 26 - LengthBits
  IN  <<<<0, 2>>, <<2, 3>>, <<3, 4>>, <<4, 6>>, <<6, id>>, <<id, id + 6>>, <<id + 6, 32>>,
        <<32, 41>>>>

PrimaryHeaderOctets == 5
EcfOctets(apply_ecf) == IF apply_ecf THEN 2 ELSE 0

\* crc_hqx with the initial value 0xFFFF, octet by octet; CrcTable holds what
\* eight shifts with the polynomial 0x1021 make of the high octet.
CrcShift(crc) == IF crc < 32768 THEN 2 * crc ELSE ((2 * crc) % 65536) ^^ 4129

CrcTable ==
  [octet \in 0 .. 255 |-> FoldLeft(LAMBDA crc, k : CrcShift(crc), 256 * octet, [k \in 1 .. 8 |-> k])]

CrcOctet(crc, octet) == (256 * (crc % 256)) ^^ CrcTable[(crc \div 256) ^^ octet]

crc_func(octets) ==
  LET crc == FoldLeft(CrcOctet, 65535, octets) IN <<crc \div 256, crc % 256>>

encode_ecf(octets, apply_ecf) == IF apply_ecf THEN crc_func(octets) ELSE <<>>

\* The length field is the size of the whole frame less one.
set_primary_header(params, size) ==
  [key \in {HeaderKeys[k] : k \in 1 .. 8} |-> IF key = "length" THEN size - 1 ELSE params[key]]

encode_primary_header(header) ==
  FlattenSeq([k \in 1 .. 8 |-> Format(header[HeaderKeys[k]], INFO[k])])

\* A header that is not whole octets has no bytes: encode raises.
Encodes(params, data) ==
  LET size == PrimaryHeaderOctets + Len(data) + EcfOctets(params.apply_ecf)
  IN  Len(encode_primary_header(set_primary_header(params, size))) % 8 = 0

encode(params, data) ==
  LET size   == PrimaryHeaderOctets + Len(data) + EcfOctets(params.apply_ecf)
      header == BitsToOctets(encode_primary_header(set_primary_header(params, size)))
  IN  header \o data \o encode_ecf(header \o data, params.apply_ecf)

decode(octets, has_ecf) ==
  LET bits == OctetsToBits(SubSeq(octets, 1, PrimaryHeaderOctets))
      At(slice) == SubSeq(bits, slice[1] + 1, IF slice[2] > Len(bits) THEN Len(bits) ELSE slice[2])
      end  == Len(octets) - EcfOctets(has_ecf)
  IN  [header_map |-> [key \in {HeaderKeys[k] : k \in 1 .. 8} |->
                         Value(At(SLICES[CHOOSE k \in 1 .. 8 : HeaderKeys[k] = key]))],
       payload |-> SubSeq(octets, PrimaryHeaderOctets + 1, end),
       ecf |-> SubSeq(octets, end + 1, Len(octets))]
=============================================================================
