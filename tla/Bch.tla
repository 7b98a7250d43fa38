-------------------------------- MODULE Bch ---------------------------------
(* The BCH code blocks of telecommands (bch/bch.py): seven octets, seven
   parity bits from a shift register, complemented, and a filler bit; and what
   a code block is by the polynomial alone. *)
EXTENDS Tctf

BlockOctets == 7

\* The register after a bit: bch_parity_bits_current, index 0 first.
shift(past, bit) ==
  LET feedback == (past[7] + bit) % 2
  IN  <<feedback, past[1], (past[2] + feedback) % 2, past[3], past[4], past[5],
        (past[6] + feedback) % 2>>

Parity(bits) == FoldLeft(shift, <<0, 0, 0, 0, 0, 0, 0>>, bits)

\* As it would be if the register were taken from its other end.
parityReversed(octets) ==
  LET bits   == OctetsToBits(octets)
      parity == Parity(bits)
  IN  BitsToOctets(bits \o [i \in 1 .. 7 |-> 1 - parity[i]] \o <<0>>)

generateBCH(octets) ==
  LET bits   == OctetsToBits(octets)
      parity == Parity(bits)
  IN  BitsToOctets(bits \o [i \in 1 .. 7 |-> 1 - parity[8 - i]] \o <<0>>)

\* The generator polynomial, highest power first, and long division by it.
Generator == <<1, 1, 0, 0, 0, 1, 0, 1>>

Subtracted(bits, k) ==
  IF bits[k] = 0 THEN bits
  ELSE SubSeq(bits, 1, k - 1) \o [i \in 1 .. 8 |-> (bits[k + i - 1] + Generator[i]) % 2]
         \o SubSeq(bits, k + 8, Len(bits))

Divided(bits) ==
  FoldLeft(Subtracted, bits, [k \in 1 .. Len(bits) - 7 |-> k])

\* A block is a codeword when its 63 bits, the parity complemented back, are a
\* multiple of the generator, and the filler is 0.
IsCodeword(block) ==
  LET bits == OctetsToBits(block)
  IN  /\ Len(block) = BlockOctets + 1
      /\ Divided([i \in 1 .. 63 |-> IF i > 56 THEN 1 - bits[i] ELSE bits[i]])
           = [i \in 1 .. 63 |-> 0]
      /\ bits[64] = 0
=============================================================================
