--------------------------------- MODULE Crc ---------------------------------
(***************************************************************************)
(* The two CRC-32 routines of the program and the checks built on them.    *)
(*                                                                         *)
(*  - tuner_calc_crc (src/socket.cpp): the reflected CRC-32 of the         *)
(*    appliance's frames, filled in by pkt_add_crc and checked by          *)
(*    socket::read (control replies) and udp_pkt_recv (discovery replies).  *)
(*  - mpeg2_crc (src/mpgatsc.cpp): the CRC-32 of MPEG-2 sections, checked  *)
(*    by mpg_parse_hdr.                                                    *)
(*                                                                         *)
(* Both take a byte at a time and XOR in one constant per set bit of the   *)
(* byte combined with the register.  Each is checked against the bit-at-  *)
(* a-time shift register that defines the CRC.  A 32-bit word is the set   *)
(* of its 1 bits (bit 0 the least significant): XOR is the symmetric       *)
(* difference and a shift moves every bit, so u32 arithmetic is kept       *)
(* exactly without TLC's 31-bit integers.  A byte is a set of bits of 0..7. *)
(*                                                                         *)
(* The inputs are the state variable crcIn, which no step changes, so that *)
(* TLC checks the properties on every input it may take.                   *)
(***************************************************************************)
EXTENDS Integers, Sequences, FiniteSets

LOCAL BitsOf(n, w) == {i \in 0..(w - 1) : (n \div 2^i) % 2 = 1}

\* A byte value, and a u32 written as its two 16-bit halves.
Byte(n) == BitsOf(n, 8)
Word(hi, lo) == BitsOf(lo, 16) \cup {i + 16 : i \in BitsOf(hi, 16)}

\* The value of a byte, for the length fields.
ByteVal(b) == LET p[i \in 0..8] == IF i = 0 THEN 0
                                    ELSE p[i - 1] + (IF i - 1 \in b THEN 2^(i - 1) ELSE 0)
              IN p[8]

Xor(a, b) == (a \ b) \cup (b \ a)
ShiftRight(a, n) == {i - n : i \in {j \in a : j >= n}}
ShiftLeft(a, n) == {i + n : i \in {j \in a : j + n <= 31}}
AllOnes == 0..31

\* (u8) (w >> 8 * k)
ByteOf(w, k) == {i - 8 * k : i \in w \cap (8 * k)..(8 * k + 7)}

\* The XOR of T[b + 1] over the set bits b of x, the if (x & ...) crc ^= ...
\* lines: the positions set in an odd number of them.
XorTable(T, x) == {i \in 0..31 : Cardinality({b \in x : i \in T[b + 1]}) % 2 = 1}

-----------------------------------------------------------------------------
(* tuner_calc_crc and the appliance's frames                               *)

\* Mutant of TunerTable: the constants of bits 6 and 7 in each other's place.
TunerTableSwapped ==
  << Word(\h7707, \h3096), Word(\hee0e, \h612c), Word(\h076d, \hc419), Word(\h0edb, \h8832),
     Word(\h1db7, \h1064), Word(\h3b6e, \h20c8), Word(\hedb8, \h8320), Word(\h76dc, \h4190) >>

\* The constant XORed in for bits 0 .. 7 of x.
TunerTable ==
  << Word(\h7707, \h3096), Word(\hee0e, \h612c), Word(\h076d, \hc419), Word(\h0edb, \h8832),
     Word(\h1db7, \h1064), Word(\h3b6e, \h20c8), Word(\h76dc, \h4190), Word(\hedb8, \h8320) >>

\* One byte: x = (u8) crc ^ *pkt; crc >>= 8; the table XORs.
TunerStep(crc, byte) ==
  Xor(ShiftRight(crc, 8), XorTable(TunerTable, Xor(crc \cap 0..7, byte)))

\* crc = -1, a step per byte (tcrc[n]: after pkt[1 .. n]), return ~crc.
TunerCalcCrc(pkt) ==
  LET tcrc[n \in 0..Len(pkt)] == IF n = 0 THEN AllOnes ELSE TunerStep(tcrc[n - 1], pkt[n])
  IN AllOnes \ tcrc[Len(pkt)]

\* (u8) (crc >> 0) .. (u8) (crc >> 24): the CRC little endian.
LittleEndian(w) == [k \in 1..4 |-> ByteOf(w, k - 1)]

\* Mutant of PktAddCrc: the CRC taken over the body alone, without the
\* header.
PktAddCrcNoHeader(body, type) ==
  LET len == Len(body)
      hdr == << {}, Byte(type), Byte(len \div 256), Byte(len % 256) >>
  IN hdr \o body \o LittleEndian(TunerCalcCrc(body))

\* pkt_add_crc on a buffer of the body's length + 8: header 0, pkt_type,
\* the body length big endian; the CRC of header and body little endian.
PktAddCrc(body, type) ==
  LET len == Len(body)
      hdr == << {}, Byte(type), Byte(len \div 256), Byte(len % 256) >>
  IN hdr \o body \o LittleEndian(TunerCalcCrc(hdr \o body))

\* socket::read on a stream holding the frame f: n = the length field + 4,
\* read n + 4 bytes, and compare pkt[n .. n + 3] with tuner_calc_crc(pkt, n).
ReadAccepts(f) ==
  LET n == ByteVal(f[3]) * 256 + ByteVal(f[4]) + 4
  IN /\ n + 4 <= Len(f)
     /\ SubSeq(f, n + 1, n + 4) = LittleEndian(TunerCalcCrc(SubSeq(f, 1, n)))

\* udp_pkt_recv on a datagram f of r >= 4 bytes: the CRC of the first
\* r - 4 bytes against the last 4, then the length field + 8 against r.
UdpRecvAccepts(f) ==
  LET r == Len(f) IN
  /\ SubSeq(f, r - 3, r) = LittleEndian(TunerCalcCrc(SubSeq(f, 1, r - 4)))
  /\ ByteVal(f[3]) * 256 + ByteVal(f[4]) + 8 = r

-----------------------------------------------------------------------------
(* mpeg2_crc and the section check                                         *)

\* Mutant of MpegTable: poly << 6 without the reduction by poly.
MpegTableUnreduced ==
  << Word(\h04c1, \h1db7), Word(\h0982, \h3b6e), Word(\h1304, \h76dc), Word(\h2608, \hedb8),
     Word(\h4c11, \hdb70), Word(\h9823, \hb6e0), Word(\h3047, \h6dc0), Word(\h690c, \he0ee) >>

\* The constant XORed in for bits 0 .. 7 of x: poly << b, reduced by poly
\* for the bits shifted past bit 31.
MpegTable ==
  << Word(\h04c1, \h1db7), Word(\h0982, \h3b6e), Word(\h1304, \h76dc), Word(\h2608, \hedb8),
     Word(\h4c11, \hdb70), Word(\h9823, \hb6e0), Word(\h3486, \h7077), Word(\h690c, \he0ee) >>

\* One byte: x = (u8) (crc >> 24) ^ *pkt; crc <<= 8; the table XORs.
Mpeg2Step(crc, byte) ==
  Xor(ShiftLeft(crc, 8), XorTable(MpegTable, Xor(ByteOf(crc, 3), byte)))

\* crc = -1, a step per byte (mcrc[n]: after pkt[1 .. n]); no final
\* complement.
Mpeg2Crc(pkt) ==
  LET mcrc[n \in 0..Len(pkt)] == IF n = 0 THEN AllOnes ELSE Mpeg2Step(mcrc[n - 1], pkt[n])
  IN mcrc[Len(pkt)]

\* The CRC_32 field read big endian: pkt[pos + len - 4] << 24 ...
BigEndian(w) == [k \in 1..4 |-> ByteOf(w, 4 - k)]

\* Mutant of MpgCrcAccepts: the CRC computed over all len bytes, field
\* included, as the error message of the check prints it.
MpgCrcAcceptsWholeLen(s) ==
  LET len == Len(s) IN
  /\ len >= 4
  /\ SubSeq(s, len - 3, len) = BigEndian(Mpeg2Crc(s))

\* mpg_parse_hdr on a section of len bytes: len < 4 is rejected, else the
\* last four bytes, big endian, must equal mpeg2_crc of the len - 4 before.
MpgCrcAccepts(s) ==
  LET len == Len(s) IN
  /\ len >= 4
  /\ SubSeq(s, len - 3, len) = BigEndian(Mpeg2Crc(SubSeq(s, 1, len - 4)))

-----------------------------------------------------------------------------
(* The reference definitions: the CRCs as shift registers, a bit at a time *)

\* One bit into the CRC-32 register as IEEE 802.3 defines it, least
\* significant bit first, with the polynomial reflected (0xedb88320).
LsbFirst(c, bit) ==
  IF (0 \in c) # bit THEN Xor(ShiftRight(c, 1), Word(\hedb8, \h8320)) ELSE ShiftRight(c, 1)

\* One bit into the CRC-32/MPEG-2 register as ISO/IEC 13818-1 Annex A
\* defines it, most significant bit first (polynomial 0x04c11db7).
MsbFirst(c, bit) ==
  IF (31 \in c) # bit THEN Xor(ShiftLeft(c, 1), Word(\h04c1, \h1db7)) ELSE ShiftLeft(c, 1)

\* A byte into the reflected register, bit 0 first: lsb[i] is the
\* register after bits 0 .. i - 1.
ReflectedByte(crc, byte) ==
  LET lsb[i \in 0..8] == IF i = 0 THEN crc ELSE LsbFirst(lsb[i - 1], i - 1 \in byte)
  IN lsb[8]

\* A byte into the MPEG-2 register, bit 7 first: msb[i] is the register
\* after bits 7 .. 8 - i.
DirectByte(crc, byte) ==
  LET msb[i \in 0..8] == IF i = 0 THEN crc ELSE MsbFirst(msb[i - 1], 8 - i \in byte)
  IN msb[8]

\* The MPEG-2 register after shifting in bits i .. Len(b) of the bit string
\* b, from c.
RECURSIVE DirectBits(_, _, _)
DirectBits(c, b, i) ==
  IF i > Len(b) THEN c
  ELSE IF (31 \in c) # b[i] THEN DirectBits(Xor(ShiftLeft(c, 1), Word(\h04c1, \h1db7)), b, i + 1)
  ELSE DirectBits(ShiftLeft(c, 1), b, i + 1)

\* 13818-1 defines the CRC_32 field as the value that leaves the decoder's
\* register, started at all ones, at zero after the whole section, each
\* byte taken from bit 7.
SectionValid(s) ==
  /\ Len(s) >= 4
  /\ DirectBits(AllOnes, [i \in 1..8 * Len(s) |-> 7 - ((i - 1) % 8) \in s[(i - 1) \div 8 + 1]], 1) = {}

-----------------------------------------------------------------------------
(* The inputs                                                              *)

\* A byte step on every unit vector of (crc, byte): both steps are linear
\* over GF(2) in (crc, byte), so agreement on these 40 decides agreement on
\* all 2^40 inputs.
StepInputs ==
  {[k |-> "step", crc |-> {i}, byte |-> {}] : i \in 0..31}
    \cup {[k |-> "step", crc |-> {}, byte |-> {j}] : j \in 0..7}

\* A frame: a body, a pkt_type, and a CRC bit flipped on the way (32 for
\* none).
FrameInputs(Bodies, Types, Flips) ==
  {[k |-> "frame", body |-> b, type |-> t, flip |-> f] : b \in Bodies, t \in Types, f \in Flips}

\* A section: its bytes before the CRC_32 field, and the bits of the field
\* a broadcaster or the link corrupted.
SectionInputs(Payloads, Flips) ==
  {[k |-> "section", payload |-> p, flip |-> f] : p \in Payloads, f \in Flips}

VARIABLE crcIn

\* The bytes the frame input puts on the wire.
FrameOf(in) ==
  LET f == PktAddCrc(in.body, in.type)
      at == Len(f) - 3 + in.flip \div 8
  IN IF in.flip = 32 THEN f
     ELSE [f EXCEPT ![at] = Xor(@, {in.flip % 8})]

\* The section input as received: payload, then the correct field with
\* the flipped bits.
SectionOf(in) ==
  in.payload \o BigEndian(Xor(Mpeg2Crc(in.payload), in.flip))

-----------------------------------------------------------------------------
(* Properties                                                              *)

\* tuner_calc_crc's table step is the reflected CRC-32 shift register run
\* over the byte: a wrong table constant or shift would make the host
\* reject every good frame of the appliance, or accept corrupted ones.
TunerCrcIsCrc32 ==
  crcIn.k = "step" => TunerStep(crcIn.crc, crcIn.byte) = ReflectedByte(crcIn.crc, crcIn.byte)

\* mpeg2_crc's table step is the MPEG-2 shift register run over the byte
\* (the comments "poly << 6 ^ poly" are the reduction the constants need).
Mpeg2CrcIsShiftRegister ==
  crcIn.k = "step" => Mpeg2Step(crcIn.crc, crcIn.byte) = DirectByte(crcIn.crc, crcIn.byte)

\* A frame pkt_add_crc builds passes both receive checks (socket::read's
\* and udp_pkt_recv's, with their own length arithmetic and byte order),
\* and with any one CRC bit flipped it passes neither.
FramesCheckOut ==
  crcIn.k = "frame" =>
    LET f == FrameOf(crcIn) IN
    /\ ReadAccepts(f) <=> crcIn.flip = 32
    /\ UdpRecvAccepts(f) <=> crcIn.flip = 32

\* mpg_parse_hdr accepts a section exactly when 13818-1 calls it valid:
\* the field is compared in the right byte order over the right bytes.
SectionCheckIsStandard ==
  crcIn.k = "section" => (MpgCrcAccepts(SectionOf(crcIn)) <=> SectionValid(SectionOf(crcIn)))

==============================================================================
