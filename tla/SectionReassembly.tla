--------------------------- MODULE SectionReassembly ---------------------------
(***************************************************************************)
(* Per-PID PSI section reassembly of mpgatsc::thread_demux                 *)
(* (src/mpgatsc.cpp) for one PID, fed by a legal MPEG-2 packetiser.        *)
(*                                                                         *)
(* A byte of the stream is abstracted to the section it belongs to and its *)
(* offset in that section, or to a stuffing byte (0xff).  The section      *)
(* length the code reads from bytes 1..2 of its buffer is the section's    *)
(* length when those are that section's header bytes and, when they are   *)
(* not (a packet lost inside the first three bytes), any length the 12-bit *)
(* field can hold.  Sizes are scaled: a TS packet is PktSize bytes with    *)
(* the code's 4-byte header, section_length + 3 ranges over 3..MaxSlen     *)
(* (0xfff + 3 in the code) and max_pkt_len is MaxSlen + 1 (0x1003).        *)
(*                                                                         *)
(* parse_tbl is abstracted to its CRC check: a buffer that is exactly one  *)
(* sent section is delivered as that section, anything else as BAD.       *)
(* A packet whose sync byte is not 0x47 makes thread_demux return 1, and   *)
(* mpgts::thread_main returns on that (src/mpgts.cpp): nothing after it is *)
(* demultiplexed.                                                          *)
(***************************************************************************)
EXTENDS Naturals, Sequences, SequencesExt

CONSTANTS
  PktSize,    \* bytes per TS packet (188)
  MaxSlen,    \* largest section_length + 3 (0xfff + 3)
  SecLen,     \* SecLen[i]: section_length + 3 of the i-th section sent
  Pack,       \* the packetiser may start a section in the packet that ends the previous one
  AllowTei,   \* packets may arrive with transport_error_indicator set
  AllowBadSync, \* a packet may arrive with a sync byte other than 0x47
  STUFF,      \* model value: a stuffing byte 0xff
  BAD         \* model value: a buffer that fails parse_tbl's CRC check

Secs == 1..Len(SecLen)
TsHdrLen == 4
MaxPktLen == MaxSlen + 1        \* max_pkt_len
NoAdapt == -1                   \* adaptation_field_control without 0x20

ASSUME \A i \in Secs : SecLen[i] \in 3..MaxSlen
ASSUME PktSize > TsHdrLen + 2

Byte == [sec : Secs, off : 0..(MaxSlen - 1)] \cup {STUFF}

VARIABLES
  cur,      \* packetiser: section being sent (Len(SecLen) + 1 when all sent)
  off,      \* packetiser: bytes of section cur already sent
  hit,      \* sections with a byte in a packet that had a transport error
  buf,      \* pktlist[pid][0 .. pktlen[pid] - 1]; <<>> is pktlen[pid] == 0
  out,      \* sections parse_tbl was called with, in order
  lastEnd,  \* offset one past the last byte the last memcpy wrote
  receiving \* thread_main is still running

vars == <<cur, off, hit, buf, out, lastEnd, receiving>>

Bytes(s, from, n) == [i \in 1..n |-> [sec |-> s, off |-> from + i - 1]]
Stuffing(n) == [i \in 1..n |-> STUFF]
Min2(a, b) == IF a < b THEN a ELSE b

\* A TS packet of the PID: pusi is pkt[1] & 0x40, adapt the adaptation_field
\* length or NoAdapt, ptr the pointer_field and payload the bytes after it.
Packet == [sync : BOOLEAN, tei : BOOLEAN, pusi : BOOLEAN, adapt : {NoAdapt} \cup 0..PktSize,
           ptr : 0..PktSize, payload : Seq(Byte)]

TypeOK ==
  /\ cur \in 1..(Len(SecLen) + 1)
  /\ off \in 0..MaxSlen
  /\ hit \subseteq Secs
  /\ buf \in Seq(Byte) /\ Len(buf) <= MaxPktLen
  /\ out \in Seq(Secs \cup {BAD})
  /\ lastEnd \in 0..MaxPktLen      \* within malloc(max_pkt_len)
  /\ receiving \in BOOLEAN

Init ==
  /\ cur = 1
  /\ off = 0
  /\ hit = {}
  /\ buf = <<>>
  /\ out = <<>>
  /\ lastEnd = 0
  /\ receiving = TRUE

-----------------------------------------------------------------------------
(* The packetiser: the legal packets that can carry the stream next, with *)
(* the position they leave it at.  A packet whose payload ends a section   *)
(* either fills the rest with stuffing or, when Pack holds, starts the     *)
(* next section there with pointer_field pointing at it.                   *)

Room(a) == PktSize - TsHdrLen - (IF a = NoAdapt THEN 0 ELSE a + 1)

Pkt(pusi, a, ptr, payload) ==
  [sync |-> TRUE, tei |-> FALSE, pusi |-> pusi, adapt |-> a, ptr |-> ptr, payload |-> payload]

\* The section after s starts in a PUSI packet and gets k bytes of it.
Started(s, k) ==
  IF k = SecLen[s] THEN [cur |-> s + 1, off |-> 0] ELSE [cur |-> s, off |-> k]

NextPackets ==
  LET N == Len(SecLen)
      rem == SecLen[cur] - off
  IN UNION {
     LET R == Room(a) IN
       (IF R = 0 THEN {[pkt |-> Pkt(FALSE, a, 0, <<>>), cur |-> cur, off |-> off]}
        ELSE {})
       \cup
       (IF R > 0 /\ cur > N
          THEN {[pkt |-> Pkt(FALSE, a, 0, Stuffing(R)), cur |-> cur, off |-> off]}
          ELSE {})
       \cup
       (IF R > 0 /\ cur <= N /\ off > 0 /\ rem >= R
          THEN {[pkt |-> Pkt(FALSE, a, 0, Bytes(cur, off, R))]
                @@ Started(cur, off + R)}
          ELSE {})
       \cup
       (IF R > 0 /\ cur <= N /\ off > 0 /\ rem < R
          THEN {[pkt |-> Pkt(FALSE, a, 0, Bytes(cur, off, rem) \o Stuffing(R - rem)),
                 cur |-> cur + 1, off |-> 0]}
          ELSE {})
       \cup
       (IF Pack /\ cur < N /\ off > 0 /\ rem < R - 1
          THEN LET k == Min2(R - 1 - rem, SecLen[cur + 1]) IN
               {[pkt |-> Pkt(TRUE, a, rem, Bytes(cur, off, rem)
                                         \o Bytes(cur + 1, 0, k)
                                         \o Stuffing(R - 1 - rem - k))]
                @@ Started(cur + 1, k)}
          ELSE {})
       \cup
       (IF R > 1 /\ cur <= N /\ off = 0
          THEN LET k == Min2(R - 1, SecLen[cur]) IN
               {[pkt |-> Pkt(TRUE, a, 0, Bytes(cur, 0, k) \o Stuffing(R - 1 - k))]
                @@ Started(cur, k)}
          ELSE {})
     : a \in {NoAdapt} \cup 0..(PktSize - TsHdrLen - 1) }

-----------------------------------------------------------------------------
(* The demultiplexer: mpgatsc::thread_demux for this PID.                  *)

\* slen = ((pktlist[pid][1] << 8) + pktlist[pid][2]) & 0xfff) + 3.  Bytes
\* 1..2 are the header of the buffer's section when they are that
\* section's bytes 1 and 2; stuffing reads as 0xfff; otherwise (a lost
\* packet, or fewer than three bytes so far and stale bytes read) they can
\* be anything, which is at least 3.
SlenOf(b) ==
  IF Len(b) >= 3 /\ b[2] # STUFF /\ b[3] # STUFF
     /\ b[2].sec = b[3].sec /\ b[2].off = 1 /\ b[3].off = 2
    THEN {SecLen[b[2].sec]}
  ELSE IF Len(b) >= 3 /\ b[2] = STUFF /\ b[3] = STUFF
    THEN {MaxSlen}
  ELSE 3..MaxSlen

\* parse_tbl(pktlist[pid], slen, pid) as far as its CRC check tells: the
\* first slen bytes are exactly one sent section, or the check fails.
Parsed(b, slen) ==
  IF \E s \in Secs : SecLen[s] = slen /\ SubSeq(b, 1, slen) = Bytes(s, 0, slen)
    THEN CHOOSE s \in Secs : SecLen[s] = slen /\ SubSeq(b, 1, slen) = Bytes(s, 0, slen)
    ELSE BAD

\* Mutant of Collect: the copy is not cut at max_pkt_len.
CollectUncut(p) == p.payload

\* The bytes the payload adds to the buffer of a collecting PID, cut at
\* max_pkt_len.
Collect(p) ==
  SubSeq(p.payload, 1, Min2(Len(p.payload), MaxPktLen - Len(buf)))

\* Mutant of SectionComplete: parse only once more than slen bytes arrived.
SectionCompleteLate(b, slen) == Len(b) > slen

\* if (pktlen[pid] >= slen): the buffer holds the whole section.
SectionComplete(b, slen) == Len(b) >= slen

\* Mutant of ThreadDemux: pktlen[pid] is not reset after parse_tbl.
ThreadDemuxKeepsBuffer(p) ==
  LET pos == TsHdrLen + (IF p.adapt = NoAdapt THEN 0 ELSE p.adapt + 1)
      new == IF p.pusi THEN SubSeq(p.payload, p.ptr + 1, Len(p.payload))
             ELSE IF buf = <<>> THEN <<>>
             ELSE buf \o Collect(p)
      end == IF p.pusi THEN Len(new)
             ELSE IF buf = <<>> THEN lastEnd
             ELSE Len(buf) + Len(Collect(p))
  IN IF ~p.sync THEN receiving' = FALSE /\ UNCHANGED <<buf, out, lastEnd>>
     ELSE IF p.tei \/ pos = PktSize \/ new = <<>>
       THEN UNCHANGED <<buf, out, lastEnd, receiving>>
       ELSE /\ lastEnd' = end
            /\ UNCHANGED receiving
            /\ \E slen \in SlenOf(new) :
                 IF SectionComplete(new, slen)
                   THEN /\ out' = Append(out, Parsed(new, slen))
                        /\ buf' = new
                   ELSE /\ buf' = new
                        /\ UNCHANGED out

\* One TS packet of the PID: end the receiver on a bad sync byte; drop it
\* on a transport error or when it is
\* pure adaptation; on payload_unit_start throw the partial section away
\* and start a new one after pointer_field; otherwise append to a
\* collecting PID; then parse the buffer once it holds slen bytes and
\* stop collecting until the next payload_unit_start.
ThreadDemux(p) ==
  LET pos == TsHdrLen + (IF p.adapt = NoAdapt THEN 0 ELSE p.adapt + 1)
      new == IF p.pusi THEN SubSeq(p.payload, p.ptr + 1, Len(p.payload))
             ELSE IF buf = <<>> THEN <<>>
             ELSE buf \o Collect(p)
      end == IF p.pusi THEN Len(new)
             ELSE IF buf = <<>> THEN lastEnd
             ELSE Len(buf) + Len(Collect(p))
  IN IF ~p.sync THEN receiving' = FALSE /\ UNCHANGED <<buf, out, lastEnd>>
     ELSE IF p.tei \/ pos = PktSize \/ new = <<>>
       THEN UNCHANGED <<buf, out, lastEnd, receiving>>
       ELSE /\ lastEnd' = end
            /\ UNCHANGED receiving
            /\ \E slen \in SlenOf(new) :
                 IF SectionComplete(new, slen)
                   THEN /\ out' = Append(out, Parsed(new, slen))
                        /\ buf' = <<>>
                   ELSE /\ buf' = new
                        /\ UNCHANGED out

\* The appliance forwards the next packet of the PID, possibly with a
\* transport error or a corrupted sync byte, and the receiver, while it
\* runs, demultiplexes it.
Send ==
  \E n \in NextPackets, tei \in (IF AllowTei THEN BOOLEAN ELSE {FALSE}),
    sync \in (IF AllowBadSync THEN BOOLEAN ELSE {TRUE}) :
    LET p == [n.pkt EXCEPT !.tei = tei, !.sync = sync] IN
    /\ cur' = n.cur
    /\ off' = n.off
    /\ hit' = IF tei \/ ~sync
                 THEN hit \cup {b.sec : b \in ToSet(p.payload) \ {STUFF}}
                 ELSE hit
    /\ IF receiving THEN ThreadDemux(p)
                     ELSE UNCHANGED <<buf, out, lastEnd, receiving>>

Next == Send

Spec == Init /\ [][Next]_vars

-----------------------------------------------------------------------------
(* Properties                                                              *)

\* parse_tbl never sees a section twice or out of stream order: after a
\* section is parsed, thread_demux discards the bytes that follow it until
\* the next payload_unit_start.
DeliveredInOrder ==
  \A i, j \in 1..Len(out) :
    i < j /\ out[i] # BAD /\ out[j] # BAD => out[i] < out[j]

\* Every section all of whose packets arrived intact is parsed once its
\* last byte has arrived (spec 8.3: "the parser emits exactly one
\* completed section with the correct bytes", and transport-error and
\* wrong-sync packets "do not contribute"), whatever other packets of the
\* PID were lost or corrupted and however sections share packets.
IntactSectionsDelivered ==
  \A s \in 1..(cur - 1) : s \notin hit => \E i \in 1..Len(out) : out[i] = s

==============================================================================
