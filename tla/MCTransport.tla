------------------------------ MODULE MCTransport ------------------------------
(***************************************************************************)
(* Model-checking instance of the control transport with its framing: the  *)
(* calls of MCControlChannel, and the CRC inputs of Crc as a variable      *)
(* that is chosen at the start and never changes.                          *)
(***************************************************************************)
EXTENDS MCControlChannel, Crc

\* The discover request body tunerfind2 broadcasts: the device ID tag with
\* 0xffffffff and the device type tag with 2.
DiscoverBody ==
  << Byte(2), Byte(4), Byte(\hff), Byte(\hff), Byte(\hff), Byte(\hff),
     Byte(1), Byte(4), Byte(0), Byte(0), Byte(0), Byte(2) >>

\* Frames: an empty body (a reply to a write), one byte, the discover
\* request; as a tuner request (0x0c) and a discover request (2); no bit
\* flipped, or one in each byte of the CRC.
MCFrames == FrameInputs({<<>>, <<Byte(\h2a)>>, DiscoverBody}, {2, \h0c}, {0, 9, 20, 31, 32})

\* Sections: the CRC field alone, a TVCT table_id, the start of a TVCT
\* header; the field correct, or with one or two bits corrupted.
MCSections ==
  SectionInputs({<<>>, <<Byte(\hc8)>>, <<Byte(\hc8), Byte(\hf0), Byte(\h2a)>>},
                {{}, {0}, {31}, {5, 17}})

\* Three calls: a failed call, a register write after it, and the late
\* reply to the first still in the stream for the second to take.
MCTransportMaxReq == 3

MCCrcInputs == StepInputs \cup MCFrames \cup MCSections

MCSpec ==
  /\ crcIn \in MCCrcInputs /\ Init
  /\ [][Next /\ UNCHANGED crcIn]_<<vars, crcIn>>
  /\ Fairness
==============================================================================
