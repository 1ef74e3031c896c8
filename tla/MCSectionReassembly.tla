------------------------- MODULE MCSectionReassembly -------------------------
(* Model-checking instance of SectionReassembly: a 9-byte TS packet (up to *)
(* 5 payload bytes), so a section spans one to three packets; section      *)
(* lengths 3, 5 and 4 give a section ending exactly at a packet end, one   *)
(* ending mid-packet and one whose first packet carries fewer than three   *)
(* of its bytes.                                                           *)
EXTENDS SectionReassembly

MCSecLen == <<3, 5, 4>>
=============================================================================
