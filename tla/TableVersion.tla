---------------------------- MODULE TableVersion ----------------------------
(***************************************************************************)
(* Version gating of PSI/PSIP tables: mpg_parse_hdr (src/mpgatsc.cpp) as   *)
(* parse_tbl applies it to the terrestrial VCT (table 0xc8 on PID 0x1ffb), *)
(* fed by a broadcaster that repeats its current single-section table and  *)
(* now and then announces and switches to the next version.               *)
(*                                                                         *)
(* A section is abstracted to the byte that carries its version: the two   *)
(* reserved bits, version_number (5 bits) and current_next_indicator.      *)
(* The table content is abstracted to its generation: the number of       *)
(* version changes the broadcaster has made.  Sections lost on the way    *)
(* (transport errors, CRC failures, the packing loss SectionReassembly     *)
(* shows) never reach mpg_parse_hdr.                                       *)
(***************************************************************************)
EXTENDS Naturals, Sequences, Bitwise

CONSTANTS
  StartVersions,  \* versions the broadcaster's table may have when the receiver starts
  MaxBumps,       \* bound: version changes of the broadcaster
  AllowLoss,      \* sections may be lost before they reach parse_tbl
  NONE            \* model value: vctstr == 0

ASSUME StartVersions \subseteq 0..31 /\ MaxBumps \in Nat

NoVersion == 32   \* "32 indicates no mgt found yet"

VARIABLES
  bver,     \* version_number of the broadcaster's current table
  gen,      \* generation of the broadcaster's current table
  curver,   \* vct_curver
  shown,    \* generation of the table vctstr was built from, or NONE
  parsed,   \* generations parse_vct was called with, in order
  sent      \* the current version has been transmitted at least once

vars == <<bver, gen, curver, shown, parsed, sent>>

\* The byte at pos + 2 of a long header: '11' reserved, version_number,
\* current_next_indicator.
VersionByte(v, cni) == 192 + 2 * v + cni

\* Mutant of RxVersion: the shift is left out.
RxVersionUnshifted(b) == b & 47

\* (pkt[pos + 2] & 0x2f) >> 1
RxVersion(b) == (b & 47) \div 2

TypeOK ==
  /\ bver \in 0..31
  /\ gen \in 0..MaxBumps
  /\ curver \in 0..NoVersion
  /\ shown \in 0..MaxBumps \cup {NONE}
  /\ parsed \in Seq(0..MaxBumps)
  /\ sent \in BOOLEAN

\* Mutant of Init: init() leaves vct_curver at 0 instead of 32.
InitVersionZero ==
  /\ bver \in StartVersions
  /\ gen = 0
  /\ curver = 0
  /\ shown = NONE
  /\ parsed = <<>>
  /\ sent = FALSE

\* mpgatsc::init (run by start_ts) with the broadcaster at any version.
Init ==
  /\ bver \in StartVersions
  /\ gen = 0
  /\ curver = NoVersion
  /\ shown = NONE
  /\ parsed = <<>>
  /\ sent = FALSE

-----------------------------------------------------------------------------
(* The receiver: parse_tbl on a complete, CRC-valid TVCT section.          *)

\* Mutant of Receive: a new version is parsed but not stored in *ver.
ReceiveNoCommit(b) ==
  LET rx == RxVersion(b) IN
  /\ b % 2 = 1
  /\ curver = NoVersion \/ rx = (curver + 1) % 32
  /\ shown' = gen
  /\ parsed' = Append(parsed, gen)
  /\ UNCHANGED <<bver, gen, curver>>

\* mpg_parse_hdr's long-header branch, then parse_vct on acceptance:
\* a "next" table (current_next_indicator 0) is ignored; the first table
\* after init is taken at whatever version it has; afterwards the same
\* version is dropped silently, version + 1 (mod 32) is taken and any other
\* is thrown away.  The version is stored before parse_vct runs.
Receive(b) ==
  LET rx == RxVersion(b) IN
  /\ b % 2 = 1
  /\ curver = NoVersion \/ rx = (curver + 1) % 32
  /\ curver' = rx
  /\ shown' = gen
  /\ parsed' = Append(parsed, gen)
  /\ UNCHANGED <<bver, gen>>

\* The sections mpg_parse_hdr returns 1 for without touching *ver.
Ignore(b) ==
  LET rx == RxVersion(b) IN
  /\ \/ b % 2 = 0
     \/ curver # NoVersion /\ rx = curver
     \/ curver # NoVersion /\ rx # curver /\ rx # (curver + 1) % 32
  /\ UNCHANGED <<bver, gen, curver, shown, parsed>>

-----------------------------------------------------------------------------
(* The broadcaster.                                                        *)

\* The current table is repeated and reaches parse_tbl.
Deliver ==
  /\ \/ Receive(VersionByte(bver, 1))
     \/ Ignore(VersionByte(bver, 1))
  /\ sent' = TRUE

\* The next version is announced with current_next_indicator 0.
Announce ==
  /\ Ignore(VersionByte((bver + 1) % 32, 0))
  /\ UNCHANGED sent

\* A section is lost on the way.
Lose ==
  /\ AllowLoss
  /\ sent' = TRUE
  /\ UNCHANGED <<bver, gen, curver, shown, parsed>>

\* The broadcaster switches to the next version of the table, having
\* transmitted the current one at least once.
Bump ==
  /\ gen < MaxBumps
  /\ sent
  /\ sent' = FALSE
  /\ bver' = (bver + 1) % 32
  /\ gen' = gen + 1
  /\ UNCHANGED <<curver, shown, parsed>>

Next == Deliver \/ Announce \/ Lose \/ Bump

\* PSIP repeats every table (the VCT at least every 400 ms), so a current
\* section keeps reaching parse_tbl however many others are lost.
Fairness == WF_vars(Deliver)

Spec == Init /\ [][Next]_vars /\ Fairness

-----------------------------------------------------------------------------
(* Properties                                                              *)

\* parse_vct rebuilds vctstr, which the controller reads without a lock, at
\* most once per table version: repetitions of a version are not parsed
\* again.
ParsedOncePerVersion ==
  \A i, j \in 1..Len(parsed) : i < j => parsed[i] < parsed[j]

\* After start_ts resets the PsipState, a VCT is eventually decoded, which
\* is what get_ch_id waits for.
VctEventuallyDecoded == <>(shown # NONE)

\* Once the broadcaster stops changing its table, the receiver ends up
\* holding the table's current version (spec: "the next revision
\* supersedes the lost one").
ShownTracksBroadcast == <>[](shown = gen)

==============================================================================
