-------------------------------- MODULE Scan --------------------------------
(***************************************************************************)
(* tuner::scan (src/tuner.cpp) as a call of the program that TunerAmp     *)
(* models: save and clear bit 0x20 of demodulator register 0x12a, sweep    *)
(* the channel table two tuners at a time in the interleaved order, record *)
(* every channel whose carrier recovery locks, fall back from ant1 to ant2 *)
(* to coax while fewer than three were found, then restore 0x12a and       *)
(* return the sorted list.                                                 *)
(*                                                                         *)
(* One step is one batch of the sweep (set_freq on both tuners, then the   *)
(* lock reads), the set-up before it or the antenna change after it.  A    *)
(* carrier locks when the frequency the tuner's PLL is set to is one the   *)
(* antenna receives (Carriers).  The program ends only by returning, so    *)
(* it is not stopped in the middle of a scan.                              *)
(***************************************************************************)
EXTENDS TunerAmp

CONSTANTS
  Carriers,  \* Carriers[ant]: the MHz frequencies whose carrier locks on antenna ant
  CrMsArgs   \* the cr_ms arguments scan is called with

N == Len(ChFreqTbl)   \* n_ch_freq
CH_STEP == 2

VARIABLES
  spc,        \* "idle" (not scanning), "sweep" or "next" (after a sweep)
  sk,         \* the batch of the sweep to run next
  antValid,   \* ant_valid: scan started with an antenna selected
  find,       \* find[0 .. find_use - 1]
  old12a,     \* old12a[]: 0x12a as scan read it
  chlist,     \* *chlist of the last scan that returned 0
  run12a,     \* 0x12a as the current run of the program found it
  crMs        \* cr_ms of the scan in progress

scanVars == <<spc, sk, antValid, find, old12a, chlist, run12a, crMs>>
allVars == <<vars, scanVars>>

\* Mutant of ScanOrder: the batches advance by NUM_CHANNELS.
RECURSIVE BatchesNarrow(_)
BatchesNarrow(i) ==
  IF i >= N THEN (IF i % 2 = 1 THEN <<>> ELSE BatchesNarrow(1))
  ELSE <<i>> \o BatchesNarrow(i + 2)

\* The sweep loop: i += NUM_CHANNELS * 2; past the table an even i restarts
\* at 1 and an odd i ends the sweep.
RECURSIVE Batches(_)
Batches(i) ==
  IF i >= N THEN (IF i % 2 = 1 THEN <<>> ELSE Batches(1))
  ELSE <<i>> \o Batches(i + 2 * CH_STEP)

\* The first table index of each batch of a sweep.
ScanOrder == Batches(0)

\* The tuned frequency a PLL divider stands for.
FreqOfPll(p) == (p - 704) \div 16

ScanTypeOK ==
  /\ spc \in {"idle", "sweep", "next"}
  /\ sk \in 1..(Len(ScanOrder) + 1)
  /\ antValid \in BOOLEAN
  /\ find \in Seq(TVCH_MIN..TVCH_MAX)
  /\ old12a \in [Ch -> BOOLEAN] /\ run12a \in [Ch -> BOOLEAN]
  /\ chlist \in Seq(TVCH_MIN..TVCH_MAX)
  /\ crMs \in Nat

ScanInit ==
  /\ Init
  /\ spc = "idle"
  /\ sk = 1
  /\ antValid = FALSE
  /\ find = <<>>
  /\ old12a = hw.r12a
  /\ chlist = <<>>
  /\ run12a = hw.r12a
  /\ crMs = 20

\* socket::set_demod8(c, 0x12a, v): v is whether bit 0x20 is set.
Set12a(c, v) == [reg |-> "r12a", ch |-> c, val |-> v]

\* The program ends after the writes ws reached the appliance.
Quit(ws) ==
  /\ hw' = Apply(hw, ws)
  /\ alive' = FALSE
  /\ spc' = "idle"
  /\ UNCHANGED <<st, runs, calls, sk, antValid, find, old12a, chlist, run12a, crMs>>

\* A call of result r ends the program after some prefix of its writes.
QuitPart(r) == \E ws \in Reached(r.w) : Quit(ws)

\* Mutant of Restore12a: the value written back keeps bit 0x20 clear.
Restore12aCleared == [c \in 1..2 |-> Set12a(c - 1, FALSE)]

\* The restore of 0x12a on every channel, from old12a.
Restore12a == [c \in 1..2 |-> Set12a(c - 1, old12a[c - 1])]

\* goto fail: the writes ws reached the appliance, then each channel's
\* set_demod8(j, 0x12a, old12a[j]) is tried, errors ignored; return 1.
Fail(ws) ==
  \E sent \in Reached(ws), reached \in SUBSET Ch :
    Quit(sent \o SelectSeq(Restore12a, LAMBDA w : w.ch \in reached))

-----------------------------------------------------------------------------
(* The steps of scan.                                                     *)

\* Entry: with no antenna selected the amps must be off and ant1 is taken
\* for now, with cr_ms at least 20; then each channel's 0x12a is read and
\* written back with bit 0x20 clear; any failure returns 1 without
\* restoring.
ScanStart ==
  /\ alive /\ spc = "idle" /\ calls < MaxCalls
  /\ calls' = calls + 1
  /\ \E cr \in CrMsArgs : crMs' = IF st.ant = nc /\ cr < 20 THEN 20 ELSE cr
  /\ IF st.ant = nc /\ (st.i[0] # off \/ st.i[1] # off)
       THEN Quit(<<>>)
       ELSE \E r \in IF st.ant = nc THEN SetAntenna(st, ant1) ELSE {Ok(st, <<>>)} :
              LET clear == [c \in 1..2 |-> Set12a(c - 1, FALSE)]
                  done == [r EXCEPT !.w = @ \o clear]
              IN \/ /\ r.ok
                    /\ st' = r.st
                    /\ hw' = Apply(hw, done.w)
                    /\ old12a' = hw.r12a
                    /\ spc' = "sweep" /\ sk' = 1 /\ find' = <<>>
                    /\ antValid' = (st.ant # nc)
                    /\ UNCHANGED <<alive, runs, chlist, run12a>>
                 \/ QuitPart(IF r.ok THEN done ELSE r)

\* A channel's part of a batch: set_freq(j, i + j * CH_STEP + TVCH_MIN,
\* cr_ms <= 20 ? cr_ms : 0) if that index is in the table.
Probe(s, i, j) ==
  IF i + j * CH_STEP < N
    THEN SetFreq(s, j, i + j * CH_STEP + TVCH_MIN, crMs > 0 /\ crMs <= 20)
    ELSE {Ok(s, <<>>)}

\* The channels of a batch whose carrier recovery locks (0x11d bit 0x80),
\* in tuner order, as the tvch ch_state records.
Locked(s, h, i) ==
  LET js == SelectSeq(<<0, 1>>, LAMBDA j : /\ i + j * CH_STEP < N
                                           /\ FreqOfPll(h.pll[j]) \in Carriers[s.ant])
  IN [n \in 1..Len(js) |-> s.tvch[js[n]]]

\* One batch: tune both tuners, then read each lock; a failure of either
\* goes to fail.
ScanSweep ==
  /\ alive /\ spc = "sweep"
  /\ LET i == ScanOrder[sk] IN
     \E r \in AndThen(Probe(st, i, 0), LAMBDA x : Probe(x, i, 1)) :
       \/ /\ r.ok
          /\ st' = r.st
          /\ hw' = Apply(hw, r.w)
          /\ find' = find \o Locked(r.st, Apply(hw, r.w), i)
          /\ sk' = sk + 1
          /\ spc' = IF sk = Len(ScanOrder) THEN "next" ELSE "sweep"
          /\ UNCHANGED <<alive, runs, calls, antValid, old12a, chlist, run12a, crMs>>
       \/ Fail(r.w)

\* After a sweep: with three channels found, an antenna chosen by the
\* caller, or coax tried, restore 0x12a, qsort find into *chlist and return 0; else
\* turn both amps off and move to the next antenna (a failure of either
\* returns 1 without restoring 0x12a) and sweep again, find_use kept.
ScanNextAnt ==
  /\ alive /\ spc = "next"
  /\ IF Len(find) >= 3 \/ antValid \/ st.ant = coax
       THEN \/ /\ hw' = Apply(hw, Restore12a)
               /\ spc' = "idle"
               /\ chlist' = SortSeq(find, <)
               /\ UNCHANGED <<st, alive, runs, calls, sk, antValid, find,
                              old12a, run12a, crMs>>
            \/ QuitPart(Ok(st, Restore12a))
       ELSE LET off2 == AndThen({SetAmp(st, 0, off)}, LAMBDA x : {SetAmp(x, 1, off)})
            IN \E r \in AndThen(off2, LAMBDA x : SetAntenna(x, st.ant + 1)) :
                 \/ /\ r.ok
                    /\ st' = r.st
                    /\ hw' = Apply(hw, r.w)
                    /\ spc' = "sweep" /\ sk' = 1
                    /\ UNCHANGED <<alive, runs, calls, antValid, find, old12a,
                                   chlist, run12a, crMs>>
                 \/ QuitPart(r)

\* The calls of TunerAmp, between scans; a new run records 0x12a as it
\* finds it.
TunerCall ==
  /\ spc = "idle"
  /\ Next
  /\ run12a' = IF alive THEN run12a ELSE hw.r12a
  /\ UNCHANGED <<spc, sk, antValid, find, old12a, chlist, crMs>>

ScanNext == TunerCall \/ ScanStart \/ ScanSweep \/ ScanNextAnt

ScanSpec == ScanInit /\ [][ScanNext]_allVars

\* The state TLC tells apart.  Between runs of the program only the
\* appliance's 0x12a and reset bits outlive it: the next run builds a new
\* tuner object and init rewrites the GPIO word.  A PLL of a channel that is off is
\* written again by set_freq before anything reads it.
LiveView ==
  IF alive
    THEN <<st, [hw EXCEPT !.pll = [c \in Ch |-> IF st.i[c] = off THEN 0 ELSE @[c]]],
           runs, calls, scanVars>>
    ELSE <<runs, hw.r12a, hw.run>>

-----------------------------------------------------------------------------
(* Properties                                                              *)

\* The first tvch of each batch in spec 8.5: (2,4), (6,8), ..., (50,?),
\* then (3,5), (7,9), ..., (51,?).
SpecTvch == [k \in 1..13 |-> 2 + 4 * (k - 1)] \o [k \in 1..13 |-> 3 + 4 * (k - 1)]

\* During a sweep the tuners hold the tvch pair spec 8.5 lists for the
\* batch just run: the loop's stride and its even/odd restart visit every
\* channel once, in that order.
ScanOrderMatchesSpec ==
  spc # "idle" /\ sk > 1 =>
    /\ sk - 1 <= Len(SpecTvch)
    /\ st.tvch[0] = SpecTvch[sk - 1]
    /\ SpecTvch[sk - 1] + CH_STEP <= TVCH_MAX =>
         st.tvch[1] = SpecTvch[sk - 1] + CH_STEP

\* While the program runs and no scan is in progress, every demodulator's
\* 0x12a is as the run found it: scan's restore undoes its clear.
Scan12aRestored == alive /\ spc = "idle" => hw.r12a = run12a

\* scan never writes past the n_ch_freq entries it malloc'd for find.
FindWithinBuffer == Len(find) <= N

==============================================================================
