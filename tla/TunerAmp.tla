------------------------------ MODULE TunerAmp ------------------------------
(***************************************************************************)
(* The tuner engine's amplifier, filter and PLL control: tuner::set_amp,   *)
(* set_antenna, set_freq, init and close (src/tuner.cpp), over an          *)
(* appliance whose GPIO word and tuner PLLs outlive the program.           *)
(*                                                                         *)
(* Every call that can fail ends the program (do_item and get_ch_id return *)
(* 1 and main exits), so a run of the program is a sequence of calls that  *)
(* ends by close, by a failure or by the process ending; the appliance     *)
(* keeps whatever writes reached it.  A call is one step: it computes the  *)
(* writes it sends (GPIO words, PLL words) and the tuner object's new      *)
(* state; a failing write_then_read may stop it after any prefix of its    *)
(* writes.                                                                 *)
(***************************************************************************)
EXTENDS Integers, Sequences, SequencesExt, Bitwise

CONSTANTS
  TvInputs,      \* tvch arguments the program passes to set_freq
  GarbageFreqs,  \* what ch_freq[50], ch_freq[51] (past the table) may read as
  PowerOnGpio,   \* the appliance's GPIO word at power-on
  MaxRuns,       \* bound: runs of the program
  MaxCalls       \* bound: calls per run

Ch == 0..1                                     \* NUM_CHANNELS = 2
TVCH_MIN == 2
TVCH_MAX == 51
NoTv == -1                                     \* (unsigned) -1

\* enum tuner_antennas and enum tuner_amp_input
nc == 0  ant1 == 1  ant2 == 2  coax == 3
off == 0  vhf1 == 1  vhf2 == 2  uhf1 == 3  uhf2 == 4  external == 5
Antennas == {nc, ant1, ant2, coax}
AmpInputs == off..external

\* tuner::ch_freq: MHz of channels 2..51, ChFreqTbl[k + 1] is ch_freq[k].
ChFreqTbl == <<57, 63, 69, 79, 85, 177, 183, 189, 195, 201, 207, 213,
               473, 479, 485, 491, 497, 503, 509, 515, 521, 527, 533, 539,
               545, 551, 557, 563, 569, 575, 581, 587, 593, 599, 605, 611,
               617, 623, 629, 635, 641, 647, 653, 659, 665, 671, 677, 683,
               689, 695>>

\* The filter selector tables of set_amp, indexed by amp input.
FilterCh0 == <<4, 3, 1, 5, 2, 0>>
FilterCh1 == <<0, 3, 1, 4, 2, 5>>
\* amp_gpio: the amplifier enable bit of each amp input.
AmpGpio == <<0, 1, 4, 2, 8, 0>>
Tbl(t, input) == t[input + 1]

GPIO_80F0 == 33008   \* 0x80f0

VARIABLES
  st,       \* the tuner object: active_ant, ch_state[].i, ch_state[].tvch, cur_gpio
  hw,       \* the appliance: its GPIO word, each tuner's PLL divider,
            \* each demodulator's register 0x12a bit 0x20 (FM dithering)
            \* and register 2 bit 0 (the demodulator runs, out of reset)
  alive,    \* the program is running and its tuner is initialised
  runs,     \* runs of the program so far
  calls     \* calls in the current run

vars == <<st, hw, alive, runs, calls>>

State == [ant : Antennas, i : [Ch -> AmpInputs],
          tvch : [Ch -> (TVCH_MIN..TVCH_MAX) \cup {NoTv}], gpio : 0..65535]

TypeOK ==
  /\ st \in State
  /\ hw \in [gpio : 0..65535, pll : [Ch -> 0..32767], r12a : [Ch -> BOOLEAN],
            run : [Ch -> BOOLEAN]]
  /\ alive \in BOOLEAN
  /\ runs \in 0..MaxRuns /\ calls \in 0..MaxCalls

Init ==
  /\ st = [ant |-> nc, i |-> [c \in Ch |-> off], tvch |-> [c \in Ch |-> NoTv],
           gpio |-> 0]
  /\ hw = [gpio |-> PowerOnGpio, pll |-> [c \in Ch |-> 0],
           r12a |-> [c \in Ch |-> TRUE], run |-> [c \in Ch |-> TRUE]]
  /\ alive = FALSE
  /\ runs = 0
  /\ calls = 0

-----------------------------------------------------------------------------
(* A call's result: whether it returned 0, the tuner object after it and *)
(* the writes it sent, in order.                                          *)

Ok(s, w) == [ok |-> TRUE, st |-> s, w |-> w]
Err(s, w) == [ok |-> FALSE, st |-> s, w |-> w]

\* Continue each successful result r with the results of F(r.st).
AndThen(R, F(_)) ==
  UNION {IF r.ok THEN {[r2 EXCEPT !.w = r.w \o @] : r2 \in F(r.st)} ELSE {r}
         : r \in R}

\* The GPIO word set_amp computes for the channels' new amp inputs u.
GpioWord(cur, u) ==
  (cur & GPIO_80F0) | (u[0] | u[1])
    | (Tbl(FilterCh0, u[0]) * 256) | (Tbl(FilterCh1, u[1]) * 2048)

\* socket::set_gpio(val): one write of the 16-bit GPIO word.
GpioSet(g) == [reg |-> "gpio", ch |-> 0, val |-> g]

\* set_amp: nothing if the input is unchanged, else recompute cur_gpio,
\* set_gpio, and then record the input.
SetAmp(s, ch, state) ==
  IF state = s.i[ch] THEN Ok(s, <<>>)
  ELSE LET u == [s.i EXCEPT ![ch] = state]
           g == GpioWord(s.gpio, u)
       IN Ok([s EXCEPT !.gpio = g, !.i = u], <<GpioSet(g)>>)

\* ch_freq[k]: past the table (k outside 0..49) a read of whatever follows it.
Freqs(k) ==
  IF k \in 0..(Len(ChFreqTbl) - 1) THEN {ChFreqTbl[k + 1]} ELSE GarbageFreqs

\* pll = (freq << 4) + 704, sent as (pll >> 8) & 0x7f and pll & 0xff.
PllWord(freq) == (freq * 16 + 704) % 32768

\* Mutant of ValidTvch: the lower bound of the range check is lost.
ValidTvchNoLower(tv) == tv <= TVCH_MAX \/ tv = NoTv

\* set_freq's argument check: a channel number, or (unsigned) -1 for "off".
ValidTvch(tv) == (tv >= TVCH_MIN /\ tv <= TVCH_MAX) \/ tv = NoTv

\* socket::reset_demod: read register 2, write it with bit 0 clear (the
\* demodulator held in reset), sleep reset_ms, write it with bit 0 set.
ResetDemod(c) == <<[reg |-> "run", ch |-> c, val |-> FALSE],
                   [reg |-> "run", ch |-> c, val |-> TRUE]>>

\* set_freq: check the arguments and the antenna, pick the amp input from
\* the band and the antenna, set_amp, write the PLL; on a write fault turn
\* the amp off and fail; else reset the demodulator if reset_ms is not 0
\* (reset) and record tvch.
SetFreq(s, ch, tv, reset) ==
  IF ~ValidTvch(tv) THEN {Err(s, <<>>)}
  ELSE IF s.ant = nc THEN {Err(s, <<>>)}
  ELSE IF tv = NoTv THEN {SetAmp(s, ch, off)}
  ELSE UNION {
    IF zf = 0 THEN {Err(s, <<>>)} ELSE
    LET band == IF freq < 452 THEN vhf1 ELSE uhf1
        tai == CASE s.ant = ant2 -> band + 1
                 [] s.ant = coax -> external
                 [] OTHER        -> band
        r == SetAmp(s, ch, tai)
        pll == [reg |-> "pll", ch |-> ch, val |-> PllWord(freq)]
        faulted == SetAmp(r.st, ch, off)
    IN IF freq >= 862 THEN {Err(s, <<>>)}
       ELSE {Ok([r.st EXCEPT !.tvch[ch] = tv],
                r.w \o <<pll>> \o (IF reset THEN ResetDemod(ch) ELSE <<>>)),
             Err(faulted.st, r.w \o faulted.w)}
    : zf \in Freqs(tv - TVCH_MIN), freq \in Freqs(tv) }

\* Mutant of SetAntennaStep: a channel on the external input is not re-tuned
\* when the antenna changes away from coax.
SetAntennaStepNoRetune(s, ch) ==
  LET tai == CASE s.i[ch] = vhf2 -> vhf1 [] s.i[ch] = uhf2 -> uhf1
               [] OTHER -> s.i[ch]
  IN IF s.i[ch] = off THEN {Ok(s, <<>>)}
     ELSE IF s.ant = nc THEN {SetAmp(s, ch, off)}
     ELSE IF s.ant = coax THEN {SetAmp(s, ch, external)}
     ELSE IF s.tvch[ch] < TVCH_MIN \/ s.tvch[ch] > TVCH_MAX THEN {Ok(s, <<>>)}
     ELSE {SetAmp(s, ch, IF s.ant = ant2 THEN tai + 1 ELSE tai)}

\* One pass of set_antenna's loop: a channel that is off stays off; nc
\* turns it off, coax selects external; a channel on external is re-tuned
\* by set_freq; otherwise the channel keeps its band on the new antenna,
\* unless its tvch is out of range (a warning, nothing written).
SetAntennaStep(s, ch) ==
  LET tai == CASE s.i[ch] = vhf2 -> vhf1 [] s.i[ch] = uhf2 -> uhf1
               [] OTHER -> s.i[ch]
  IN IF s.i[ch] = off THEN {Ok(s, <<>>)}
     ELSE IF s.ant = nc THEN {SetAmp(s, ch, off)}
     ELSE IF s.ant = coax THEN {SetAmp(s, ch, external)}
     ELSE IF tai = external THEN SetFreq(s, ch, s.tvch[ch], TRUE)
     ELSE IF s.tvch[ch] < TVCH_MIN \/ s.tvch[ch] > TVCH_MAX THEN {Ok(s, <<>>)}
     ELSE {SetAmp(s, ch, IF s.ant = ant2 THEN tai + 1 ELSE tai)}

\* set_antenna: active_ant is set first, then each channel in turn; the
\* first failure returns.
SetAntenna(s, ant) ==
  AndThen(AndThen({Ok([s EXCEPT !.ant = ant], <<>>)},
                  LAMBDA x : SetAntennaStep(x, 0)),
          LAMBDA x : SetAntennaStep(x, 1))

\* set_modulation(v, VSB): the register checks and the VSB register
\* table, reset_demod, the serial output bit of 0x50e, reset_demod again.
\* Of its writes only the resets are modelled; it leaves the GPIO and the
\* PLLs alone.
SetModulation(v) == ResetDemod(v) \o ResetDemod(v)

\* Mutant of InitStep: init does not fake vhf1 before set_amp(v, off).
InitStepNoFake(s, v) ==
  LET r == SetAmp(s, v, off) IN {[r EXCEPT !.w = @ \o SetModulation(v)]}

\* Mutant of InitStep: init does not call set_modulation.
InitStepNoModulation(s, v) == {SetAmp([s EXCEPT !.i[v] = vhf1], v, off)}

\* One pass of init's loop: fake vhf1 so set_amp writes, then set_amp(v,
\* off), then set_modulation(v, VSB).
InitStep(s, v) ==
  LET r == SetAmp([s EXCEPT !.i[v] = vhf1], v, off)
  IN {[r EXCEPT !.w = @ \o SetModulation(v)]}

\* The tuner object the constructor builds (tuner.h).
Fresh == [ant |-> nc, i |-> [c \in Ch |-> off], tvch |-> [c \in Ch |-> NoTv],
          gpio |-> 0]

\* tuner::init after the firmware version check.
TunerInit == AndThen(AndThen({Ok(Fresh, <<>>)}, LAMBDA x : InitStep(x, 0)),
                     LAMBDA x : InitStep(x, 1))

-----------------------------------------------------------------------------
(* The program.                                                           *)

ApplyWrite(h, w) ==
  CASE w.reg = "gpio" -> [h EXCEPT !.gpio = w.val]
    [] w.reg = "pll"  -> [h EXCEPT !.pll[w.ch] = w.val]
    [] w.reg = "r12a" -> [h EXCEPT !.r12a[w.ch] = w.val]
    [] w.reg = "run"  -> [h EXCEPT !.run[w.ch] = w.val]

Apply(h, ws) == FoldLeft(ApplyWrite, h, ws)

\* The writes of ws the appliance may have applied when one of them fails.
\* Each socket::write_then_read sends its request before it waits up to
\* 400 ms for a 0x0d response with a good CRC; a timeout, a short or bad
\* reply, or a fault length after the send leaves that write applied or
\* not, and the caller returns 1 before sending the next.
Reached(ws) == {SubSeq(ws, 1, k) : k \in 0..Len(ws)}

\* A call with results R: it returns 0 with all its writes sent and the
\* program goes on, or a write_then_read fails (or the call returns 1)
\* after some prefix of its writes reached the appliance and the program
\* exits.
Call(R) ==
  \E r \in R :
    \/ /\ r.ok
       /\ st' = r.st
       /\ hw' = Apply(hw, r.w)
       /\ alive' = TRUE
    \/ /\ \E ws \in Reached(r.w) : hw' = Apply(hw, ws)
       /\ alive' = FALSE
       /\ UNCHANGED st

\* main starts: tuner::open, then init.
Start ==
  /\ ~alive
  /\ runs < MaxRuns
  /\ runs' = runs + 1
  /\ calls' = 0
  /\ Call(TunerInit)

DoSetAntenna ==
  /\ alive /\ calls < MaxCalls
  /\ calls' = calls + 1
  /\ UNCHANGED runs
  /\ \E ant \in Antennas : Call(SetAntenna(st, ant))

DoSetFreq ==
  /\ alive /\ calls < MaxCalls
  /\ calls' = calls + 1
  /\ UNCHANGED runs
  /\ \E ch \in Ch, tv \in TvInputs : Call(SetFreq(st, ch, tv, TRUE))

\* tuner::close: set_antenna(nc), errors ignored, and the program ends.
Close ==
  /\ alive
  /\ \E r \in SetAntenna(st, nc) :
       \E ws \in Reached(r.w) : hw' = Apply(hw, ws)
  /\ alive' = FALSE
  /\ UNCHANGED <<st, runs, calls>>

\* The program ends between calls without close (a failed get_mse or
\* stop_ts, a scan error, or after get_ch_id returns 1).
Exit ==
  /\ alive
  /\ alive' = FALSE
  /\ UNCHANGED <<st, hw, runs, calls>>

Next == Start \/ DoSetAntenna \/ DoSetFreq \/ Close \/ Exit

Spec == Init /\ [][Next]_vars

-----------------------------------------------------------------------------
(* Properties: checked while the program runs, between calls.             *)

AmpsFor(ant) ==
  CASE ant = ant1 -> {vhf1, uhf1} [] ant = ant2 -> {vhf2, uhf2}
    [] ant = coax -> {external}   [] ant = nc   -> {}

\* Every channel that is on uses an amp input of the active antenna, across
\* any sequence of set_antenna and set_freq calls (set_antenna moves a
\* channel's band to the new antenna, re-tuning it when it comes from coax).
AmpFollowsAntenna ==
  alive => \A c \in Ch : st.i[c] # off => st.i[c] \in AmpsFor(st.ant)

\* The filter selectors in the appliance's GPIO word are those of the amp
\* inputs ch_state records, even when an earlier run of the program was
\* stopped part way through its writes.
GpioFiltersMatchState ==
  alive => /\ (hw.gpio \div 256) % 8 = Tbl(FilterCh0, st.i[0])
           /\ (hw.gpio \div 2048) % 8 = Tbl(FilterCh1, st.i[1])

\* The appliance is programmed as ch_state says: the amplifier enable bits
\* are those of amp_gpio for the inputs in use (spec: set_amp "turns on an
\* amp for any frequencies that are going to be received"), and a tuned
\* channel's PLL holds the frequency of the channel it records,
\* ch_freq[tvch - TVCH_MIN].
ApplianceMatchesState ==
  alive =>
    /\ hw.gpio & 15 = Tbl(AmpGpio, st.i[0]) | Tbl(AmpGpio, st.i[1])
    /\ \A c \in Ch : st.i[c] # off =>
         hw.pll[c] = PllWord(ChFreqTbl[st.tvch[c] - TVCH_MIN + 1])

\* While the program runs, between calls, no demodulator is held in reset,
\* even when an earlier run stopped between reset_demod's two writes (in
\* set_freq or in init's set_modulation): init releases every demodulator
\* before the program makes its first call.
DemodsOutOfReset == alive => \A c \in Ch : hw.run[c]

==============================================================================
