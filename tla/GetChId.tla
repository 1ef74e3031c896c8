------------------------------- MODULE GetChId -------------------------------
(***************************************************************************)
(* The strong-channel probe of do_item and get_ch_id (src/main.cpp): find  *)
(* which channels of the scan list carry a strong signal, then identify    *)
(* each of them by its VCT, two demodulators at a time.                    *)
(*                                                                         *)
(* The probe tunes the scan list's channels in order, each on whichever    *)
(* demodulator is free, and gives each tune 1000 ms: a demodulator whose   *)
(* get_mse status exceeds 3 in time appends its channel to strongch, one   *)
(* that runs out of time is weak.  Time is counted in the 100 ms ticks of  *)
(* the code's usleep(2*50000), the only waits of the probe.                *)
(*                                                                         *)
(* get_ch_id then runs rounds on strongch: a round tunes chlist[scan] and  *)
(* chlist[scan + 1] (scan is never advanced, so always the first two),     *)
(* then polls up to 100 times, 160 ms apart: an unlocked demodulator is    *)
(* read with get_mse until the low status nibble is 0xf (a lock), then     *)
(* start_ts is called once (status 0x20) and get_vct polled; a VCT stops   *)
(* the stream (stop_ts) and marks the channel done (0x40).  After the      *)
(* polls every done channel is removed from chlist (memmove) and its VCT   *)
(* appended to vct_all; the rounds go on until chlist is empty or a key    *)
(* was pressed.  Every failed call returns 1 at once.                      *)
(*                                                                         *)
(* The tuner and the receiver are abstracted to what this code sees of     *)
(* them: get_mse reports a strong signal or a lock or not, get_vct a VCT   *)
(* or not (Mpgts models where the VCT comes from).  A channel of Dead      *)
(* carries no VCT the receiver decodes (an analog carrier, or a signal too *)
(* weak to decode).                                                        *)
(***************************************************************************)
EXTENDS Naturals, Sequences, SequencesExt

CONSTANTS
  ScanList,   \* chlist of do_item's first scan, in order
  Strong,     \* channels whose get_mse status can exceed 3 while tuned
  Dead,       \* channels whose VCT is never decoded
  Deadline,   \* ticks a probe tune is given (1000 ms / 100 ms in the code)
  MaxPolls,   \* bound: polls per round (100 in the code)
  NoCh        \* model value: a channel that is not in the scan list

Chans == ToSet(ScanList)
Dm == 0..1                 \* tuner::NUM_CHANNELS demodulators

ASSUME /\ Strong \subseteq Chans /\ Dead \subseteq Chans
       /\ Deadline \in Nat /\ MaxPolls \in Nat \ {0}

VARIABLES
  pc,         \* "probe", "finish" (the probe's two loops), "tune", "head"
              \* (top of a poll), "chan", "collect" or "ret"
  idx,        \* i of the probe: the scan list entries tuned so far
  pending,    \* end[ch] # 0: the probe's tune on the demodulator is running
  elapsed,    \* ticks since that tune started, counted up to Deadline + 1
  strongch,   \* strongch[0 .. strongch_use - 1]
  k,          \* ch: the demodulator the current loop is at
  j,          \* polls of this round so far
  last,       \* j = 10000000: every demodulator was done at the top of a poll
  go,         \* no key was pressed
  chlist,     \* get_ch_id's chlist[0 .. n_ch - 1]
  freq,       \* get_freq(ch): the channel each demodulator is tuned to
  status,     \* status[ch]: lock (low nibble 0xf), ts (0x20), done (0x40)
  streaming,  \* the appliance has a UDP destination for the demodulator
  carrier,    \* the demodulator has locked to its carrier since tuned
  found,      \* vct_all: for each VCT appended, the chlist entry it was
              \* taken for and the channel its demodulator was tuned to
  res         \* the return value, once pc = "ret"

probeVars == <<idx, pending, elapsed, strongch>>
vars == <<pc, k, j, last, go, chlist, freq, status, streaming, carrier, found, res,
          probeVars>>

Status == [lock : BOOLEAN, ts : BOOLEAN, done : BOOLEAN]
Cleared == [lock |-> FALSE, ts |-> FALSE, done |-> FALSE]

TypeOK ==
  /\ pc \in {"probe", "finish", "tune", "head", "chan", "collect", "ret"}
  /\ idx \in 0..Len(ScanList)
  /\ pending \in [Dm -> BOOLEAN] /\ elapsed \in [Dm -> 0..(Deadline + 1)]
  /\ strongch \in Seq(Chans)
  /\ k \in Dm /\ j \in 0..MaxPolls /\ last \in BOOLEAN /\ go \in BOOLEAN
  /\ chlist \in Seq(Chans)
  /\ freq \in [Dm -> Chans \cup {NoCh}]
  /\ status \in [Dm -> Status]
  /\ streaming \in [Dm -> BOOLEAN]
  /\ carrier \in [Dm -> BOOLEAN]
  /\ found \in Seq([name : Chans, from : Chans \cup {NoCh}])
  /\ res \in {0, 1}

\* The two scans before the probe leave each demodulator tuned to some
\* channel, locked or not, and no stream has been started.
Init ==
  /\ pc = IF ScanList = <<>> THEN "finish" ELSE "probe"
  /\ idx = 0
  /\ pending = [d \in Dm |-> FALSE] /\ elapsed = [d \in Dm |-> 0]
  /\ strongch = <<>>
  /\ k = 0 /\ j = 0 /\ last = FALSE /\ go = TRUE
  /\ chlist = <<>>
  /\ freq \in [Dm -> Chans \cup {NoCh}]
  /\ status = [d \in Dm |-> Cleared]
  /\ streaming = [d \in Dm |-> FALSE]
  /\ carrier \in [Dm -> BOOLEAN]
  /\ found = <<>>
  /\ res = 0

\* free(vct_all); return 1 -- the program then exits.
Fail ==
  /\ pc' = "ret" /\ res' = 1
  /\ UNCHANGED <<k, j, last, go, chlist, carrier, found, probeVars>>

-----------------------------------------------------------------------------
(* do_item's strong-channel probe.                                         *)

\* usleep(2*50000): one tick passes for every running tune.
Tick(p, e) == [d \in Dm |-> IF p[d] /\ e[d] <= Deadline THEN e[d] + 1 ELSE e[d]]

\* The end of the probe: get_ch_id(itm, strongch_use, strongch), which
\* returns 0 at once for an empty list.
StartGetChId(s) ==
  /\ chlist' = s
  /\ pc' = IF s = <<>> THEN "ret" ELSE "tune"

\* The search broke out with ch = d, free now: end[ch] = cur_ms + 1000,
\* set_freq(ch, chlist[i]) (a failure returns 1), usleep(2*50000), i++;
\* s is strongch as the search left it.
ProbeTune(d, s) ==
  \/ /\ strongch' = s
     /\ freq' = [freq EXCEPT ![d] = ScanList[idx + 1]]
     /\ carrier' = [carrier EXCEPT ![d] = FALSE]
     /\ pending' = [pending EXCEPT ![d] = TRUE]
     /\ elapsed' = Tick(pending', [elapsed EXCEPT ![d] = 0])
     /\ idx' = idx + 1 /\ k' = 0
     /\ pc' = IF idx + 1 = Len(ScanList) THEN "finish" ELSE "probe"
     /\ UNCHANGED <<j, last, go, chlist, status, streaming, found, res>>
  \/ Fail /\ UNCHANGED <<freq, status, streaming>>

\* The search for a free demodulator, at ch = k: one whose end[ch] is 0,
\* or whose tune timed out (end[ch] < cur_ms), is taken.
ProbeFree ==
  /\ pc = "probe"
  /\ ~pending[k] \/ elapsed[k] > Deadline
  /\ ProbeTune(k, strongch)

\* Otherwise get_mse(ch) (a failure returns 1): status > 3 appends endch[ch]
\* to strongch and takes the demodulator; else ch++, and after the last
\* demodulator usleep(2*50000) and ch = 0.
ProbePoll(strong) ==
  /\ pc = "probe" /\ pending[k] /\ elapsed[k] <= Deadline
  /\ strong => freq[k] \in Strong
  /\ \/ /\ strong
        /\ ProbeTune(k, Append(strongch, freq[k]))
     \/ /\ ~strong
        /\ k' = (k + 1) % 2
        /\ elapsed' = IF k + 1 = 2 THEN Tick(pending, elapsed) ELSE elapsed
        /\ UNCHANGED <<pc, j, last, go, chlist, freq, status, streaming, carrier,
                       found, res, idx, pending, strongch>>
     \/ /\ Fail /\ UNCHANGED <<freq, status, streaming>>

\* The demodulators the finishing loop is done with: a running tune that
\* timed out, or whose status exceeds 3 (end[ch] = 0 after either).
\* Mutant of FinishDone: end[ch] is not cleared after a strong status.
FinishDoneKeepsStrong(d, strong) ==
  pending[d] /\ elapsed[d] > Deadline

FinishDone(d, strong) ==
  pending[d] /\ (elapsed[d] > Deadline \/ strong[d])

\* One pass of the finishing loop over both demodulators: get_mse on each
\* running tune still in time (a failure returns 1), a strong one's channel
\* appended in demodulator order.  With none left running, get_ch_id;
\* otherwise usleep(2*50000) and another pass.
Finish ==
  /\ pc = "finish"
  /\ \E strong \in [Dm -> BOOLEAN] :
       /\ \A d \in Dm : strong[d] => freq[d] \in Strong
       /\ LET polled(d) == pending[d] /\ elapsed[d] <= Deadline
              hits == SelectSeq(<<0, 1>>, LAMBDA d : polled(d) /\ strong[d])
              s == strongch \o [n \in 1..Len(hits) |-> freq[hits[n]]]
              left == [d \in Dm |-> pending[d] /\ ~FinishDone(d, strong)]
          IN \/ /\ strongch' = s /\ pending' = left
                /\ IF \E d \in Dm : left[d]
                     THEN /\ elapsed' = Tick(left, elapsed)
                          /\ UNCHANGED <<pc, chlist>>
                     ELSE StartGetChId(s) /\ UNCHANGED elapsed
                /\ UNCHANGED <<k, j, last, go, freq, status, streaming, carrier,
                               found, res, idx>>
             \/ /\ \E d \in Dm : polled(d)
                /\ Fail /\ UNCHANGED <<freq, status, streaming>>

-----------------------------------------------------------------------------
(* A round: tune, poll, collect.                                           *)

\* The demodulators a round uses: ch while i = scan + ch < n_ch.
Used == {d \in Dm : d < Len(chlist)}

\* Tune the first two channels of chlist, each only if get_freq differs; a
\* set_freq that fails returns 1 (the demodulators before it are tuned).
\* A retuned demodulator loses its lock.  Then status[] = 0 and the polls
\* start.
Tune ==
  /\ pc = "tune"
  /\ LET retune == {d \in Used : freq[d] # chlist[d + 1]}
     IN \/ /\ freq' = [d \in Dm |-> IF d \in retune THEN chlist[d + 1] ELSE freq[d]]
           /\ carrier' = [d \in Dm |-> carrier[d] /\ d \notin retune]
           /\ status' = [d \in Dm |-> Cleared]
           /\ pc' = "head" /\ j' = 0 /\ last' = FALSE
           /\ UNCHANGED <<k, go, chlist, streaming, found, res, probeVars>>
        \/ /\ retune # {}
           /\ \E bad \in retune :
                freq' = [d \in Dm |-> IF d \in retune /\ d < bad
                                         THEN chlist[d + 1] ELSE freq[d]]
           /\ Fail
           /\ UNCHANGED <<status, streaming>>


\* Top of a poll: if every demodulator is done, this poll is the last;
\* otherwise from the second poll on rawgetch is read: a key ends the
\* polls, an error returns 1.  Then usleep(160000).
PollTop ==
  /\ pc = "head"
  /\ last' = \A d \in Dm : status[d].done
  /\ pc' = "chan" /\ k' = 0
  /\ UNCHANGED <<j, go, chlist, freq, status, streaming, carrier, found, res, probeVars>>

KeyPress ==
  /\ pc = "head"
  /\ j > 0 /\ ~\A d \in Dm : status[d].done
  /\ \/ go' = FALSE /\ pc' = "collect"
        /\ UNCHANGED <<k, j, last, chlist, freq, status, streaming, carrier, found, res, probeVars>>
     \/ Fail /\ UNCHANGED <<freq, status, streaming>>

\* Mutant of NextCh: the polls run while j <= 100.
NextChPollsOnceMore ==
  IF k + 1 < Len(chlist) /\ k + 1 \in Dm
    THEN k' = k + 1 /\ pc' = "chan" /\ UNCHANGED j
    ELSE /\ k' = 0 /\ j' = j + 1
         /\ pc' = IF last \/ j + 1 > MaxPolls THEN "collect" ELSE "head"

\* After demodulator k: i++, and the loop ends when i >= n_ch or after the
\* second; the polls end after MaxPolls or after the last one.
NextCh ==
  IF k + 1 < Len(chlist) /\ k + 1 \in Dm
    THEN k' = k + 1 /\ pc' = "chan" /\ UNCHANGED j
    ELSE /\ k' = 0 /\ j' = j + 1
         /\ pc' = IF last \/ j + 1 >= MaxPolls THEN "collect" ELSE "head"

\* get_mse on a demodulator not yet locked: status is what the lock
\* registers say; a failed read returns 1.
PollMse(d) ==
  /\ pc = "chan" /\ k = d /\ ~status[d].lock
  /\ \/ /\ status' = [status EXCEPT ![d].lock = carrier[d]]
        /\ NextCh
        /\ UNCHANGED <<last, go, chlist, freq, streaming, carrier, found, res, probeVars>>
     \/ Fail /\ UNCHANGED <<freq, status, streaming>>

\* get_mse on a done demodulator, for the display only.
ShowMse(d) ==
  /\ pc = "chan" /\ k = d /\ status[d].lock /\ status[d].done
  /\ \/ NextCh /\ UNCHANGED <<last, go, chlist, freq, status, streaming, carrier, found, res, probeVars>>
     \/ Fail /\ UNCHANGED <<freq, status, streaming>>

\* A locked demodulator that is not done: start_ts once (a failure may
\* leave the UDP destination set), then get_vct; a VCT calls stop_ts (a
\* failure may or may not have cleared the destination) and marks it done.
\* A VCT is decoded only from a channel that carries one.
StartPoll(d, vct) ==
  /\ pc = "chan" /\ k = d /\ status[d].lock /\ ~status[d].done
  /\ vct => freq[d] \notin Dead
  /\ LET started == [streaming EXCEPT ![d] = TRUE] IN
     \/ /\ ~status[d].ts
        /\ \E on \in {streaming[d], TRUE} : streaming' = [streaming EXCEPT ![d] = on]
        /\ Fail /\ UNCHANGED <<freq, status>>
     \/ /\ vct
        /\ \E on \in BOOLEAN : streaming' = [started EXCEPT ![d] = on]
        /\ Fail /\ UNCHANGED <<freq, status>>
     \/ /\ streaming' = [started EXCEPT ![d] = ~vct]
        /\ status' = [status EXCEPT ![d].ts = TRUE, ![d].done = vct]
        /\ NextCh
        /\ UNCHANGED <<last, go, chlist, freq, carrier, found, res, probeVars>>

\* The removal loop, for (ch = 0; ch < 2; ch++, i++): a done demodulator's
\* VCT is appended and chlist[i] removed by memmove, then i-- so that i
\* stays on the entry that moved into place.  i counts from 0.
\* Mutant of Removal: no i-- after the memmove.
RECURSIVE RemovalKeepsIndex(_, _, _, _)
RemovalKeepsIndex(d, i, l, f) ==
  IF d \notin Dm THEN [list |-> l, found |-> f]
  ELSE IF ~status[d].done THEN RemovalKeepsIndex(d + 1, i + 1, l, f)
  ELSE IF i >= Len(l) THEN [list |-> l, found |-> f]
  ELSE RemovalKeepsIndex(d + 1, i + 1, RemoveAt(l, i + 1),
                         Append(f, [name |-> l[i + 1], from |-> freq[d]]))

RECURSIVE Removal(_, _, _, _)
Removal(d, i, l, f) ==
  IF d \notin Dm THEN [list |-> l, found |-> f]
  ELSE IF ~status[d].done THEN Removal(d + 1, i + 1, l, f)
  ELSE IF i >= Len(l) THEN [list |-> l, found |-> f]
  ELSE Removal(d + 1, (i - 1) + 1, RemoveAt(l, i + 1),
              Append(f, [name |-> l[i + 1], from |-> freq[d]]))

\* After the polls: remove the done channels; return 0 when none is left
\* or a key was pressed, else the next round.
Collect ==
  /\ pc = "collect"
  /\ LET r == Removal(0, 0, chlist, found) IN
     /\ chlist' = r.list /\ found' = r.found
     /\ pc' = IF r.list = <<>> \/ ~go THEN "ret" ELSE "tune"
  /\ UNCHANGED <<k, j, last, go, freq, status, streaming, carrier, res, probeVars>>

-----------------------------------------------------------------------------

\* The demodulator locks to the carrier it is tuned to (while get_ch_id
\* runs; nothing reads it afterwards).  A lock is kept until a retune.
LockUp(d) ==
  /\ pc # "ret" /\ freq[d] # NoCh /\ ~carrier[d]
  /\ carrier' = [carrier EXCEPT ![d] = TRUE]
  /\ UNCHANGED <<pc, k, j, last, go, chlist, freq, status, streaming, found, res, probeVars>>

Controller ==
  \/ ProbeFree \/ Finish \/ \E s \in BOOLEAN : ProbePoll(s)
  \/ Tune \/ PollTop \/ KeyPress \/ Collect
  \/ \E d \in Dm : PollMse(d) \/ ShowMse(d) \/ \E v \in BOOLEAN : StartPoll(d, v)

Next == Controller \/ \E d \in Dm : LockUp(d)

\* The probe and get_ch_id are sequential loops that never block for long,
\* so they keep stepping.  A tuned demodulator eventually locks to its carrier, and a
\* channel that carries a VCT has it decoded if its stream is polled often
\* enough: the broadcast repeats it every 400 ms.  The user is not assumed
\* to press a key.
Fairness ==
  /\ WF_vars(ProbeFree \/ Finish \/ \E s \in BOOLEAN : ProbePoll(s)
             \/ Tune \/ PollTop \/ Collect \/ \E d \in Dm : PollMse(d) \/ ShowMse(d)
             \/ \E v \in BOOLEAN : StartPoll(d, v))
  /\ \A d \in Dm : WF_vars(LockUp(d))
  /\ \A d \in Dm : SF_vars(StartPoll(d, TRUE) /\ status'[d].done)

Spec == Init /\ [][Next]_vars /\ Fairness

-----------------------------------------------------------------------------
(* Properties                                                              *)

Names == {found[n].name : n \in 1..Len(found)}

\* The probe is over: every scanned channel was tuned and no tune runs.
ProbeDone == idx = Len(ScanList) /\ \A d \in Dm : ~pending[d]

\* The probe reports a channel strong at most as often as scan listed it
\* (scan can list a channel found on two antennas twice), so strongch_use
\* never exceeds n_ch, the length of the array strongch: a demodulator
\* found strong is released by both loops before it can be read again,
\* though the finishing loop polls it every pass.
StrongChannelsOnce ==
  ToBag(strongch) \sqsubseteq ToBag(ScanList) /\ Len(strongch) <= Len(ScanList)

\* Every VCT in vct_all is the one of the channel it is reported for, and
\* once the probe is over every strong channel is either still in chlist
\* or reported exactly once: the removal loop's i-- keeps the chlist index
\* and the demodulator in step however many channels of a round are done.
IdentifiedAsTuned ==
  /\ \A n \in 1..Len(found) : found[n].name = found[n].from
  /\ ProbeDone =>
       /\ Names \cup ToSet(chlist) = ToSet(strongch)
       /\ Len(found) + Len(chlist) = Len(strongch)

==============================================================================
