-------------------------------- MODULE Mpgts --------------------------------
(***************************************************************************)
(* The endpoint's two threads and the reset rendezvous between them        *)
(* (src/mpgts.cpp, src/mpgatsc.cpp init, src/main.cpp get_ch_id).          *)
(*                                                                         *)
(* The controller (caller thread) tunes a demodulator, waits for lock,     *)
(* calls mpgts::start_ts -- raise want_reset[ch], poll it three times for  *)
(* the receiver to clear it, set atsc[ch].tvch, ask the appliance to       *)
(* stream -- then polls get_vct until the receiver has decoded a VCT and   *)
(* stops the stream.                                                       *)
(*                                                                         *)
(* The receiver (thread_main) loops: pselect on both UDP sockets, then for *)
(* each channel whose want_reset is set clears it and re-initialises that  *)
(* channel's PsipState (mpgatsc::init), then reads one datagram from each  *)
(* socket that pselect reported readable and demultiplexes it.             *)
(*                                                                         *)
(* The appliance pushes datagrams of whatever the demodulator receives     *)
(* into a channel's socket while its UDP destination is set.              *)
(*                                                                         *)
(* Data is abstracted to where it came from: a datagram carries the number *)
(* of the tuning (set_freq) that produced it; a decoded VCT records the    *)
(* tuning of its datagram, the label atsc[ch].tvch it was printed with     *)
(* (again a tuning number) and the tuning whose reset preceded it.         *)
(***************************************************************************)
EXTENDS Naturals, Sequences, FiniteSets

CONSTANTS
  NumCh,        \* tuner::NUM_CHANNELS
  MaxTune,      \* bound: tunings (set_freq calls) per channel
  MaxStart,     \* bound: start_ts calls per channel
  SockCap,      \* bound: datagrams queued in one UDP socket
  NONE          \* model value: vctstr == 0

ASSUME NumCh \in 1..2 /\ MaxTune \in Nat \ {0} /\ MaxStart \in Nat \ {0}
ASSUME SockCap \in Nat \ {0}

Chans == 0..(NumCh - 1)

\* want_reset polls in mpgts::start_ts: for (i = 0; i < 3; i++)
ResetPolls == 3

VARIABLES
  \* shared between the threads (mpgts members)
  want_reset,   \* volatile int want_reset[2]
  atscTvch,     \* atsc[ch].tvch, written by the controller, read by demux
  vct,          \* atsc[ch].vctstr: NONE or the VCT it holds
  psip,         \* tunings whose packets the PsipState holds since its init
  \* controller
  cpc,          \* where get_ch_id is, per channel
  tn,           \* number of the current tuning of each demodulator
  polls,        \* want_reset checks done by the current start_ts
  starts,       \* start_ts calls so far
  report,       \* the VCT get_ch_id took as the result, or NONE
  \* appliance
  streaming,    \* the appliance's UDP destination for ch is set
  sock,         \* datagrams queued in udp_sock[ch]
  \* receiver
  rpc,          \* where thread_main is
  ri,           \* loop index i of thread_main
  readable,     \* rfds as pselect returned it
  \* history
  clearedTune,  \* tuning of the request the receiver last cleared
  initTune      \* tuning of the request the PsipState was last reset for

ctlVars == <<cpc, tn, polls, starts, report>>
rxVars  == <<rpc, ri, readable, clearedTune, initTune>>
vars == <<want_reset, atscTvch, vct, psip, ctlVars, streaming, sock, rxVars>>

Tunings == 0..MaxTune
Datagram == [tune : Tunings]
Vct == [tune : Tunings, label : Tunings, after : Tunings]

TypeOK ==
  /\ want_reset \in [Chans -> 0..MaxStart]
  /\ atscTvch \in [Chans -> Tunings]
  /\ vct \in [Chans -> Vct \cup {NONE}]
  /\ psip \in [Chans -> SUBSET Tunings]
  /\ cpc \in [Chans -> {"idle", "tuned", "locked", "waitReset", "waitVct",
                        "done", "failed"}]
  /\ tn \in [Chans -> Tunings]
  /\ polls \in [Chans -> 0..ResetPolls]
  /\ starts \in [Chans -> 0..MaxStart]
  /\ report \in [Chans -> Vct \cup {NONE}]
  /\ streaming \in [Chans -> BOOLEAN]
  /\ sock \in [Chans -> Seq(Datagram)]
  /\ rpc \in {"select", "reset", "init", "recv", "exited"}
  /\ ri \in 0..NumCh
  /\ readable \in SUBSET Chans
  /\ clearedTune \in [Chans -> Tunings]
  /\ initTune \in [Chans -> Tunings]

\* mpgts::mpgts and mpgatsc::mpgatsc; open() has run init() on both.
Init ==
  /\ want_reset = [c \in Chans |-> 0]
  /\ atscTvch = [c \in Chans |-> 0]
  /\ vct = [c \in Chans |-> NONE]
  /\ psip = [c \in Chans |-> {}]
  /\ cpc = [c \in Chans |-> "idle"]
  /\ tn = [c \in Chans |-> 0]
  /\ polls = [c \in Chans |-> 0]
  /\ starts = [c \in Chans |-> 0]
  /\ report = [c \in Chans |-> NONE]
  /\ streaming = [c \in Chans |-> FALSE]
  /\ sock = [c \in Chans |-> <<>>]
  /\ rpc = "select"
  /\ ri = 0
  /\ readable = {}
  /\ clearedTune = [c \in Chans |-> 0]
  /\ initTune = [c \in Chans |-> 0]

-----------------------------------------------------------------------------
(* Controller: get_ch_id driving one demodulator.                          *)

\* A round of get_ch_id tunes the demodulator to chlist[i] when get_freq
\* differs: its first tuning, the next entry once its own was identified
\* and removed, or, when the other demodulator's entry was removed and the
\* memmove shifted chlist, a new entry in the middle of its own sequence.
\* set_freq does not stop a stream start_ts started.
Tune(c) ==
  /\ cpc[c] \in {"idle", "tuned", "locked", "waitVct", "done"}
  /\ tn[c] < MaxTune
  /\ tn' = [tn EXCEPT ![c] = @ + 1]
  /\ cpc' = [cpc EXCEPT ![c] = "tuned"]
  /\ report' = [report EXCEPT ![c] = NONE]
  /\ UNCHANGED <<want_reset, atscTvch, vct, psip, polls, starts, streaming,
                 sock, rxVars>>

\* get_mse polling until (status & 0xf) == 0xf
Lock(c) ==
  /\ cpc[c] = "tuned"
  /\ cpc' = [cpc EXCEPT ![c] = "locked"]
  /\ UNCHANGED <<want_reset, atscTvch, vct, psip, tn, polls, starts, report,
                 streaming, sock, rxVars>>

\* tuner::get_mse, polled while the channel locks and, for the MSE
\* display, once it is done: one of its reads of 0x11d, register 3 or the
\* MSE registers fails, and get_ch_id returns 1.
LockFail(c) ==
  /\ cpc[c] \in {"tuned", "done"}
  /\ cpc' = [cpc EXCEPT ![c] = "failed"]
  /\ UNCHANGED <<want_reset, atscTvch, vct, psip, tn, polls, starts, report,
                 streaming, sock, rxVars>>

\* mpgts::start_ts: want_reset[ch]++
StartTs(c) ==
  /\ cpc[c] = "locked"
  /\ starts[c] < MaxStart
  /\ want_reset' = [want_reset EXCEPT ![c] = @ + 1]
  /\ starts' = [starts EXCEPT ![c] = @ + 1]
  /\ polls' = [polls EXCEPT ![c] = 0]
  /\ cpc' = [cpc EXCEPT ![c] = "waitReset"]
  /\ UNCHANGED <<atscTvch, vct, psip, tn, report, streaming, sock, rxVars>>

\* mpgts::start_ts: the want_reset poll found it cleared; set atsc[ch].tvch,
\* then tuner::start_ts sets the appliance's UDP destination.
ResetSeen(c) ==
  /\ cpc[c] = "waitReset"
  /\ want_reset[c] = 0
  /\ atscTvch' = [atscTvch EXCEPT ![c] = tn[c]]
  /\ streaming' = [streaming EXCEPT ![c] = TRUE]
  /\ cpc' = [cpc EXCEPT ![c] = "waitVct"]
  /\ UNCHANGED <<want_reset, vct, psip, tn, polls, starts, report, sock,
                 rxVars>>

\* tuner::start_ts fails after atsc[ch].tvch is set: the PID bypass frame
\* (ch # 0) or the UDP destination frame gets no good 4-byte reply.  The
\* destination frame may have reached the appliance before its reply was
\* lost, so the stream may already be on; get_ch_id returns 1.
StartTsFail(c) ==
  /\ cpc[c] = "waitReset"
  /\ want_reset[c] = 0
  /\ atscTvch' = [atscTvch EXCEPT ![c] = tn[c]]
  /\ \E on \in {streaming[c], TRUE} : streaming' = [streaming EXCEPT ![c] = on]
  /\ cpc' = [cpc EXCEPT ![c] = "failed"]
  /\ UNCHANGED <<want_reset, vct, psip, tn, polls, starts, report, sock,
                 rxVars>>

\* Mutant of ResetNotSeen: the poll loop runs for (i = 0; i <= 3; i++).
ResetNotSeenPollsFour(c) ==
  /\ cpc[c] = "waitReset"
  /\ want_reset[c] # 0
  /\ polls' = [polls EXCEPT ![c] = @ + 1]
  /\ cpc' = [cpc EXCEPT ![c] = IF polls[c] = ResetPolls THEN "failed"
                                                      ELSE "waitReset"]
  /\ UNCHANGED <<want_reset, atscTvch, vct, psip, tn, starts, report,
                 streaming, sock, rxVars>>

\* mpgts::start_ts: the poll found want_reset still set; usleep and retry,
\* or after the third check fail ("failed to signal want_reset"), which
\* makes get_ch_id and the program return 1.
ResetNotSeen(c) ==
  /\ cpc[c] = "waitReset"
  /\ want_reset[c] # 0
  /\ polls' = [polls EXCEPT ![c] = @ + 1]
  /\ cpc' = [cpc EXCEPT ![c] = IF polls[c] + 1 = ResetPolls THEN "failed"
                                                          ELSE "waitReset"]
  /\ UNCHANGED <<want_reset, atscTvch, vct, psip, tn, starts, report,
                 streaming, sock, rxVars>>

\* itm->get_vct(ch) is non-null: itm->stop_ts(ch) clears the UDP
\* destination, status |= 0x40, and the VCT text is taken as the result.
StopTs(c) ==
  /\ cpc[c] = "waitVct"
  /\ vct[c] # NONE
  /\ streaming' = [streaming EXCEPT ![c] = FALSE]
  /\ report' = [report EXCEPT ![c] = vct[c]]
  /\ cpc' = [cpc EXCEPT ![c] = "done"]
  /\ UNCHANGED <<want_reset, atscTvch, vct, psip, tn, polls, starts, sock,
                 rxVars>>

\* tuner::stop_ts gets no good reply to its frame clearing the UDP
\* destination, which may or may not have been applied; get_ch_id returns
\* 1 before it takes the VCT.
StopTsFail(c) ==
  /\ cpc[c] = "waitVct"
  /\ vct[c] # NONE
  /\ \E on \in BOOLEAN : streaming' = [streaming EXCEPT ![c] = on]
  /\ cpc' = [cpc EXCEPT ![c] = "failed"]
  /\ UNCHANGED <<want_reset, atscTvch, vct, psip, tn, polls, starts, report,
                 sock, rxVars>>

\* The 100 polls of get_ch_id ran out before a VCT arrived: status is
\* cleared, and a round that keeps the tuning (get_freq(ch) == chlist[i])
\* locks and calls start_ts again; the stream is not stopped.
GiveUp(c) ==
  /\ cpc[c] = "waitVct"
  /\ vct[c] = NONE
  /\ cpc' = [cpc EXCEPT ![c] = "tuned"]
  /\ UNCHANGED <<want_reset, atscTvch, vct, psip, tn, polls, starts, report,
                 streaming, sock, rxVars>>

-----------------------------------------------------------------------------
(* Appliance: pushes 1328-byte datagrams of the tuned stream.              *)

Emit(c) ==
  /\ streaming[c]
  /\ Len(sock[c]) < SockCap
  /\ sock' = [sock EXCEPT ![c] = Append(@, [tune |-> tn[c]])]
  /\ UNCHANGED <<want_reset, atscTvch, vct, psip, ctlVars, streaming, rxVars>>

-----------------------------------------------------------------------------
(* Receiver: mpgts::thread_main.                                           *)

\* Mutant of Wake: "if (!r) continue" placed before the want_reset loop.
WakeResetOnlyOnData ==
  /\ rpc = "select"
  /\ readable' = {c \in Chans : sock[c] # <<>>}
  /\ rpc' = IF readable' = {} THEN "select" ELSE "reset"
  /\ ri' = 0
  /\ UNCHANGED <<want_reset, atscTvch, vct, psip, ctlVars, streaming, sock,
                 clearedTune, initTune>>

\* pselect returns, on data or after the 100 ms timeout, with rfds set for
\* the sockets that have a datagram.
Wake ==
  /\ rpc = "select"
  /\ readable' = {c \in Chans : sock[c] # <<>>}
  /\ rpc' = "reset"
  /\ ri' = 0
  /\ UNCHANGED <<want_reset, atscTvch, vct, psip, ctlVars, streaming, sock,
                 clearedTune, initTune>>

\* for (i = 0; i < 2; i++) if (want_reset[i]) { want_reset[i] = 0; init }
RxReset ==
  /\ rpc = "reset"
  /\ IF ri = NumCh
       THEN /\ rpc' = IF readable = {} THEN "select" ELSE "recv"  \* if (!r) continue
            /\ ri' = 0
            /\ UNCHANGED <<want_reset, clearedTune>>
     ELSE IF want_reset[ri] # 0
       THEN /\ want_reset' = [want_reset EXCEPT ![ri] = 0]
            /\ clearedTune' = [clearedTune EXCEPT ![ri] = tn[ri]]
            /\ rpc' = "init"
            /\ UNCHANGED ri
       ELSE /\ ri' = ri + 1
            /\ UNCHANGED <<want_reset, rpc, clearedTune>>
  /\ UNCHANGED <<atscTvch, vct, psip, ctlVars, streaming, sock, readable,
                 initTune>>

\* mpgatsc::init: pktlen[] = 0, versions = 32, free(vctstr), vctstr = 0
RxInit ==
  /\ rpc = "init"
  /\ vct' = [vct EXCEPT ![ri] = NONE]
  /\ psip' = [psip EXCEPT ![ri] = {}]
  /\ initTune' = [initTune EXCEPT ![ri] = clearedTune[ri]]
  /\ rpc' = "reset"
  /\ ri' = ri + 1
  /\ UNCHANGED <<want_reset, atscTvch, ctlVars, streaming, sock, readable,
                 clearedTune>>

\* recvfrom one datagram of udp_sock[i] and hand its seven TS packets to
\* atsc[i].thread_demux: they join the PsipState and may complete a VCT
\* section, which parse_vct prints with the tvch the controller last
\* stored.  (A packet with a bad sync byte ends thread_main; that is
\* modelled in SectionReassembly.)
Demux(c, d) ==
  /\ psip' = [psip EXCEPT ![c] = @ \cup {d.tune}]
  /\ \/ UNCHANGED vct
     \/ vct' = [vct EXCEPT ![c] = [tune |-> d.tune,
                                   label |-> atscTvch[c],
                                   after |-> initTune[c]]]

RxRecv ==
  /\ rpc = "recv"
  /\ IF ri = NumCh
       THEN /\ rpc' = "select"
            /\ UNCHANGED <<sock, vct, psip, ri>>
     ELSE IF ri \in readable
       THEN /\ sock' = [sock EXCEPT ![ri] = Tail(@)]
            /\ Demux(ri, Head(sock[ri]))
            /\ ri' = ri + 1 /\ UNCHANGED rpc
       ELSE /\ ri' = ri + 1
            /\ UNCHANGED <<sock, vct, psip, rpc>>
  /\ UNCHANGED <<want_reset, atscTvch, ctlVars, streaming, readable,
                 clearedTune, initTune>>

\* thread_main returns and nothing reads the sockets or clears want_reset
\* again: pselect fails, recvfrom fails, or thread_demux meets a TS packet
\* with a bad sync byte after demultiplexing the packets before it.
\* (init's only failure, iconv_open, already succeeded in open.)
RxExit ==
  /\ \/ rpc = "select" /\ UNCHANGED <<sock, vct, psip>>
     \/ /\ rpc = "recv" /\ ri \in readable
        /\ \/ UNCHANGED <<sock, vct, psip>>
           \/ /\ sock' = [sock EXCEPT ![ri] = Tail(@)]
              /\ Demux(ri, Head(sock[ri]))
  /\ rpc' = "exited"
  /\ UNCHANGED <<want_reset, atscTvch, ctlVars, streaming, ri, readable,
                 clearedTune, initTune>>

-----------------------------------------------------------------------------

Controller(c) ==
  \/ Tune(c) \/ Lock(c) \/ LockFail(c) \/ StartTs(c) \/ ResetSeen(c)
  \/ StartTsFail(c) \/ ResetNotSeen(c) \/ StopTs(c) \/ StopTsFail(c)
  \/ GiveUp(c)

Receiver == Wake \/ RxReset \/ RxInit \/ RxRecv \/ RxExit

Next ==
  \/ \E c \in Chans : Controller(c)
  \/ \E c \in Chans : Emit(c)
  \/ Receiver

\* thread_main never blocks longer than the 100 ms pselect timeout, so
\* until it returns (RxExit, after which Receiver is disabled) it keeps
\* taking steps.
\* Returning is possible, never forced.
Fairness == WF_vars(Wake \/ RxReset \/ RxInit \/ RxRecv)

Spec == Init /\ [][Next]_vars /\ Fairness

-----------------------------------------------------------------------------
(* Properties                                                              *)

ResetConsumedWhileReceiving ==
  \A c \in Chans : (want_reset[c] # 0) ~> (want_reset[c] = 0 \/ rpc = "exited")

=============================================================================
