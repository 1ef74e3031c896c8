------------------------------- MODULE MCMpgts -------------------------------
(* Model-checking instance of Mpgts: one demodulator (the rendezvous is    *)
(* per channel; the second adds only interleavings of independent state),  *)
(* three tunings and three start_ts calls, two datagrams queued per socket *)
(* so a stale datagram can still be queued when the next tuning starts.    *)
EXTENDS Mpgts

MCNumCh == 1
MCMaxTune == 3
MCMaxStart == 3
MCSockCap == 2
=============================================================================
