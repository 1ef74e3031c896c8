----------------------------- MODULE MCTunerAmp -----------------------------
(* Model-checking instance of TunerAmp's calls together with Scan.         *)
EXTENDS Scan

\* tvch arguments: 1 is rejected, 2 is VHF low, 13 is the last VHF channel,
\* 50 makes set_freq read past ch_freq, -1 turns a channel off.
MCTvInputs == {1, 2, 13, 50, NoTv}

\* What a read past ch_freq may return: one value per band and one out of
\* range.
MCGarbageFreqs == {100, 300, 600, 900}

\* Power-on GPIO word with reserved bits 0x8010 set and amps off.
MCPowerOnGpio == 32784

\* A roof antenna (ant1) receiving one station, an indoor one (ant2)
\* receiving none, and cable (coax) with three carriers: scan falls back
\* twice and stops on coax.
MCCarriers == [a \in Antennas |->
                 CASE a = ant1 -> {69}
                   [] a = ant2 -> {}
                   [] OTHER    -> {189, 479, 600}]

\* do_item scans with the default cr_ms of 20 (set_freq resets the
\* demodulator) and again with 80 (no reset).
MCCrMsArgs == {20, 80}

\* Cable with a carrier on every frequency below 862 MHz.
MCCableEverywhere == [a \in Antennas |->
                        CASE a = ant1 -> {69}
                          [] a = ant2 -> {}
                          [] OTHER    -> 0..861]
==============================================================================
