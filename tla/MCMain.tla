-------------------------------- MODULE MCMain --------------------------------
(* Model-checking instance of Main.                                        *)
EXTENDS Main

CONSTANTS a, b, c, x, e0, e1, e2, t1

\* do_item's channels, as in every tuner's scan: each may be detected at
\* any poll or time out, x is strong but never yields a VCT.  Detection times reorder
\* strongch, so get_ch_id sees rounds that identify two channels at once
\* and rounds that move past x.
MCScanList == <<a, a, b, x, c>>
MCStrong == {a, b, c, x}
MCDead == {x}

\* Three interfaces: e0 has a routed address, e1 and e2 are link-local.
\* The tuner answers on e1 (its reply may be lost or duplicated); on e2
\* nothing answers but a stray datagram may arrive, after e1's tuners were
\* already listed.
MCIfs == <<e0, e1, e2>>
MCLinkLocal == {e1, e2}
MCLink == (e0 :> {}) @@ (e1 :> {t1}) @@ (e2 :> {})
MCStrayLinks == {e2}
==============================================================================
