-------------------------- MODULE MCControlChannel --------------------------
EXTENDS ControlChannel

\* Four calls: enough for a failed call, a late reply and two calls after it.
MCMaxReq == 4

\* The calls scan's fail: path (set_demod8 of 0x12a) and close after a
\* failed get_ch_id (set_gpio through set_antenna(nc)) make after a failure.
MCAfterFailWrites == {"w"}

==============================================================================
