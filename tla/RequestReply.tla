---------------------------- MODULE RequestReply ----------------------------
(***************************************************************************)
(* What the control transport promises its callers (spec, "Appliance      *)
(* transport"): calls are made one at a time; each returns the reply to    *)
(* its own request or fails, and a failure is local to that call, so the   *)
(* endpoint stays usable and the caller may go on or stop.                 *)
(***************************************************************************)
EXTENDS Naturals

CONSTANTS
  MaxReq,   \* bound: requests per run of the program
  FAIL      \* model value: the call returned an error

VARIABLES
  apc,      \* "idle", "wait" (a call is in progress) or "ended"
  areq,     \* number of the current (last) request
  aret      \* what the last call returned: its request's number, or FAIL

avars == <<apc, areq, aret>>

AInit ==
  /\ apc = "idle"
  /\ areq = 0
  /\ aret = FAIL

Call ==
  /\ apc = "idle"
  /\ areq < MaxReq
  /\ areq' = areq + 1
  /\ apc' = "wait"
  /\ UNCHANGED aret

\* The call returns the reply to its own request, or fails.
Return ==
  /\ apc = "wait"
  /\ \/ aret' = areq /\ apc' = "idle"
     \/ aret' = FAIL /\ apc' \in {"idle", "ended"}
  /\ UNCHANGED areq

Stop ==
  /\ apc = "idle"
  /\ apc' = "ended"
  /\ UNCHANGED <<areq, aret>>

ANext == Call \/ Return \/ Stop

\* A call in progress returns.
ASpec == AInit /\ [][ANext]_avars /\ WF_avars(Return)

==============================================================================
