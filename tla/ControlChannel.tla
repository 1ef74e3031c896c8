--------------------------- MODULE ControlChannel ---------------------------
(***************************************************************************)
(* The control transport of src/socket.cpp: socket::write_then_read over  *)
(* the TCP connection to the appliance, one call at a time.               *)
(*                                                                         *)
(* The host sends a request frame (socket::write), waits up to 400 ms in   *)
(* pselect for the socket to become readable, reads one whole frame        *)
(* (socket::read: 4 header bytes, then the length they give plus the CRC)  *)
(* and hands it back; the caller (set_gpio, get_demod8, ...) checks the    *)
(* length.  Nothing matches a reply to its request: the stream is taken   *)
(* to be in step.                                                         *)
(*                                                                         *)
(* The appliance answers requests in order, with the normal reply or one   *)
(* of another length (a fault), or not at all.  TCP delivers the replies   *)
(* in order, a frame at once or its first bytes before the rest.  A frame  *)
(* is abstracted to the number of the request it answers and its body     *)
(* length.                                                                 *)
(***************************************************************************)
EXTENDS Naturals, Sequences

CONSTANTS
  MaxReq,     \* bound: requests per run of the program
  AfterFail,  \* kinds of call the program still makes once a call has failed
  AllowSplit, \* a reply's first bytes may arrive before the rest
  AllowDrop,  \* the appliance may leave a request unanswered
  FAIL        \* model value: write_then_read or its caller returned an error

\* The kinds of call: a register write (set_gpio, set_demod8, the PLL write
\* of set_freq, start_ts, stop_ts), get_demod8, and get_demodN of 8 bytes
\* (get_mse).
Kinds == {"w", "r1", "r8"}

\* The body length of the appliance's normal reply to each kind.
Body == [w |-> 0, r1 |-> 1, r8 |-> 8]
BodyLens == {Body[k] : k \in Kinds}

ASSUME MaxReq \in Nat /\ AfterFail \subseteq Kinds
ASSUME AllowSplit \in BOOLEAN /\ AllowDrop \in BOOLEAN

VARIABLES
  pc,       \* the caller: "idle", "wait" (in write_then_read) or "ended"
  cur,      \* the call in progress: [id, kind]
  nreq,     \* requests sent so far
  failed,   \* a call of this run has failed
  toDev,    \* requests in the TCP stream to the appliance
  wire,     \* replies the appliance sent that have not reached the host
  rx,       \* whole reply frames in the host's socket buffer
  part,     \* the first (fewer than 4) bytes of Head(wire) have arrived
  ret       \* what the last call returned: the id of the reply it took, or FAIL

vars == <<pc, cur, nreq, failed, toDev, wire, rx, part, ret>>

Frame == [id : 1..MaxReq, len : BodyLens]

TypeOK ==
  /\ pc \in {"idle", "wait", "ended"}
  /\ cur \in [id : 0..MaxReq, kind : Kinds]
  /\ nreq \in 0..MaxReq
  /\ failed \in BOOLEAN
  /\ toDev \in Seq(1..MaxReq)
  /\ wire \in Seq(Frame) /\ rx \in Seq(Frame)
  /\ part \in BOOLEAN
  /\ ret \in 1..MaxReq \cup {FAIL}

Init ==
  /\ pc = "idle"
  /\ cur = [id |-> 0, kind |-> "w"]
  /\ nreq = 0
  /\ failed = FALSE
  /\ toDev = <<>> /\ wire = <<>> /\ rx = <<>>
  /\ part = FALSE
  /\ ret = FAIL

-----------------------------------------------------------------------------
(* The host.                                                               *)

\* The length a caller accepts: n == *rxlen after write_then_read, which is
\* the reply's body length + 4 (set_*: n != 4, get_demod8: n != 1 + 4,
\* get_demodN: n != 4 + len).
Expect(k) == Body[k] + 4

\* A call ends with result r: the caller returns; once a call has failed
\* the program only goes on with the calls of AfterFail, and ends at once
\* when there are none.
Finish(r) ==
  /\ ret' = r
  /\ failed' = (failed \/ r = FAIL)
  /\ pc' = IF (failed \/ r = FAIL) /\ AfterFail = {} THEN "ended" ELSE "idle"

\* socket::write: pkt_add_crc fills in the header and CRC, and the whole
\* frame is written to the TCP socket.
Issue ==
  /\ pc = "idle"
  /\ nreq < MaxReq
  /\ \E k \in IF failed THEN AfterFail ELSE Kinds :
       cur' = [id |-> nreq + 1, kind |-> k]
  /\ nreq' = nreq + 1
  /\ toDev' = Append(toDev, nreq + 1)
  /\ pc' = "wait"
  /\ UNCHANGED <<failed, wire, rx, part, ret>>

\* The socket is readable for pselect when any byte has arrived.
Readable == rx # <<>> \/ part

\* Mutant of Timeout: a request that timed out is sent again and waited
\* for once more.
TimeoutResend ==
  /\ pc = "wait"
  /\ ~Readable
  /\ Len(toDev) + Len(wire) < 2
  /\ toDev' = Append(toDev, cur.id)
  /\ UNCHANGED <<pc, cur, nreq, failed, wire, rx, part, ret>>

\* Mutant of Timeout: pselect is given no timeout and waits for the
\* socket to become readable however long that takes.
TimeoutNever ==
  /\ pc = "wait"
  /\ ~Readable
  /\ UNCHANGED vars

\* The pselect loop: 400 ms pass with nothing to read ("pselect timed
\* out") and write_then_read returns 0.
Timeout ==
  /\ pc = "wait"
  /\ ~Readable
  /\ Finish(FAIL)
  /\ UNCHANGED <<cur, nreq, toDev, wire, rx, part>>

\* socket::read on a readable socket: FIONREAD below 4 ("not enough bytes
\* received") reads nothing and sets *pktlen = 0, which write_then_read
\* reports as "read returned 0"; otherwise it reads one whole frame,
\* blocking until its body and CRC are in, and its *pktlen is the body
\* length + 4.
ReadResult ==
  IF rx = <<>> THEN [took |-> FALSE, n |-> 0]
  ELSE [took |-> TRUE, n |-> Head(rx).len + 4, id |-> Head(rx).id]

\* write_then_read after pselect reports the socket readable: socket::read,
\* then the checks on n (0, below 4) and on the response type 0x0d (every
\* appliance reply has it); the caller then compares n with the length
\* its request expects and returns 1 on a mismatch ("fault").
Read ==
  /\ pc = "wait"
  /\ Readable
  /\ LET r == ReadResult IN
     /\ rx' = IF r.took THEN Tail(rx) ELSE rx
     /\ Finish(IF r.took /\ r.n = Expect(cur.kind) THEN r.id ELSE FAIL)
  /\ UNCHANGED <<cur, nreq, toDev, wire, part>>

\* The program returns after its last call.
End ==
  /\ pc = "idle"
  /\ pc' = "ended"
  /\ UNCHANGED <<cur, nreq, failed, toDev, wire, rx, part, ret>>

-----------------------------------------------------------------------------
(* The appliance and the TCP stream.                                       *)

\* The appliance takes the next request and replies with the normal body
\* for its kind or a fault of another length, or (AllowDrop) not at all.
Serve ==
  /\ toDev # <<>>
  /\ \/ \E len \in BodyLens : wire' = Append(wire, [id |-> Head(toDev), len |-> len])
     \/ AllowDrop /\ UNCHANGED wire
  /\ toDev' = Tail(toDev)
  /\ UNCHANGED <<pc, cur, nreq, failed, rx, part, ret>>

\* The next reply reaches the host's socket, whole or (AllowSplit) its
\* first bytes only.
Arrive ==
  /\ wire # <<>>
  /\ \/ /\ rx' = Append(rx, Head(wire))
        /\ wire' = Tail(wire)
        /\ part' = FALSE
     \/ /\ AllowSplit /\ ~part
        /\ part' = TRUE
        /\ UNCHANGED <<rx, wire>>
  /\ UNCHANGED <<pc, cur, nreq, failed, toDev, ret>>

Host == Issue \/ Timeout \/ Read \/ End
Next == Host \/ Serve \/ Arrive

\* The appliance serves every request it has and TCP delivers what was
\* sent; write_then_read's loop ends within 400 ms, by a read or by the
\* timeout.
Fairness ==
  /\ WF_vars(Serve) /\ WF_vars(Arrive)
  /\ WF_vars(Timeout \/ Read)

Spec == Init /\ [][Next]_vars /\ Fairness

-----------------------------------------------------------------------------
(* Properties                                                              *)

\* The transport as the spec describes it: every call returns the reply to
\* its own request or fails, and a call in progress eventually returns.
RR == INSTANCE RequestReply WITH apc <- pc, areq <- nreq, aret <- ret

\* The code implements RequestReply: no call takes a reply that answers
\* another request, even when a reply is late, split or missing.
ImplementsRequestReply == RR!ASpec

\* Until some call of the run has failed, every call that returns a reply
\* returns the reply to its own request: the appliance answers in order,
\* TCP keeps the order, and each write_then_read reads exactly one frame,
\* so only a failed call (a timeout, a short read, a fault) can leave a
\* reply in the stream for the next call to take.
InStepUntilFailure ==
  pc # "wait" /\ ret # FAIL /\ ~failed => ret = cur.id

\* Every write_then_read returns, whether or not the appliance answers:
\* the pselect loop gives up after 400 ms.
CallsReturn == pc = "wait" ~> pc # "wait"

==============================================================================
