------------------------------ MODULE Discovery ------------------------------
(***************************************************************************)
(* socket::find (src/socket.cpp) with foreach_if (src/iface.cpp): walk the *)
(* host's IPv4 interfaces in getifaddrs order; on each with a 169.254/16   *)
(* address and a /16 mask, broadcast one discover request and read replies *)
(* until none comes for 50 ms, adding a tuner to the list for every reply  *)
(* of 22 bytes.  Any failed call, and any reply that fails the CRC or      *)
(* length checks, ends the whole walk: find then frees the list and        *)
(* returns none.                                                           *)
(*                                                                         *)
(* The network is a bag of datagrams per broadcast: each tuner on the link *)
(* answers, and its reply may be lost (or come after the 50 ms), or be     *)
(* duplicated.  On a link of StrayLinks a datagram the checks reject may   *)
(* arrive too (a bad CRC, or another device's reply of another length).    *)
(***************************************************************************)
EXTENDS Naturals, Sequences, Bags, BagsExt

CONSTANTS
  Ifs,        \* the interfaces with an IPv4 address, in getifaddrs order
  LinkLocal,  \* those with a 169.254/16 address and netmask 255.255.0.0
  Tuners,     \* the appliances
  Link,       \* Link[i]: the tuners that answer a broadcast on interface i
  StrayLinks, \* interfaces where a datagram the checks reject may arrive
  Junk,       \* model value: such a datagram
  MaxCopies,  \* bound: copies of one reply the network delivers
  ListChunk   \* list_max grows by this many entries (8 in the code)

IfSet == {Ifs[n] : n \in 1..Len(Ifs)}

ASSUME /\ LinkLocal \subseteq IfSet /\ StrayLinks \subseteq LinkLocal
       /\ Link \in [IfSet -> SUBSET Tuners] /\ Junk \notin Tuners
       /\ MaxCopies \in Nat /\ ListChunk \in Nat \ {0}

VARIABLES
  dpc,        \* "start", "if" (foreach_if at interface ifIdx + 1), "recv"
              \* (tunerfind2 reading replies), "found" (find returned a
              \* list), "failed" (find returned none)
  ifIdx,      \* interfaces foreach_if has finished with
  ifaceFound, \* list.iface_found
  inflight,   \* the datagrams waiting for the interface's socket
  list,       \* list.list[0 .. list_use - 1]: the tuner of each entry
  listMax     \* list.list_max

dvars == <<dpc, ifIdx, ifaceFound, inflight, list, listMax>>

DTypeOK ==
  /\ dpc \in {"start", "if", "recv", "found", "failed"}
  /\ ifIdx \in 0..Len(Ifs) /\ ifaceFound \in 0..Len(Ifs)
  /\ IsABag(inflight) /\ BagToSet(inflight) \subseteq Tuners \cup {Junk}
  /\ list \in Seq(Tuners) /\ listMax \in Nat

FindInit ==
  /\ dpc = "start" /\ ifIdx = 0 /\ ifaceFound = 0
  /\ inflight = EmptyBag /\ list = <<>> /\ listMax = 0

\* Mutant of FindFails: find returns the list built so far, as if the
\* if (r) block that frees it were missing.
FindFailsKeepsList ==
  /\ dpc' = "found"
  /\ UNCHANGED <<ifIdx, ifaceFound, inflight, listMax, list>>

\* find returns no list: a failed call of find itself, or foreach_if
\* returning 1 (free(list.list); list_use = 0).
FindFails ==
  /\ dpc' = "failed"
  /\ UNCHANGED <<ifIdx, ifaceFound, inflight, listMax>>
  /\ list' = <<>>

\* malloc of 8 entries and the kernel socket (either may fail), then
\* getifaddrs (may fail).
FindStart ==
  /\ dpc = "start"
  /\ \/ dpc' = "if" /\ listMax' = ListChunk
        /\ UNCHANGED <<ifIdx, ifaceFound, inflight, list>>
     \/ FindFails

\* The callback on an interface that is not link-local returns 0.
SkipIf ==
  /\ dpc = "if" /\ ifIdx < Len(Ifs) /\ Ifs[ifIdx + 1] \notin LinkLocal
  /\ ifIdx' = ifIdx + 1
  /\ UNCHANGED <<dpc, ifaceFound, inflight, list, listMax>>

\* The bags of replies one broadcast on interface i can produce.
Replies(i) ==
  { [x \in {t \in Link[i] : n[t] > 0} \cup (IF junk THEN {Junk} ELSE {}) |->
       IF x = Junk THEN 1 ELSE n[x]] :
      n \in [Link[i] -> 0..MaxCopies],
      junk \in IF i \in StrayLinks THEN BOOLEAN ELSE {FALSE} }

\* A link-local interface: iface_found++, get_hw_addr, socket, udp_bind
\* and the broadcast of the discover request (any may fail, returning 1;
\* the count no longer matters then).
Broadcast ==
  /\ dpc = "if" /\ ifIdx < Len(Ifs) /\ Ifs[ifIdx + 1] \in LinkLocal
  /\ \/ /\ dpc' = "recv" /\ ifaceFound' = ifaceFound + 1
        /\ inflight' \in Replies(Ifs[ifIdx + 1])
        /\ UNCHANGED <<ifIdx, list, listMax>>
     \/ FindFails

\* Mutant of RecvTimeout: if (!rxlen) continue, for return 0.
RecvTimeoutLoops ==
  /\ dpc = "recv" /\ inflight = EmptyBag
  /\ UNCHANGED dvars \/ FindFails

\* udp_pkt_recv with nothing left within 50 ms: rxlen = 0 and tunerfind2
\* returns 0; the replies that come later are never read.  pselect may
\* also fail.
RecvTimeout ==
  /\ dpc = "recv" /\ inflight = EmptyBag
  /\ \/ dpc' = "if" /\ ifIdx' = ifIdx + 1
        /\ UNCHANGED <<ifaceFound, inflight, list, listMax>>
     \/ FindFails

\* Mutant of RecvReply: the list grows only once list_use > list_max.
GrowLate(n, m) == IF n > m THEN m + ListChunk ELSE m

\* if (list_use >= list_max) realloc to list_max += 8 entries.
Grow(n, m) == IF n >= m THEN m + ListChunk ELSE m

\* A datagram: recvfrom may fail, and one that fails the CRC or length
\* check, or is not 22 bytes, returns 1; a tuner's reply is constructed at
\* list[list_use++] after the realloc (which may fail).
RecvReply ==
  /\ dpc = "recv"
  /\ \E m \in BagToSet(inflight) :
       \/ /\ m # Junk
          /\ inflight' = BagRemove(inflight, m)
          /\ listMax' = Grow(Len(list), listMax)
          /\ list' = Append(list, m)
          /\ UNCHANGED <<dpc, ifIdx, ifaceFound>>
       \/ FindFails

\* foreach_if returned 0: with no link-local interface find fails, else it
\* returns the list.
FindEnd ==
  /\ dpc = "if" /\ ifIdx = Len(Ifs)
  /\ IF ifaceFound = 0 THEN FindFails
     ELSE dpc' = "found" /\ UNCHANGED <<ifIdx, ifaceFound, inflight, list, listMax>>

FindNext == FindStart \/ SkipIf \/ Broadcast \/ RecvTimeout \/ RecvReply \/ FindEnd

==============================================================================
