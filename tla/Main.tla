-------------------------------- MODULE Main --------------------------------
(***************************************************************************)
(* main (src/main.cpp): socket::find, then do_item on every tuner found,   *)
(* in list order, returning 1 at the first that fails.  Discovery models   *)
(* find; GetChId models do_item from its strong-channel probe on, started  *)
(* afresh for every tuner (each do_item opens and scans its own tuner).    *)
(* The arguments are taken as parsed: -a selects the antenna that TunerAmp *)
(* and Scan model, not anything this composition reads.                    *)
(***************************************************************************)
EXTENDS GetChId, Discovery

VARIABLES
  mpc,    \* "find" (in socket::find), "item" (in do_item) or "ret"
  mi,     \* i of main's loop over the list
  mres    \* main's return value, once mpc = "ret"

mainVars == <<mpc, mi, mres>>
allVars == <<vars, dvars, mainVars>>

MainTypeOK ==
  /\ TypeOK /\ DTypeOK
  /\ mpc \in {"find", "item", "ret"} /\ mi \in Nat /\ mres \in {0, 1}

\* Before do_item runs, no demodulator is tuned or locked for it.
MainInit ==
  /\ FindInit /\ Init
  /\ freq = [d \in Dm |-> NoCh] /\ carrier = [d \in Dm |-> FALSE]
  /\ mpc = "find" /\ mi = 0 /\ mres = 0

\* A step of socket::find.
FindStep ==
  /\ mpc = "find" /\ FindNext
  /\ UNCHANGED <<vars, mainVars>>

\* do_item(i, &list[i], selected_antenna) begins: its open, set_antenna
\* and two scans leave the demodulators on some channels, locked or not,
\* and the probe starts on the channels the first scan found.
DoItemStart ==
  /\ pc' = IF ScanList = <<>> THEN "finish" ELSE "probe"
  /\ idx' = 0 /\ strongch' = <<>>
  /\ pending' = [d \in Dm |-> FALSE] /\ elapsed' = [d \in Dm |-> 0]
  /\ k' = 0 /\ j' = 0 /\ last' = FALSE /\ go' = TRUE /\ chlist' = <<>>
  /\ freq' \in [Dm -> Chans \cup {NoCh}] /\ carrier' \in [Dm -> BOOLEAN]
  /\ status' = [d \in Dm |-> Cleared] /\ streaming' = [d \in Dm |-> FALSE]
  /\ found' = <<>> /\ res' = 0

\* find returned: no list (find failed) or an empty one returns 1; else
\* do_item on the first tuner.
MainStart ==
  /\ mpc = "find" /\ dpc \in {"found", "failed"}
  /\ IF dpc = "failed" \/ list = <<>>
       THEN mpc' = "ret" /\ mres' = 1 /\ UNCHANGED <<vars, mi>>
       ELSE mpc' = "item" /\ mi' = 0 /\ DoItemStart /\ UNCHANGED mres
  /\ UNCHANGED dvars

\* A step of do_item on list[mi].
ItemStep(A) == mpc = "item" /\ A /\ UNCHANGED <<dvars, mainVars>>

\* do_item returned: 1 ends main with 1; else the next tuner, or return 0
\* after the last.
ItemEnd ==
  /\ mpc = "item" /\ pc = "ret"
  /\ IF res = 1
       THEN mpc' = "ret" /\ mres' = 1 /\ UNCHANGED <<vars, mi>>
     ELSE IF mi + 1 < Len(list)
       THEN mi' = mi + 1 /\ DoItemStart /\ UNCHANGED <<mpc, mres>>
     ELSE mpc' = "ret" /\ mres' = 0 /\ UNCHANGED <<vars, mi>>
  /\ UNCHANGED dvars

MainNext == FindStep \/ MainStart \/ ItemStep(Next) \/ ItemEnd

\* main is a sequential program: a step that can succeed is eventually
\* taken (the network delivers or stays silent for 50 ms), without
\* assuming that any call fails, and a datagram waiting is read, whatever
\* the checks then make of it.  Within do_item, GetChId's fairness.
MainFairness ==
  /\ WF_allVars(FindStep /\ dpc' # "failed")
  /\ WF_allVars(mpc = "find" /\ RecvReply /\ UNCHANGED <<vars, mainVars>>)
  /\ WF_allVars(MainStart) /\ WF_allVars(ItemEnd)
  /\ WF_allVars(ItemStep(ProbeFree \/ Finish \/ \E s \in BOOLEAN : ProbePoll(s)
                         \/ Tune \/ PollTop \/ Collect
                         \/ \E d \in Dm : PollMse(d) \/ ShowMse(d)
                         \/ \E v \in BOOLEAN : StartPoll(d, v)))
  /\ \A d \in Dm : WF_allVars(ItemStep(LockUp(d)))
  /\ \A d \in Dm : SF_allVars(ItemStep(StartPoll(d, TRUE) /\ status'[d].done))

MainSpec == MainInit /\ [][MainNext]_allVars /\ MainFairness

-----------------------------------------------------------------------------
(* Properties of find and main                                            *)

\* do_item runs only on a list that find completed: every interface was
\* walked and every link-local one broadcast on and read until silent,
\* and every entry is a tuner on one of their links.  A failure part-way
\* (a stray datagram on a later link, a failed call) yields no list, not
\* the tuners found before it.
FindAllOrNothing ==
  mpc = "item" =>
    /\ ifIdx = Len(Ifs) /\ ifaceFound = Cardinality(LinkLocal)
    /\ \A n \in 1..Len(list) : \E i \in LinkLocal : list[n] \in Link[i]

\* The list is never written past the entries malloc and realloc gave it,
\* however many replies (duplicates included) a broadcast brings.
ListWithinCapacity == Len(list) <= listMax

\* find returns: each interface's reading ends when the replies stop.
DiscoveryEnds == <>(mpc # "find")

==============================================================================
