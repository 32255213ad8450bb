------------------------------- MODULE Transfer -------------------------------
(***************************************************************************)
(* One flow: the sender of module Sack1Tcp, a sink, and the paths between  *)
(* them.  Segments and ACKs are lost at full queues, marked by them, and   *)
(* overtake each other, since the packets of a flow are spread over        *)
(* spines.                                                                 *)
(***************************************************************************)
EXTENDS Sack1Tcp

CONSTANTS
  Faults      \* bound for each kind of sender: losses, marks, and timeouts
              \* while something is on its way

ASSUME FaultsAssumption == Faults \in [Settings -> Nat]

VARIABLES
  received,   \* the segments the sink has
  acks,       \* the bag of ACKs on their way
  faults,     \* those left
  lastCut     \* history: maxseq_ when the window was last cut

vars == <<senderVars, received, acks, faults, lastCut>>

Init ==
  /\ SenderInit
  /\ received = {}
  /\ acks = EmptyBag
  /\ faults = Faults[conf]
  /\ lastCut = -1

(* A step that may be one of the faults. *)
Faulty(isFault) ==
  /\ isFault => faults > 0
  /\ faults' = faults - (IF isFault THEN 1 ELSE 0)

Start ==
  /\ SendMsg
  /\ UNCHANGED <<received, acks, faults, lastCut>>

(* A segment reaches the sink, which answers at once: with the cumulative  *)
(* point, with blocks for all that it holds above it, and with the echo if *)
(* a queue has marked the segment.                                         *)
DeliverData(s) ==
  /\ BagIn(s, data)
  /\ data' = data (-) SetToBag({s})
  /\ received' = received \union {s}
  /\ \E seqno \in -1 .. maxseq_, ecnecho \in BOOLEAN :
       /\ 0 .. seqno \subseteq received' /\ seqno + 1 \notin received'
       /\ ecnecho => conf.ecn_
       /\ Faulty(ecnecho)
       /\ acks' = acks (+) SetToBag({[seqno |-> seqno, ecnecho |-> ecnecho,
                                     sacked |-> {r \in received' : r > seqno}]})
  /\ UNCHANGED <<curseq_, t_seqno_, maxseq_, last_ack_, highest_ack_, dupacks_, windowVars,
                 wnd_init_, fastrecov_, pipe_, sacked, retran, timeout_, rtx_timer_, closed_,
                 conf, lastCut>>

DeliverAck(ack) ==
  /\ BagIn(ack, acks)
  /\ acks' = acks (-) SetToBag({ack})
  /\ Recv(ack)
  /\ lastCut' = IF cwnd_' < cwnd_ THEN maxseq_ ELSE lastCut
  /\ UNCHANGED <<received, faults>>

DropData(s) ==
  /\ BagIn(s, data)
  /\ Faulty(TRUE)
  /\ data' = data (-) SetToBag({s})
  /\ UNCHANGED <<curseq_, t_seqno_, maxseq_, last_ack_, highest_ack_, dupacks_, windowVars,
                 wnd_init_, fastrecov_, pipe_, sacked, retran, timeout_, rtx_timer_, closed_,
                 conf, received, acks, lastCut>>

DropAck(ack) ==
  /\ BagIn(ack, acks)
  /\ Faulty(TRUE)
  /\ acks' = acks (-) SetToBag({ack})
  /\ UNCHANGED <<senderVars, received, lastCut>>

Quiet == data = EmptyBag /\ acks = EmptyBag

RtxTimeout ==
  /\ Timeout
  /\ Faulty(~ Quiet)
  /\ lastCut' = maxseq_
  /\ UNCHANGED <<received, acks>>

Next ==
  \/ Start
  \/ \E s \in BagToSet(data) : DeliverData(s) \/ DropData(s)
  \/ \E ack \in BagToSet(acks) : DeliverAck(ack) \/ DropAck(ack)
  \/ RtxTimeout

(* The simulator runs as long as an event is pending.                      *)
Spec == Init /\ [][Next]_vars /\ WF_vars(Next)

-------------------------------------------------------------------------------
(* Properties.                                                             *)

TypeOK ==
  /\ SenderTypeOK
  /\ received \subseteq 0 .. maxseq_
  /\ faults \in Nat /\ lastCut \in -1 .. maxseq_

(* The ACK points never go back, whichever ACK arrives last and whatever   *)
(* it does to a recovery (recv, newack, timeout).                          *)
AckPointAdvances ==
  [][highest_ack_' >= highest_ack_ /\ last_ack_' >= last_ack_]_vars

(* For a segment that is in the bag after the step.                        *)
Sent(s) == BagIn(s, data) => data'[s] > data[s]

(* A recovery sends only what is missing: nothing that an ACK has covered  *)
(* or reported, and nothing twice (GetNextRetran, MarkRetran).  A sender   *)
(* that answers marks can begin a recovery while it is still behind after  *)
(* a timeout, and then sends again what a partial ACK has covered.         *)
RecoverySendsOnlyMissing ==
  [][fastrecov_ /\ fastrecov_' /\ ~ conf.ecn_ =>
       \A s \in BagToSet(data') :
         Sent(s) => s > highest_ack_' /\ s \notin sacked' \union retran]_vars

(* The window is cut once for the segments outstanding at the last cut,    *)
(* unless the timer expires (dupack_action: bug_fix_ "avoids problems with *)
(* multiple fast retransmits in one window"; ecn: "at most once a          *)
(* roundtrip time").  The code lets a mark cut after a timeout, and a DCTCP *)
(* sender cut for a mark and again for a loss.                             *)
OneCutPerWindow ==
  [][~ conf.dctcp_ /\ cwnd_' < cwnd_ /\ last_cwnd_action_' # "timeout" =>
       \/ highest_ack_' >= lastCut
       \/ conf.ecn_ /\ last_cwnd_action_ = "timeout"]_vars

(* When the sender says the flow is done, the sink has all of it.          *)
ClosedIsDelivered == closed_ => 0 .. curseq_ - 1 \subseteq received

(* Every flow ends: after the last loss the sender neither stalls nor goes *)
(* round in circles (send_much, timeout, newtimer).                        *)
Delivered == <> closed_

(* A recovery ends with an ACK of something new, or with a timeout (recv:  *)
(* "ACK indicates fast recovery is over").                                 *)
RecoveryEndsWithNewAck ==
  [][fastrecov_ /\ ~ fastrecov_' /\ ~ timeout_' => last_ack_' > last_ack_]_vars
===============================================================================
