------------------------------ MODULE Connection ------------------------------
(***************************************************************************)
(* One flow from end to end: the sender of module Sack1Tcp, the sink of    *)
(* module TcpSink with its receive buffer, its few SACK blocks and its     *)
(* delayed ACKs, and a network between them that loses and reorders.       *)
(* Module Transfer has the same sender before a sink that tells all it     *)
(* holds at once; here the news can be late, partial, or held by a timer.  *)
(***************************************************************************)
EXTENDS Sack1Tcp, TcpSink

CONSTANT
  Faults      \* bound for each kind of sender: losses, and timeouts while
              \* something is pending

(* A segment of a sender that does not answer marks.                       *)
Segment(s) ==
  [seqno |-> s, ect |-> FALSE, ce |-> FALSE, cong_action |-> FALSE, ecnecho |-> FALSE]

ASSUME ConnectionAssumption ==
  /\ Faults \in [Settings -> Nat]
  /\ \A s \in Settings : ~ s.ecn_ /\ 0 .. s.size \subseteq Seqs
  /\ \A s \in SinkSettings :
       ~ s.generate_dsacks_ /\ {Segment(seq) : seq \in Seqs} \subseteq s.input

VARIABLES
  acks,       \* the bag of ACKs on their way
  faults      \* those left

vars == <<senderVars, sinkVars, acks, faults>>

Init ==
  /\ SenderInit
  /\ SinkInit
  /\ acks = EmptyBag
  /\ faults = Faults[conf]

(* A step that may be one of the faults. *)
Faulty(isFault) ==
  /\ isFault => faults > 0
  /\ faults' = faults - (IF isFault THEN 1 ELSE 0)

-------------------------------------------------------------------------------
(* The sender.                                                             *)

Start == SendMsg /\ UNCHANGED <<sinkVars, acks, faults>>

DeliverAck(ack) ==
  /\ BagIn(ack, acks)
  /\ acks' = acks (-) SetToBag({ack})
  /\ Recv(ack)
  /\ UNCHANGED <<sinkVars, faults>>

(* Nothing will happen at the sender unless its timer expires. *)
Quiet == data = EmptyBag /\ acks = EmptyBag /\ ~ timer

RtxTimeout ==
  /\ Timeout
  /\ Faulty(~ Quiet)
  /\ UNCHANGED <<sinkVars, acks>>

-------------------------------------------------------------------------------
(* The sink.                                                               *)

(* Of a segment that leaves the network the sender keeps no trace.         *)
Leaves(s) ==
  /\ BagIn(s, data)
  /\ data' = data (-) SetToBag({s})
  /\ UNCHANGED <<curseq_, t_seqno_, maxseq_, last_ack_, highest_ack_, dupacks_, windowVars,
                 wnd_init_, fastrecov_, pipe_, sacked, retran, timeout_, rtx_timer_, closed_,
                 conf>>

(* What the sender reads of the sink's last ACK. *)
OnTheWire ==
  [seqno |-> ackpkt.seqno, ecnecho |-> ackpkt.ecnecho,
   sacked |-> UNION {Segments(ackpkt.blocks[i]) : i \in DOMAIN ackpkt.blocks}]

(* A segment is held, with the timer running, or answered at once.         *)
DeliverData(s) ==
  /\ Leaves(s)
  /\ SinkRecv(Segment(s))
  /\ acks' = IF timer' THEN acks ELSE acks (+) SetToBag({OnTheWire'})
  /\ UNCHANGED faults

(* Mutant: the timer frees the held segment and sends nothing.             *)
SilentTimeout == SinkTimeout /\ UNCHANGED <<senderVars, acks, faults>>

(* The delayed-ACK timer expires.                                          *)
DelAckTimeout ==
  /\ SinkTimeout
  /\ acks' = IF save_ = None THEN acks ELSE acks (+) SetToBag({OnTheWire'})
  /\ UNCHANGED <<senderVars, faults>>

-------------------------------------------------------------------------------
(* The network.                                                            *)

DropData(s) ==
  /\ Leaves(s)
  /\ Faulty(TRUE)
  /\ UNCHANGED <<sinkVars, acks>>

DropAck(ack) ==
  /\ BagIn(ack, acks)
  /\ Faulty(TRUE)
  /\ acks' = acks (-) SetToBag({ack})
  /\ UNCHANGED <<senderVars, sinkVars>>

(* The flow opens once: neither end is reset, and the script changes       *)
(* nothing.                                                                *)
Next ==
  \/ Start
  \/ \E s \in BagToSet(data) : DeliverData(s) \/ DropData(s)
  \/ \E ack \in BagToSet(acks) : DeliverAck(ack) \/ DropAck(ack)
  \/ DelAckTimeout
  \/ RtxTimeout

(* The simulator runs as long as an event is pending.                      *)
Spec == Init /\ [][Next]_vars /\ WF_vars(Next)

-------------------------------------------------------------------------------
(* Properties.                                                             *)

(* What the sender believes of the sink is true, however old the ACK it    *)
(* has it from and however few blocks that had room for: each segment it   *)
(* counts as acknowledged or has on its scoreboard has been received, so   *)
(* that a hole it never sends again is none (UpdateScoreBoard on the       *)
(* blocks of append_ack).                                                  *)
SenderKnowsTheTruth == 0 .. highest_ack_ \union sacked \subseteq Received

(* The connection keeps the promise of module Stream: in particular        *)
(* neither a held ACK, whose timer waits for a segment while the sender    *)
(* waits for an ACK, nor a block that had no room stalls the flow          *)
(* (DelAckSink::recv, append_ack, send_much, timeout).                     *)
Promise == INSTANCE Stream WITH
  submitted <- curseq_, delivered <- next_, acked <- highest_ack_ + 1, closed <- closed_

KeepsItsPromise == Promise!Spec
===============================================================================
