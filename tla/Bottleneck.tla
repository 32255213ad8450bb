------------------------------ MODULE Bottleneck ------------------------------
(***************************************************************************)
(* A flow whose last link is congested: the sender of module Sack1Tcp with *)
(* its clock (RttEstimator) and its memory of marks (Dctcp), the RED queue *)
(* of the link that reaches the receiver's host (RedQueue), the packets of *)
(* other flows that cross that queue, and the sink's echo of the marks.    *)
(*                                                                         *)
(* Segments come to the queue in any order, since the spines before it are *)
(* sprayed over; ACKs come back in order and are not lost.                 *)
(***************************************************************************)
EXTENDS Sack1Tcp, RttEstimator, Dctcp, RedQueue

CONSTANTS
  Samples,      \* round trip times, in ticks
  Cases         \* the cases to consider

(* sender: its settings; flowBender_; samples: the round trip times of the *)
(* flow; queue: the settings of the queue; others: bound of the packets of *)
(* other flows; timeouts: bound of the timeouts while something is on its  *)
(* way; checks: bound of the expiries of FlowBender's timer.               *)
AllCases ==
  [sender : Settings, flowBender_ : BOOLEAN, samples : SUBSET Samples, queue : QueueSettings,
   others : Nat, timeouts : Nat, checks : Nat]

ASSUME CasesAssumption == Samples \subseteq Nat /\ Cases \subseteq AllCases

VARIABLES
  case,         \* never changes
  rtt, dctcp,   \* the records of RttEstimator and Dctcp
  cong_action_, \* the next segment says that the window has been cut
  cwr,          \* the bag of those of data that say so
  received, ecn_unacked_,  \* of the sink
  acks,         \* the sequence of ACKs on their way
  left,         \* what is left of the bounds of the case
  alphaSince,   \* history: maxseq_ at the last update of alpha, 0 while behind
  behind,       \* history: timed out while resending, no new segment sent since
  due,          \* history: a cut for a mark is due, as CutAnswersMark says
  heard,        \* history: a mark has come back in this interval of FlowBender
  congested     \* history: intervals in a row that heard one

feedbackVars == <<rtt, dctcp, cong_action_>>
sinkVars == <<received, ecn_unacked_, acks>>
intervalVars == <<heard, congested>>
alphaVars == <<alphaSince, behind>>
historyVars == <<alphaVars, due, intervalVars>>
vars == <<senderVars, queueVars, feedbackVars, cwr, sinkVars, case, left, historyVars>>

Init ==
  /\ SenderInit /\ QueueInit
  /\ case \in Cases
  /\ conf = case.sender /\ red = initialize_params(case.queue)
  /\ rtt = RttInit /\ dctcp = FeedbackInit
  /\ cong_action_ = FALSE /\ cwr = EmptyBag
  /\ received = {} /\ ecn_unacked_ = FALSE /\ acks = <<>>
  /\ left = [others |-> case.others, timeouts |-> case.timeouts, checks |-> case.checks]
  /\ alphaSince = 0 /\ behind = FALSE /\ due = FALSE /\ heard = FALSE /\ congested = 0

-------------------------------------------------------------------------------
(* The sender.  Each step of Sack1Tcp is followed by what its calls of     *)
(* output() and slowdown() do here.                                        *)

SentNow == data' (-) data

Copies(s, bag) == IF BagIn(s, bag) THEN bag[s] ELSE 0

(* The first segment of the step: those that recovery resends come first.  *)
FirstSent ==
  LET sent == BagToSet(SentNow)
      resent == sent \intersect (retran' \ retran)
  IN Min(IF resent # {} THEN resent ELSE sent)

(* output() of the segments of the step, with the clock and the feedback   *)
(* as the handler has left them; slowed: it has called slowdown().         *)
Sending(e, d, slowed) ==
  /\ rtt' = IF maxseq_' > maxseq_ THEN Timing(e, maxseq_ + 1) ELSE e
  /\ dctcp' = IF SentNow = EmptyBag \/ ~ conf.dctcp_ THEN d
              ELSE DctcpSent(d, Max(BagToSet(SentNow)))
  /\ IF SentNow = EmptyBag
     THEN cong_action_' = (cong_action_ \/ slowed) /\ cwr' = cwr
     ELSE /\ cong_action_' = FALSE
          /\ cwr' = IF cong_action_ \/ slowed THEN cwr (+) SetToBag({FirstSent}) ELSE cwr

(* The news of a cut goes out with a segment sent again: the segments that *)
(* are sent after it may all come before it.                               *)
NewsResent(slowed) ==
  /\ cong_action_ \/ slowed
  /\ SentNow # EmptyBag /\ FirstSent <= maxseq_

(* A segment whose copy on the way tells of a cut is sent again, without   *)
(* the news: the second copy may come before the first.                    *)
NewsRepeated == \E s \in BagToSet(SentNow) : BagIn(s, cwr)

Start ==
  /\ SendMsg
  /\ Sending(rtt, dctcp, FALSE)
  /\ UNCHANGED <<queueVars, sinkVars, case, left, historyVars>>

(* update_dctcp_alpha(), before anything else. *)
AckCounted(ack) ==
  IF conf.dctcp_
  THEN update_dctcp_alpha(dctcp, ack.seqno, ack.ecnecho, highest_ack_, case.flowBender_)
  ELSE dctcp

UpdatesAlpha(ack) == conf.dctcp_ /\ EndsWindow(dctcp, ack.seqno)

(* ecn() cuts the window.                                                  *)
AnswersMark(ack) ==
  /\ ack.ecnecho /\ conf.ecn_
  /\ ack.seqno > recover_ \/ last_cwnd_action_ = "timeout"

(* The window is cwnd_ <= 1.0 in its integer part only.                    *)
SmallWindows == IF cwnd_ = 1 THEN BOOLEAN ELSE {FALSE}

AfterMark(ack, smallWindow) ==
  IF AnswersMark(ack) THEN EcnBackedOff(rtt, smallWindow) ELSE rtt

(* Which of its branches recv() took.                                      *)
TookNewAck(ack) == ~ fastrecov_ /\ IsNew(ack)
TookEnd == fastrecov_ /\ ~ fastrecov_'
TookPartial == fastrecov_ /\ fastrecov_' /\ highest_ack_' > highest_ack_
TookDupAction == ~ fastrecov_ /\ fastrecov_'

(* dupack_action() cuts the window, but not for a sender without DCTCP     *)
(* that starts the recovery only because a mark has made it cut.           *)
DupActionSlows(ack) == conf.dctcp_ \/ \E w \in AfterEcn(ack) : MayRecover(w)

(* Mutant: dupack_action() does not reset the timer.                       *)
ClockedUntimed(e, ack, tao) ==
  IF TookNewAck(ack) THEN HelpedNewAck(Sampled(e, ack.seqno, ack.ecnecho, tao), ack.ecnecho)
  ELSE IF TookEnd THEN Sampled(e, ack.seqno, ack.ecnecho, tao)
  ELSE IF TookPartial THEN [e EXCEPT !.t_backoff_ = 1]
  ELSE e

(* What the branch does to the clock. *)
Clocked(e, ack, tao) ==
  IF TookNewAck(ack) THEN HelpedNewAck(Sampled(e, ack.seqno, ack.ecnecho, tao), ack.ecnecho)
  ELSE IF TookEnd THEN Sampled(e, ack.seqno, ack.ecnecho, tao)
  ELSE IF TookPartial THEN [e EXCEPT !.t_backoff_ = 1]
  ELSE IF TookDupAction THEN TimerReset(e, FALSE)
  ELSE e

RecvAck ==
  /\ acks # <<>>
  /\ acks' = Tail(acks)
  /\ LET ack == Head(acks)
         slowed == AnswersMark(ack) \/ (TookDupAction /\ DupActionSlows(ack))
     IN
       /\ Recv(ack)
       /\ \E tao \in case.samples, small \in SmallWindows :
            Sending(Clocked(AfterMark(ack, small), ack, tao), AckCounted(ack), slowed)
       /\ alphaSince' = IF ~ UpdatesAlpha(ack) THEN alphaSince
                        ELSE IF behind THEN 0 ELSE maxseq_
       /\ behind' = (behind /\ maxseq_' = maxseq_)
       /\ due' = ((due /\ ~ AnswersMark(ack)) \/ NewsResent(slowed) \/ NewsRepeated \/ TookEnd)
       /\ heard' = (heard \/ (case.flowBender_ /\ ack.ecnecho))
  /\ UNCHANGED <<queueVars, received, ecn_unacked_, case, left, congested>>

-------------------------------------------------------------------------------
(* Timers.                                                                 *)

Quiet == data = EmptyBag /\ q = <<>> /\ wire = <<>> /\ acks = <<>>

Spend(bound) ==
  /\ left[bound] > 0
  /\ left' = [left EXCEPT ![bound] = @ - 1]

(* Without outstanding data the timer is not backed off, and a sender that *)
(* does not start again from a window of one leaves its window alone.      *)
RtxTimeout ==
  /\ Timeout
  /\ IF Quiet THEN left' = left ELSE Spend("timeouts")
  /\ LET outstanding == highest_ack_ # maxseq_
         d == IF conf.dctcp_ \/ case.flowBender_
              THEN FeedbackTimeout(dctcp, t_seqno_, case.flowBender_)
              ELSE dctcp
     IN Sending(TimerReset(rtt, outstanding), d, outstanding \/ conf.slow_start_restart_)
  /\ due' = TRUE
  /\ behind' = (t_seqno_ <= maxseq_)
  /\ alphaSince' = IF behind' THEN 0 ELSE alphaSince
  /\ heard' = FALSE /\ congested' = 0
  /\ UNCHANGED <<queueVars, sinkVars, case>>

(* FlowBender's timer runs from the SYN on.                                *)
FlowBenderTimer ==
  /\ case.flowBender_ /\ maxseq_ >= 0
  /\ Spend("checks")
  /\ dctcp' = checkCongestionFB(dctcp)
  /\ heard' = FALSE
  /\ congested' = IF ~ heard \/ dctcp'.defttl_ # dctcp.defttl_ THEN 0 ELSE congested + 1
  /\ UNCHANGED <<senderVars, queueVars, rtt, cong_action_, cwr, sinkVars, case, alphaVars,
                 due>>

-------------------------------------------------------------------------------
(* The network.                                                            *)

(* A SYN can be marked under DCTCP only.                                   *)
Ect(s) == conf.ecn_ /\ (s # 0 \/ conf.dctcp_)

(* The segments on the way that tell of a cut; the news of one is lost.    *)
Tellers ==
  BagToSet(cwr) \union
    {(wire \o q)[i].seqno : i \in {j \in DOMAIN (wire \o q) : (wire \o q)[j].cong_action}}
NewsLost == ~ (Tellers \subseteq Tellers')

(* Some other flow's packet, of a sender of the same kind.                 *)
Other == [seqno |-> -1, ect |-> conf.ecn_, ce |-> FALSE, cong_action |-> FALSE]

Arrive(s) ==
  /\ BagIn(s, data)
  /\ data' = data (-) SetToBag({s})
  /\ \E cong \in BOOLEAN :
       /\ cong => BagIn(s, cwr)
       /\ ~ cong => Copies(s, data) > Copies(s, cwr)
       /\ cwr' = IF cong THEN cwr (-) SetToBag({s}) ELSE cwr
       /\ Enque([seqno |-> s, ect |-> Ect(s), ce |-> FALSE, cong_action |-> cong])
  /\ UNCHANGED <<curseq_, t_seqno_, maxseq_, last_ack_, highest_ack_, dupacks_, windowVars,
                 wnd_init_, fastrecov_, pipe_, sacked, retran, timeout_, rtx_timer_, closed_,
                 conf, feedbackVars, sinkVars, case, left, alphaVars, intervalVars>>
  /\ due' = (due \/ NewsLost)

ArriveOther ==
  /\ Spend("others")
  /\ Enque(Other)
  /\ UNCHANGED <<senderVars, feedbackVars, cwr, sinkVars, case, alphaVars, intervalVars>>
  /\ due' = (due \/ NewsLost)

(* A SYN that cannot be marked asks for ECN.                               *)
AsksForEcn(p) == conf.ecn_ /\ p.seqno = 0 /\ ~ p.ect

(* Mutant: the news of a cut does not end the echo.                        *)
UnackedForever(p) == ecn_unacked_ \/ p.ce

(* A segment that tells of a cut ends the echo, a marked one begins it.    *)
update_ecn_unacked(p) == (ecn_unacked_ /\ ~ p.cong_action) \/ p.ce

(* The sink acknowledges each segment; the ACK of one that can be marked   *)
(* carries the echo, and so does the answer to a SYN that asks for ECN.    *)
Echo(p) ==
  /\ ecn_unacked_' = update_ecn_unacked(p)
  /\ received' = received \union {p.seqno}
  /\ \E seqno \in -1 .. maxseq_ :
       /\ 0 .. seqno \subseteq received' /\ seqno + 1 \notin received'
       /\ acks' = Append(acks, [seqno |-> seqno,
                                ecnecho |-> IF p.ect THEN ecn_unacked_' ELSE AsksForEcn(p),
                                sacked |-> {r \in received' : r > seqno}])

(* The packet on the wire reaches the host.                                *)
Depart ==
  /\ Resume
  /\ LET p == Head(wire) IN
       IF p.seqno = -1 THEN UNCHANGED <<sinkVars, due>>
       ELSE Echo(p) /\ due' = (due \/ p.ce \/ (AsksForEcn(p) /\ 0 \in received))
  /\ UNCHANGED <<senderVars, feedbackVars, cwr, case, left, alphaVars, intervalVars>>

Next ==
  \/ Start
  \/ RecvAck
  \/ RtxTimeout
  \/ FlowBenderTimer
  \/ \E s \in BagToSet(data) : Arrive(s)
  \/ ArriveOther
  \/ Depart

Spec == Init /\ [][Next]_vars

-------------------------------------------------------------------------------
(* Properties.                                                             *)

Packets == [seqno : -1 .. conf.size, ect : BOOLEAN, ce : BOOLEAN, cong_action : BOOLEAN]

TypeOK ==
  /\ case \in Cases
  /\ rtt \in Estimates /\ dctcp \in Feedback
  /\ rtt.rtt_active_ => rtt.rtt_seq_ \in 0 .. maxseq_
  /\ dctcp.dctcp_marked <= dctcp.dctcp_total
  /\ dctcp.markedAckPkts_F <= dctcp.totalAckPkts
  /\ q \in Seq(Packets) /\ Len(q) <= red.limit
  /\ wire \in Seq(Packets) /\ (wire = <<>> => q = <<>>) /\ Len(wire) <= 1
  /\ v_ave \in 0 .. red.limit /\ curq_ \in 0 .. red.limit /\ count \in 0 .. CountBound
  /\ old \in BOOLEAN
  /\ \A s \in BagToSet(cwr) : BagIn(s, data) /\ Copies(s, cwr) <= Copies(s, data)
  /\ received \subseteq 0 .. maxseq_

(* A sample that a short can hold leaves a timeout not below the round     *)
(* trip just measured, and a timeout with segments outstanding doubles it, *)
(* up to maxrto_ (rtt_update: "register short delta"; rtt_backoff).        *)
RtoIsSafe ==
  [][/\ /\ rtt.rtt_active_ /\ ~ rtt'.rtt_active_ /\ rtt'.t_rtt_ # rtt.t_rtt_
        /\ Abs(rtt'.t_rtt_ - rtt.t_srtt_ \div 8) <= ShortMax
        => rtt'.t_rtxcur_ >= rtt'.t_rtt_
     /\ RtxTimeout /\ highest_ack_ # maxseq_ =>
          rtt_timeout(rtt') = Smaller(maxrto_, 2 * rtt_timeout(rtt))]_vars

(* A segment that is sent again is not timed, whatever sent it again: a    *)
(* timeout, a fast retransmit or a restart (reset_rtx_timer, output).      *)
(* Only the holes that a recovery fills may be timed: send_much resends    *)
(* them and leaves the clock running.                                      *)
KarnsRule ==
  [][rtt'.rtt_active_ /\ rtt'.rtt_seq_ <= maxseq_ /\ BagIn(rtt'.rtt_seq_, SentNow)
     => fastrecov_]_vars

(* A queue that marks by its length (th_min = th_max, q_weight_ 1).        *)
Steps == red.instant /\ red.th_min = red.th_max /\ red.setbit /\ red.use_mark_p

Above(n) == n > 1 /\ n >= red.th_min

Joined == Len(q' \o wire') > Len(q \o wire)
NewPacket == (wire' \o q')[Len(wire' \o q')]
Refused ==
  /\ \/ \E s \in BagToSet(data) : Copies(s, data') < Copies(s, data)
     \/ left'.others < left.others
  /\ ~ Joined

(* The queue of DCTCP marks a packet when the queue it finds, and the one  *)
(* that the packet before it found, are above the threshold, and drops one *)
(* that can be marked only at the limit (enque: "old", drop_early: "For    *)
(* DCTCP: '<' is changed to '<='"); "a packet that arrives to an idle      *)
(* queue will never be dropped" by any queue.                              *)
MarksFollowTheQueue ==
  [][/\ Steps /\ Joined =>
          (NewPacket.ce <=> NewPacket.ect /\ Above(Len(q)) /\ Above(curq_))
     /\ Steps /\ Refused /\ conf.ecn_ /\ conf.dctcp_ => Len(q) >= red.limit
     /\ Refused => wire # <<>>]_vars

(* Alpha is updated once for a window: by the ACK of a segment sent after  *)
(* the last update (update_dctcp_alpha: "roughly once per RTT").  Not so   *)
(* for a sender that a second timeout has set back before it had caught    *)
(* up, until it sends a new segment: dctcp_maxseq is then below maxseq_.   *)
AlphaOncePerWindow ==
  \A i \in DOMAIN acks :
    i = 1 /\ acks' = Tail(acks) /\ UpdatesAlpha(acks[i]) => acks[i].seqno > alphaSince

(* FlowBender moves the flow only at a timeout, or at the end of as many   *)
(* intervals in a row as flowBender_N, in each of which a mark has come    *)
(* back (checkCongestionFB, timeout).                                      *)
RerouteIsEarned ==
  dctcp'.defttl_ # dctcp.defttl_ =>
    timeout_' \/ (heard /\ congested + 1 >= flowBender_N)

(* What the marks decide, they decide once: both of the above.             *)
FeedbackIsPaced == [][AlphaOncePerWindow /\ RerouteIsEarned]_vars

(* The window is cut for a mark only if one has reached the sink since the *)
(* last such cut: the first segment sent after the cut tells the sink to   *)
(* stop its echo before a segment comes that would have it cut again       *)
(* (slowdown, output, the sink's ecn_unacked_).  The answer to a SYN sent  *)
(* again, which asks for ECN, counts as a mark.  Another cut is due as well *)
(* after a timeout, after a recovery, which resets recover_, and if the    *)
(* segment that tells of the last cut has been lost, is one sent again, so *)
(* that later ones can come before it, or is itself sent again while on    *)
(* its way, so that its second copy can.                                   *)
CutAnswersMark ==
  [][\A i \in DOMAIN acks :
       i = 1 /\ acks' = Tail(acks) /\ AnswersMark(acks[i]) => due]_vars
===============================================================================
