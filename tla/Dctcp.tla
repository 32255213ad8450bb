-------------------------------- MODULE Dctcp --------------------------------
(***************************************************************************)
(* What a sender keeps of the marks that come back (tcp/tcp-sack1.cc): the *)
(* window over which DCTCP takes the share of marked segments, and the     *)
(* intervals over which FlowBender decides to move the flow to another     *)
(* path by changing the TTL that the switches hash.  Functions of the      *)
(* record of its values, as in module RttEstimator.                        *)
(*                                                                         *)
(* dctcp_alpha_ itself, a real number, is left out: module Sack1Tcp cuts   *)
(* the window by any share.                                                *)
(***************************************************************************)
EXTENDS Integers

CONSTANTS
  flowBender_N,   \* congested intervals that move the flow
  flowBender_T,   \* a congested interval has more than this percentage marked
  Ttls            \* bound: values of defttl_, which goes round

ASSUME DctcpAssumption ==
  /\ flowBender_N \in Nat \ {0} /\ flowBender_T \in 0 .. 100 /\ Ttls \in Nat \ {0, 1}

Feedback ==
  [dctcp_alpha_update_seq : Nat, dctcp_maxseq : Nat, dctcp_total : Nat, dctcp_marked : Nat,
   totalAckPkts : Nat, markedAckPkts_F : Nat, numRTTsCongested_ : 0 .. flowBender_N - 1,
   defttl_ : 0 .. Ttls - 1]

FeedbackInit ==
  [dctcp_alpha_update_seq |-> 0, dctcp_maxseq |-> 0, dctcp_total |-> 0, dctcp_marked |-> 0,
   totalAckPkts |-> 0, markedAckPkts_F |-> 0, numRTTsCongested_ |-> 0, defttl_ |-> 0]

(* update_dctcp_alpha(), before the ACK is looked at: it counts for the    *)
(* segments it acknowledges, a duplicate for one.                          *)
AckedBytes(seqno, highest) == IF seqno > highest THEN seqno - highest ELSE 1

Counted(d, acked, ecnecho, flowBender) ==
  LET marked == IF ecnecho THEN acked ELSE 0
      interval == IF flowBender THEN 1 ELSE 0   \* read by FlowBender alone
  IN [d EXCEPT !.dctcp_total = @ + acked, !.dctcp_marked = @ + marked,
               !.totalAckPkts = @ + interval * acked, !.markedAckPkts_F = @ + interval * marked]

(* A window of alpha is over with the ACK of a segment sent after its start. *)
EndsWindow(d, seqno) == seqno > d.dctcp_alpha_update_seq

(* Mutant: the next window ends with what this one has acknowledged.       *)
AlphaUpdatedEarly(d, seqno) ==
  IF EndsWindow(d, seqno)
  THEN [d EXCEPT !.dctcp_alpha_update_seq = seqno, !.dctcp_total = 0, !.dctcp_marked = 0]
  ELSE d

AlphaUpdated(d, seqno) ==
  IF EndsWindow(d, seqno)
  THEN [d EXCEPT !.dctcp_alpha_update_seq = d.dctcp_maxseq,
                 !.dctcp_total = 0, !.dctcp_marked = 0]
  ELSE d

update_dctcp_alpha(d, seqno, ecnecho, highest, flowBender) ==
  AlphaUpdated(Counted(d, AckedBytes(seqno, highest), ecnecho, flowBender), seqno)

(* output() of a segment. *)
DctcpSent(d, seqno) == IF seqno > d.dctcp_maxseq THEN [d EXCEPT !.dctcp_maxseq = seqno] ELSE d

Rerouted(d) == [d EXCEPT !.defttl_ = (@ + 1) % Ttls, !.numRTTsCongested_ = 0]

(* Mutant: the marks of the last interval are still counted.               *)
NewIntervalMarked(d) == [d EXCEPT !.totalAckPkts = 0]

NewInterval(d) == [d EXCEPT !.totalAckPkts = 0, !.markedAckPkts_F = 0]

(* timeout(TCP_TIMER_RTX), before t_seqno_ is set back.                    *)
FeedbackTimeout(d, t_seqno, flowBender) ==
  LET restarted == [d EXCEPT !.dctcp_alpha_update_seq = t_seqno, !.dctcp_maxseq = t_seqno]
  IN IF flowBender THEN NewInterval(Rerouted(restarted)) ELSE restarted

Congested(d) == 100 * d.markedAckPkts_F > flowBender_T * d.totalAckPkts

(* The FlowBender timer.                                                   *)
checkCongestionFB(d) ==
  NewInterval(IF ~ Congested(d) THEN [d EXCEPT !.numRTTsCongested_ = 0]
              ELSE IF d.numRTTsCongested_ + 1 >= flowBender_N THEN Rerouted(d)
              ELSE [d EXCEPT !.numRTTsCongested_ = @ + 1])
===============================================================================
