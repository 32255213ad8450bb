---------------------------- MODULE TransferProofs ----------------------------
(***************************************************************************)
(* Proofs about module Transfer: the sender's part of the invariant is     *)
(* that of module Sack1TcpProofs; here is what the network and the sink    *)
(* add to it, that every ACK on its way tells the truth.                   *)
(***************************************************************************)
EXTENDS Transfer, Sack1TcpProofs

(* What surrounds the sender is well typed.                                *)
PathTypeOK ==
  /\ received \subseteq 0 .. maxseq_
  /\ faults \in Nat /\ lastCut \in -1 .. maxseq_

AcksAreTrue == \A ack \in BagToSet(acks) : IsTrueAck(ack, received)

IInv ==
  /\ SenderInv /\ PathTypeOK
  /\ KnowsOnly(received) /\ AcksAreTrue

(* The invariant again, after a step of the sender.                        *)
LEMMA SenderStep ==
  ASSUME IInv, Kept(received), UNCHANGED received, BagToSet(acks') \subseteq BagToSet(acks),
         faults' \in Nat, lastCut' \in -1 .. maxseq_
  PROVE  IInv'
<1>1. maxseq_ \in Int /\ maxseq_' \in Int /\ maxseq_ <= maxseq_'
  BY SenderAssumption DEF IInv, Kept, SenderInv, SenderTypeOK, AllSettings
<1>2. SenderInv' /\ KnowsOnly(received)'
  BY DEF Kept, KnowsOnly
<1>3. PathTypeOK'
  BY <1>1 DEF IInv, PathTypeOK
<1>4. AcksAreTrue'
  BY <1>1 DEF IInv, AcksAreTrue, IsTrueAck
<1> QED BY <1>2, <1>3, <1>4 DEF IInv

(* After a step of the network, which the sender does not see.             *)
LEMMA NetworkStep ==
  ASSUME IInv,
         UNCHANGED <<curseq_, t_seqno_, maxseq_, last_ack_, highest_ack_, dupacks_, windowVars,
                     wnd_init_, fastrecov_, pipe_, sacked, retran, timeout_, rtx_timer_, closed_,
                     conf>>,
         BagToSet(data') \subseteq BagToSet(data),
         received \subseteq received', PathTypeOK', AcksAreTrue'
  PROVE  IInv'
<1>1. SenderInv'
  BY NetworkPreserves DEF IInv
<1>2. KnowsOnly(received)'
  BY DEF IInv, KnowsOnly
<1> QED BY <1>1, <1>2 DEF IInv

(* An ACK that is delivered is met as Receiving says.                      *)
LEMMA AckIsReceiving ==
  ASSUME IInv, NEW ack, DeliverAck(ack)
  PROVE  \E w \in AfterEcn(ack) : Handles(ack, w) /\ Receiving(ack, w, received)
<1>1. PICK w \in AfterEcn(ack) : Handles(ack, w)
  BY DEF DeliverAck, Recv, Handles
<1>2. IsTrueAck(ack, received)
  BY DEF DeliverAck, BagIn, IInv, AcksAreTrue
<1> QED BY <1>1, <1>2 DEF IInv, PathTypeOK, Receiving

(* An ACK arrives.                                                         *)
LEMMA DeliverAckPreserves ==
  ASSUME IInv, NEW ack, DeliverAck(ack)
  PROVE  IInv'
<1>1. PICK R, w : R = received /\ Handles(ack, w) /\ Receiving(ack, w, R)
  BY AckIsReceiving
<1>2. Kept(R)
  BY <1>1, RecvPreserves
<1>3. UNCHANGED received /\ faults' \in Nat
  BY DEF DeliverAck, IInv, PathTypeOK
<1>4. Kept(received)
  BY <1>1, <1>2, <1>3 DEF Kept, KnowsOnly
<1>5. BagToSet(acks') \subseteq BagToSet(acks)
  BY BagLosesOne DEF DeliverAck
<1>6. lastCut' \in -1 .. maxseq_
  <2>1. maxseq_ \in -1 .. maxseq_
    BY SenderAssumption DEF IInv, SenderInv, SenderTypeOK, AllSettings
  <2> QED BY <2>1 DEF DeliverAck, IInv, PathTypeOK
<1> QED BY <1>3, <1>4, <1>5, <1>6, SenderStep

(* The flow starts with its SYN.                                           *)
LEMMA StartPreserves ==
  ASSUME IInv, Start
  PROVE  IInv'
<1>1. PICK R : R = received
  OBVIOUS
<1>2. Kept(R)
  BY <1>1, SendMsgPreserves DEF IInv, Start
<1>3. Kept(received)
  BY <1>1, <1>2 DEF Kept, KnowsOnly, Start
<1> QED BY <1>3, SenderStep DEF Start, IInv, PathTypeOK

(* The timer expires.                                                      *)
LEMMA RtxTimeoutPreserves ==
  ASSUME IInv, RtxTimeout
  PROVE  IInv'
<1>1. PICK R : R = received
  OBVIOUS
<1>2. Kept(R)
  BY <1>1, TimeoutPreserves DEF IInv, RtxTimeout
<1>3. Kept(received)
  BY <1>1, <1>2 DEF Kept, KnowsOnly, RtxTimeout
<1>4. maxseq_ \in -1 .. maxseq_
  BY SenderAssumption DEF IInv, SenderInv, SenderTypeOK, AllSettings
<1>5. faults' \in Nat /\ lastCut' \in -1 .. maxseq_
  BY <1>4 DEF RtxTimeout, Faulty, IInv, PathTypeOK
<1> QED BY <1>3, <1>5, SenderStep DEF RtxTimeout

(* A segment arrives; the ACK it makes is true.                            *)
LEMMA DeliverDataPreserves ==
  ASSUME IInv, NEW s, DeliverData(s)
  PROVE  IInv'
<1>1. maxseq_ \in Int /\ received \subseteq 0 .. maxseq_ /\ s \in 0 .. maxseq_ /\ faults \in Nat
  BY SenderAssumption
  DEF IInv, PathTypeOK, SenderInv, SenderTypeOK, AllSettings, DeliverData, BagIn
<1>2. /\ received' = received \union {s} /\ lastCut' = lastCut
      /\ BagToSet(data') \subseteq BagToSet(data)
  BY BagLosesOne DEF DeliverData
<1>3. received' \subseteq 0 .. maxseq_
  BY <1>1, <1>2
<1>4. PICK seqno \in -1 .. maxseq_, ecnecho \in BOOLEAN :
        /\ 0 .. seqno \subseteq received' /\ seqno + 1 \notin received'
        /\ Faulty(ecnecho)
        /\ acks' = acks (+) SetToBag({[seqno |-> seqno, ecnecho |-> ecnecho,
                                       sacked |-> {r \in received' : r > seqno}]})
  BY DEF DeliverData
<1> DEFINE new == [seqno |-> seqno, ecnecho |-> ecnecho,
                   sacked |-> {r \in received' : r > seqno}]
<1>5. faults' \in Nat
  BY <1>1, <1>4 DEF Faulty
<1>6. 0 \in received'
  <2>1. CASE highest_ack_ = -1
    <3>1. maxseq_ <= 0  BY <2>1 DEF IInv, SenderInv, SynIsAlone
    <3>2. s = 0  BY <1>1, <3>1
    <3> QED BY <1>2, <3>2
  <2>2. CASE highest_ack_ # -1
    <3>1. highest_ack_ \in -1 .. maxseq_ /\ 0 .. highest_ack_ \subseteq received
      BY DEF IInv, SenderInv, SenderTypeOK, KnowsOnly
    <3>2. 0 \in 0 .. highest_ack_  BY <1>1, <2>2, <3>1
    <3> QED BY <1>2, <3>1, <3>2
  <2> QED BY <2>1, <2>2
<1>7. new.seqno \in 0 .. maxseq_
  BY <1>1, <1>4, <1>6
<1>8. maxseq_' = maxseq_ /\ IsTrueAck(new, received')
  BY <1>4, <1>7 DEF IsTrueAck, DeliverData
<1>9. BagToSet(acks') = BagToSet(acks) \union {new}
  BY <1>4, BagGainsOne
<1> HIDE DEF new
<1>10. AcksAreTrue'
  BY <1>2, <1>8, <1>9 DEF IInv, AcksAreTrue, IsTrueAck
<1>11. PathTypeOK'
  BY <1>2, <1>3, <1>5, <1>8 DEF IInv, PathTypeOK
<1>12. received \subseteq received'
  BY <1>2
<1> QED BY <1>2, <1>10, <1>11, <1>12, NetworkStep DEF DeliverData

(* A segment is lost.                                                      *)
LEMMA DropDataPreserves ==
  ASSUME IInv, NEW s, DropData(s)
  PROVE  IInv'
<1>1. faults' \in Nat
  BY DEF DropData, Faulty, IInv, PathTypeOK
<1>2. BagToSet(data') \subseteq BagToSet(data)
  BY BagLosesOne DEF DropData
<1>3. PathTypeOK' /\ AcksAreTrue'
  BY <1>1 DEF DropData, IInv, PathTypeOK, AcksAreTrue, IsTrueAck
<1> QED BY <1>2, <1>3, NetworkStep DEF DropData

(* An ACK is lost.                                                         *)
LEMMA DropAckPreserves ==
  ASSUME IInv, NEW ack, DropAck(ack)
  PROVE  IInv'
<1>1. faults' \in Nat
  BY DEF DropAck, Faulty, IInv, PathTypeOK
<1>2. BagToSet(acks') \subseteq BagToSet(acks)
  BY BagLosesOne DEF DropAck
<1>3. PathTypeOK' /\ AcksAreTrue'
  BY <1>1, <1>2 DEF DropAck, senderVars, IInv, PathTypeOK, AcksAreTrue, IsTrueAck
<1> QED BY <1>3, NetworkStep DEF DropAck, senderVars

(* Nothing happens.                                                        *)
LEMMA StutterPreserves ==
  ASSUME IInv, UNCHANGED vars
  PROVE  IInv'
<1>1. PathTypeOK' /\ AcksAreTrue'
  BY DEF vars, senderVars, IInv, PathTypeOK, AcksAreTrue, IsTrueAck
<1> QED BY <1>1, NetworkStep DEF vars, senderVars

-------------------------------------------------------------------------------
(* The specification.                                                      *)

LEMMA InitIInv == Init => IInv
<1> SUFFICES ASSUME Init PROVE IInv
  OBVIOUS
<1>1. SenderInv
  BY InitSenderInv DEF Init
<1>2. BagToSet(acks) = {}
  BY DEF Init, BagToSet, EmptyBag, SetToBag
<1>3. highest_ack_ = -1 /\ maxseq_ = -1 /\ sacked = {} /\ faults \in Nat
  BY FaultsAssumption DEF Init, SenderInit
<1> QED BY <1>1, <1>2, <1>3 DEF Init, IInv, PathTypeOK, KnowsOnly, AcksAreTrue

(* Every step keeps the invariant.                                         *)
LEMMA NextIInv == IInv /\ [Next]_vars => IInv'
<1> SUFFICES ASSUME IInv, [Next]_vars PROVE IInv'
  OBVIOUS
<1>1. CASE Start  BY <1>1, StartPreserves
<1>2. ASSUME NEW s, DeliverData(s) PROVE IInv'  BY <1>2, DeliverDataPreserves
<1>3. ASSUME NEW s, DropData(s) PROVE IInv'  BY <1>3, DropDataPreserves
<1>4. ASSUME NEW ack, DeliverAck(ack) PROVE IInv'  BY <1>4, DeliverAckPreserves
<1>5. ASSUME NEW ack, DropAck(ack) PROVE IInv'  BY <1>5, DropAckPreserves
<1>6. CASE RtxTimeout  BY <1>6, RtxTimeoutPreserves
<1>7. CASE UNCHANGED vars  BY <1>7, StutterPreserves
<1> QED BY <1>1, <1>2, <1>3, <1>4, <1>5, <1>6, <1>7 DEF Next

(* The inductive invariant holds in every state of a flow.                 *)
THEOREM TransferInvariant == Spec => []IInv
BY InitIInv, NextIInv, PTL DEF Spec

(* The state of a flow keeps its types: what is counted as sent,           *)
(* acknowledged, reported or received stays within the flow, and the timer *)
(* is set from the first segment on.                                       *)
THEOREM TransferTypeOK == Spec => []TypeOK
<1>1. IInv => TypeOK
  BY DEF IInv, TypeOK, PathTypeOK, SenderInv
<1> QED BY <1>1, TransferInvariant, PTL

(* After any mix of lost, late and reordered ACKs, marks and timeouts, the *)
(* recovery point, the scoreboard and the next segment agree.              *)
THEOREM TransferRecoverySound == Spec => []RecoveryIsSound
<1>1. IInv => RecoveryIsSound
  BY DEF IInv, SenderInv
<1> QED BY <1>1, TransferInvariant, PTL

(* A flow that the sender calls done has been received completely.         *)
THEOREM TransferClosedIsDelivered == Spec => []ClosedIsDelivered
<1>1. IInv => ClosedIsDelivered
  <2> SUFFICES ASSUME IInv, closed_, NEW s \in 0 .. curseq_ - 1 PROVE s \in received
    BY DEF ClosedIsDelivered
  <2>1. curseq_ \in Int /\ highest_ack_ \in Int
    BY SenderAssumption DEF IInv, SenderInv, SenderTypeOK, AllSettings
  <2>2. highest_ack_ >= curseq_ - 1
    BY DEF IInv, SenderInv, ClosedIsAcked
  <2>3. s \in 0 .. highest_ack_
    BY <2>1, <2>2
  <2> QED BY <2>3 DEF IInv, KnowsOnly
<1> QED BY <1>1, TransferInvariant, PTL

(* The ACK points never go back, whichever ACK arrives and whatever it     *)
(* does to a recovery: the end of one is beyond every partial ACK in it.   *)
THEOREM TransferAckPoint == Spec => AckPointAdvances
<1>1. IInv /\ [Next]_vars =>
        [highest_ack_' >= highest_ack_ /\ last_ack_' >= last_ack_]_vars
  <2> SUFFICES ASSUME IInv, Next PROVE highest_ack_' >= highest_ack_ /\ last_ack_' >= last_ack_
    OBVIOUS
  <2>1. highest_ack_ \in Int /\ last_ack_ \in Int /\ last_ack_ <= highest_ack_
    BY DEF IInv, SenderInv, SenderTypeOK
  <2>2. CASE UNCHANGED <<highest_ack_, last_ack_>>
    BY <2>1, <2>2
  <2>3. CASE RtxTimeout
    BY <2>1, <2>3 DEF RtxTimeout, Timeout, TimeoutFrom
  <2>4. ASSUME NEW ack, DeliverAck(ack)
        PROVE  highest_ack_' >= highest_ack_ /\ last_ack_' >= last_ack_
    <3>1. PICK R, w : R = received /\ Handles(ack, w) /\ Receiving(ack, w, R)
      BY <2>4, AckIsReceiving
    <3> QED BY <3>1, RecvAdvances
  <2>5. ASSUME NEW s, DeliverData(s) \/ DropData(s) PROVE UNCHANGED <<highest_ack_, last_ack_>>
    BY <2>5 DEF DeliverData, DropData
  <2>6. ASSUME NEW ack, DropAck(ack) PROVE UNCHANGED <<highest_ack_, last_ack_>>
    BY <2>6 DEF DropAck, senderVars
  <2>7. CASE Start
    BY <2>2, <2>7 DEF Start, SendMsg
  <2> QED BY <2>2, <2>3, <2>4, <2>5, <2>6, <2>7 DEF Next
<1> QED BY <1>1, TransferInvariant, PTL DEF Spec, AckPointAdvances

-------------------------------------------------------------------------------
(* What a recovery sends.                                                  *)

(* What is sent anew has been output.                                      *)
LEMMA SentIsOutput ==
  ASSUME IsABag(data), NEW resent, NEW fresh, NEW t, Output(resent, fresh, t),
         NEW s \in BagToSet(data'), Sent(s)
  PROVE  s \in resent \union fresh
<1> SUFFICES ASSUME s \notin resent \union fresh PROVE FALSE
  OBVIOUS
<1>1. s \in BagToSet(data) /\ data'[s] = data[s]
  BY OutputBag
<1>2. data'[s] > data[s]
  BY <1>1 DEF Sent, BagIn
<1>3. data[s] \in Nat
  BY <1>1 DEF IsABag, BagToSet
<1> QED BY <1>1, <1>2, <1>3

(* The segments in flight are a bag.                                       *)
LEMMA NextIsABag == IsABag(data) /\ [Next]_vars => IsABag(data')
<1> SUFFICES ASSUME IsABag(data), [Next]_vars PROVE IsABag(data')
  OBVIOUS
<1>1. CASE Outputs
  BY <1>1, OutputBag DEF Outputs
<1>2. CASE Start
  BY <1>1, <1>2 DEF Start, SendMsg, Outputs
<1>3. ASSUME NEW s, DeliverData(s) \/ DropData(s) PROVE IsABag(data')
  BY <1>3, BagMinus DEF DeliverData, DropData
<1>4. ASSUME NEW ack, DeliverAck(ack) PROVE IsABag(data')
  BY <1>1, <1>4, HandlesOutputs DEF DeliverAck, Recv, Handles
<1>5. CASE UNCHANGED data
  BY <1>5
<1>6. ASSUME NEW ack, DropAck(ack) PROVE IsABag(data')
  BY <1>5, <1>6 DEF DropAck, senderVars
<1>7. CASE RtxTimeout
  BY <1>1, <1>7, SendMuchOutputs DEF RtxTimeout, Timeout, TimeoutFrom
<1>8. CASE UNCHANGED vars
  BY <1>5, <1>8 DEF vars, senderVars
<1> QED BY <1>2, <1>3, <1>4, <1>6, <1>7, <1>8 DEF Next

LEMMA InitIsABag == Init => IsABag(data)
BY DEF Init, SenderInit, IsABag, EmptyBag, SetToBag

LEMMA DataIsABag == Spec => []IsABag(data)
<1>1. IsABag(data) /\ [Next]_vars => IsABag(data)'
  BY NextIsABag
<1> QED BY <1>1, InitIsABag, PTL DEF Spec

(* In a recovery send_much sends holes, and segments from t_seqno_ on.     *)
LEMMA RecoverySending ==
  ASSUME NEW t \in Int, NEW pipe \in Int, NEW marked, NEW timer, maxseq_ \in Int,
         highest_ack_' \in Nat, cwnd_' \in Int, curseq_ \in Int, wnd_ \in Int,
         SendMuch(t, pipe, marked, timer), fastrecov_'
  PROVE  \E resent, fresh :
           /\ Output(resent, fresh, timer)
           /\ resent \subseteq Holes(marked)
           /\ \A s \in fresh : s \in Int /\ s >= t
<1> DEFINE room   == cwnd_' - pipe
           holes  == IF fastrecov_' THEN Holes(marked) ELSE {}
           resent == IF recover_' > 0 THEN FirstOf(room, holes) ELSE {}
           first  == FirstAfter(t, resent)
           bound  == AtMost(highest_ack_' + wnd_, first + room - Cardinality(resent) - 1)
           fresh  == IF resent = holes THEN first .. AtMost(bound, curseq_ - 1) ELSE {}
<1>1. Output(resent, fresh, timer)
  BY DEF SendMuch, FirstAfter
<1>2. resent \subseteq Holes(marked)
  BY DEF FirstOf
<1>3. Cardinality(resent) \in Nat /\ first \in Int /\ first >= t
  <2>1. resent \subseteq 0 .. maxseq_
    <3>1. PICK h : h = highest_ack_' /\ h \in Nat
      OBVIOUS
    <3>2. resent \subseteq h + 1 .. maxseq_
      BY <1>2, <3>1 DEF Holes
    <3> QED BY <3>1, <3>2
  <2>2. IsFiniteSet(0 .. maxseq_)
    BY FS_Interval
  <2> HIDE DEF resent
  <2> QED BY <2>1, <2>2, FS_Subset, FS_CardinalityType, FirstAfterIs
<1> HIDE DEF resent, first
<1>4. bound \in Int
  BY <1>3 DEF AtMost
<1> HIDE DEF bound
<1>5. AtMost(bound, curseq_ - 1) \in Int
  BY <1>4 DEF AtMost
<1>6. \A s \in fresh : s \in Int /\ s >= t
  BY <1>3, <1>5
<1> HIDE DEF fresh
<1> QED BY <1>1, <1>2, <1>6

LEMMA SendsOnlyMissing ==
  ASSUME IInv, IsABag(data), NEW R, NEW ack, NEW w, Receiving(ack, w, R), Kept(R),
         fastrecov_, fastrecov_', ~ conf.ecn_,
         NEW pipe \in Int, NEW timer, SendMuch(t_seqno_, pipe, retran, timer),
         cwnd_' \in Int, highest_ack_' \in 0 .. maxseq_, sacked' \subseteq R,
         NEW s \in BagToSet(data'), Sent(s)
  PROVE  s > highest_ack_' /\ s \notin sacked' \union retran
<1>1. PICK resent, fresh :
        /\ Output(resent, fresh, timer)
        /\ resent \subseteq Holes(retran)
        /\ \A r \in fresh : r \in Int /\ r >= t_seqno_
  <2>1. maxseq_ \in Nat /\ curseq_ \in Nat /\ wnd_ \in Nat
    BY Reception
  <2>2. PICK h, l, t : h = highest_ack_' /\ l = last_ack_ /\ t = t_seqno_
    OBVIOUS
  <2>3. h \in Nat
    BY <2>1, <2>2
  <2>4. t \in Int
    <3>1. highest_ack_ \in -1 .. maxseq_ /\ l \in -1 .. highest_ack_ /\ t \in l + 1 .. maxseq_ + 1
      BY <2>2, Handled
    <3> QED BY <2>1, <3>1
  <2>5. /\ maxseq_ \in Int /\ highest_ack_' \in Nat /\ curseq_ \in Int /\ wnd_ \in Int
        /\ t_seqno_ \in Int
    BY <2>1, <2>2, <2>3, <2>4
  <2> QED BY <2>5, RecoverySending
<1>2. s \in resent \union fresh
  BY <1>1, SentIsOutput
<1>3. PICK h, m, t, S : h = highest_ack_' /\ m = maxseq_ /\ t = t_seqno_ /\ S = sacked'
  OBVIOUS
<1>4. /\ m \in Nat /\ h \in 0 .. m /\ t \in Int /\ t > m
      /\ S \subseteq 0 .. m /\ retran \subseteq 0 .. m
  <2>1. m \in Nat /\ R \subseteq 0 .. m /\ retran \subseteq 0 .. m
    BY <1>3, Reception, Handled DEF Receiving
  <2>2. t \in Int
    BY <1>3, <2>1, Handled
  <2>3. ~ (t <= m)
    BY <1>3 DEF IInv, SenderInv, RecoveryIsSound, BehindOnlyAfterTimeout
  <2> QED BY <1>3, <2>1, <2>2, <2>3
<1>5. CASE s \in resent
  <2>1. s \in h + 1 .. m /\ s \notin S \union retran
    BY <1>1, <1>3, <1>5 DEF Holes
  <2>2. s > h
    BY <1>4, <2>1
  <2> QED BY <1>3, <2>1, <2>2
<1>6. CASE s \in fresh
  <2>1. s \in Int /\ s >= t
    BY <1>1, <1>3, <1>4, <1>6
  <2>2. s > h /\ s \notin S \union retran
    BY <1>4, <2>1
  <2> QED BY <1>3, <2>2
<1> QED BY <1>2, <1>5, <1>6

(* A recovery of a sender that does not answer marks sends only what is    *)
(* missing: nothing that an ACK has covered or reported, nothing twice,    *)
(* and new segments (GetNextRetran, MarkRetran, send_much).                *)
THEOREM TransferSendsOnlyMissing == Spec => RecoverySendsOnlyMissing
<1> DEFINE A == fastrecov_ /\ fastrecov_' /\ ~ conf.ecn_ =>
                  \A s \in BagToSet(data') :
                    Sent(s) => s > highest_ack_' /\ s \notin sacked' \union retran
<1>1. IInv /\ IInv' /\ IsABag(data) /\ [Next]_vars => [A]_vars
  <2> SUFFICES ASSUME IInv, IInv', IsABag(data), Next, fastrecov_, fastrecov_', ~ conf.ecn_,
                      NEW s \in BagToSet(data'), Sent(s)
               PROVE  s > highest_ack_' /\ s \notin sacked' \union retran
    OBVIOUS
  <2>1. ~ UNCHANGED data
    <3>1. SUFFICES ASSUME UNCHANGED data PROVE FALSE
      OBVIOUS
    <3>2. data[s] > data[s] /\ data[s] \in Nat
      BY <3>1 DEF Sent, BagIn, IsABag, BagToSet
    <3> QED BY <3>2
  <2>2. ~ Start
    <3>1. SUFFICES ASSUME Start PROVE FALSE
      OBVIOUS
    <3>2. curseq_ = 0
      BY <3>1 DEF Start, SendMsg
    <3>3. highest_ack_ = -1
      BY <3>2 DEF IInv, SenderInv, SenderTypeOK
    <3> QED BY <3>3 DEF IInv, SenderInv, SynIsAlone
  <2>3. ASSUME NEW r, DeliverData(r) \/ DropData(r) PROVE FALSE
    <3>1. data' = data (-) SetToBag({r})
      BY <2>3 DEF DeliverData, DropData
    <3>2. s \in BagToSet(data) /\ data'[s] <= data[s] /\ IsABag(data')
      BY <3>1, BagMinus
    <3>3. data'[s] > data[s]
      BY <3>2 DEF Sent, BagIn
    <3>4. data[s] \in Nat /\ data'[s] \in Nat
      BY <3>2 DEF IsABag, BagToSet
    <3> QED BY <3>2, <3>3, <3>4
  <2>4. ASSUME NEW ack, DeliverAck(ack)
        PROVE  s > highest_ack_' /\ s \notin sacked' \union retran
    <3>1. PICK R, w : R = received /\ Handles(ack, w) /\ Receiving(ack, w, R)
      BY <2>4, AckIsReceiving
    <3>2. Kept(R)
      BY <3>1, RecvPreserves
    <3>3. PartialAck(ack, w) \/ RecoveryDupAck(ack, w)
      BY <3>1 DEF Handles, RecvNewAck, RecvNoNews, LimitedTransmit, FastRetransmit,
                  EcnRetransmit, CountDuplicate, DuplicateAck, EndRecovery
    <3>4. /\ maxseq_ \in Nat /\ ack.seqno \in 0 .. maxseq_ /\ highest_ack_ \in -1 .. maxseq_
          /\ ack.sacked \subseteq R /\ sacked \subseteq R
      BY <3>1, Reception, Handled
    <3>5. highest_ack_ # -1
      BY DEF IInv, SenderInv, SynIsAlone
    <3>6. highest_ack_' \in 0 .. maxseq_
      BY <3>3, <3>4, <3>5 DEF PartialAck, RecoveryDupAck
    <3>7. sacked' \subseteq R
      BY <3>3, <3>4 DEF PartialAck, RecoveryDupAck, Reported
    <3>8. cwnd_' \in Int /\ pipe_ \in Int
      BY <3>1, <3>2, Handled DEF Kept, SenderInv, SenderTypeOK
    <3>9. \E pipe \in Int : \E timer : SendMuch(t_seqno_, pipe, retran, timer)
      BY <3>3, <3>8 DEF PartialAck, RecoveryDupAck
    <3> QED BY <3>1, <3>2, <3>6, <3>7, <3>8, <3>9, SendsOnlyMissing
  <2>5. ASSUME NEW ack, DropAck(ack) PROVE FALSE
    BY <2>1, <2>5 DEF DropAck, senderVars
  <2>6. ~ RtxTimeout
    BY DEF RtxTimeout, Timeout, TimeoutFrom
  <2> QED BY <2>2, <2>3, <2>4, <2>5, <2>6 DEF Next
<1> QED BY <1>1, TransferInvariant, DataIsABag, PTL DEF Spec, RecoverySendsOnlyMissing

-------------------------------------------------------------------------------
(* How often the window is cut.                                            *)

(* What the first window leaves: the ACK of the SYN is answered by a       *)
(* segment, no recovery ends at the SYN, and a sender that has timed out   *)
(* has a window of one until a segment of data is acknowledged.            *)
FirstWindow ==
  /\ highest_ack_ = 0 => maxseq_ >= 1
  /\ fastrecov_ => recover_ >= 1
  /\ last_cwnd_action_ = "timeout" =>
       /\ highest_ack_ <= 0 => cwnd_ = 1
       /\ highest_ack_ = -1 => wnd_init_ = 1

(* Where the last cut was: recover_ remembers it until it has been         *)
(* acknowledged, and a sender that may start a recovery at the ACK of the  *)
(* SYN has not cut its window since.                                       *)
CutIsKnown ==
  ~ conf.dctcp_ =>
    /\ lastCut <= recover_ \/ lastCut <= highest_ack_
    /\ highest_ack_ = 0 /\ ~ fastrecov_ /\ ~ timeout_ => lastCut <= 0

(* What an ACK does to the window and to the recovery point.               *)
Effect(ack, w) ==
  /\ highest_ack_' >= ack.seqno /\ highest_ack_' >= highest_ack_
  /\ recover_' >= w.recover \/ highest_ack_' >= w.recover
  /\ fastrecov_' => recover_' >= 1
  /\ highest_ack_ = 0 /\ highest_ack_' = 0 /\ ~ fastrecov_' /\ ~ timeout_' =>
       ~ fastrecov_ /\ ~ timeout_
  /\ last_cwnd_action_' = "timeout" /\ highest_ack_' <= 0 => cwnd_' = 1
  /\ ~ conf.dctcp_ /\ cwnd_' < cwnd_ =>
       \/ w # Window
       \/ MayRecover(w) /\ recover_' = maxseq_ /\ ~ fastrecov_ /\ ~ timeout_ /\ fastrecov_'

(* What the branches of recv need for it.                                  *)
LEMMA Before ==
  ASSUME NEW R, NEW ack, NEW w, Receiving(ack, w, R), FirstWindow
  PROVE  /\ maxseq_ \in Nat /\ ack.seqno \in 0 .. maxseq_
         /\ highest_ack_ \in -1 .. maxseq_ /\ last_ack_ \in -1 .. highest_ack_
         /\ ~ fastrecov_ => last_ack_ = highest_ack_
         /\ fastrecov_ => highest_ack_ # -1 /\ recover_ >= 1 /\ ~ timeout_
         /\ recover_ \in 0 .. maxseq_ /\ w.recover \in recover_ .. maxseq_
         /\ cwnd_ \in 1 .. maxcwnd_ /\ w.cwnd \in 1 .. maxcwnd_ /\ maxcwnd_ \in Nat
         /\ w = Window =>
              w.cwnd = cwnd_ /\ w.action = last_cwnd_action_ /\ w.recover = recover_
         /\ w # Window =>
              /\ w.action = "ecn" /\ w.recover = maxseq_ /\ conf.ecn_
              /\ ack.seqno > recover_ \/ last_cwnd_action_ = "timeout"
<1>1. /\ maxseq_ \in Nat /\ ack.seqno \in 0 .. maxseq_ /\ recover_ \in 0 .. maxseq_
      /\ w \in WindowType /\ w.recover >= recover_
  BY Reception
<1>2. /\ highest_ack_ \in -1 .. maxseq_ /\ last_ack_ \in -1 .. highest_ack_
      /\ ~ fastrecov_ => last_ack_ = highest_ack_
  BY Handled
<1>3. w.recover \in recover_ .. maxseq_ /\ w.cwnd \in 1 .. maxcwnd_ /\ maxcwnd_ \in Nat
  BY <1>1, SenderAssumption DEF WindowType
<1>4. cwnd_ \in 1 .. maxcwnd_
  BY DEF Receiving, SenderInv, SenderTypeOK
<1>5. fastrecov_ => highest_ack_ # -1 /\ recover_ >= 1 /\ ~ timeout_
  BY DEF Receiving, SenderInv, SynIsAlone, RecoveryIsSound, RecoveryHasAnEnd, FirstWindow
<1>6. w = Window =>
        w.cwnd = cwnd_ /\ w.action = last_cwnd_action_ /\ w.recover = recover_
  BY DEF Window
<1>7. w # Window =>
        /\ w.action = "ecn" /\ w.recover = maxseq_ /\ conf.ecn_
        /\ ack.seqno > recover_ \/ last_cwnd_action_ = "timeout"
  BY DEF Receiving, AfterEcn, Slowed
<1> QED BY <1>1, <1>2, <1>3, <1>4, <1>5, <1>6, <1>7

(* A branch that keeps the window that ecn() leaves.                       *)
LEMMA WindowIsKept ==
  ASSUME NEW R, NEW ack, NEW w, Receiving(ack, w, R), FirstWindow,
         cwnd_' = w.cwnd, last_cwnd_action_' \in {w.action, "dupack"},
         highest_ack_' \in Int, highest_ack_' >= highest_ack_
  PROVE  /\ last_cwnd_action_' = "timeout" /\ highest_ack_' <= 0 => cwnd_' = 1
         /\ cwnd_' < cwnd_ => w # Window
<1>1. ASSUME last_cwnd_action_' = "timeout", highest_ack_' <= 0 PROVE cwnd_' = 1
  <2>1. w.action = "timeout"
    BY <1>1
  <2>2. w = Window /\ w.cwnd = cwnd_ /\ last_cwnd_action_ = "timeout"
    BY <2>1, Before
  <2>3. highest_ack_ <= 0
    <3>1. PICK h : h = highest_ack_'
      OBVIOUS
    <3>2. highest_ack_ \in Int /\ maxseq_ \in Nat
      BY Before
    <3> QED BY <1>1, <3>1, <3>2
  <2> QED BY <2>2, <2>3 DEF FirstWindow
<1>2. ASSUME cwnd_' < cwnd_, w = Window PROVE FALSE
  <2>1. w.cwnd = cwnd_ /\ cwnd_ \in Int
    BY <1>2, Before
  <2> QED BY <1>2, <2>1
<1> QED BY <1>1, <1>2

(* The ACKs outside a recovery that start none.                            *)
LEMMA QuietEffect ==
  ASSUME NEW R, NEW ack, NEW w, Receiving(ack, w, R), FirstWindow,
         RecvNoNews(ack, w) \/ LimitedTransmit(ack, w) \/ CountDuplicate(ack, w)
  PROVE  Effect(ack, w)
<1>1. /\ ~ fastrecov_ /\ ack.seqno <= last_ack_ /\ SetWindow(w)
      /\ UNCHANGED <<highest_ack_, fastrecov_, timeout_>>
  BY Before DEF RecvNoNews, LimitedTransmit, CountDuplicate, DuplicateAck
<1>2. cwnd_' = w.cwnd /\ last_cwnd_action_' = w.action /\ recover_' = w.recover
  BY <1>1 DEF SetWindow
<1>3. /\ highest_ack_ \in Int /\ ack.seqno <= highest_ack_ /\ w.recover \in Int
      /\ highest_ack_' = highest_ack_
  BY <1>1, Before
<1>4. /\ last_cwnd_action_' = "timeout" /\ highest_ack_' <= 0 => cwnd_' = 1
      /\ cwnd_' < cwnd_ => w # Window
  <2>1. highest_ack_' \in Int /\ highest_ack_' >= highest_ack_
    BY <1>3
  <2> QED BY <1>2, <2>1, WindowIsKept
<1>5. recover_' >= w.recover /\ highest_ack_' >= ack.seqno /\ highest_ack_' >= highest_ack_
  BY <1>2, <1>3
<1> QED BY <1>1, <1>4, <1>5 DEF Effect

(* The ACKs in a recovery.                                                 *)
LEMMA RecoveryEffect ==
  ASSUME NEW R, NEW ack, NEW w, Receiving(ack, w, R), FirstWindow,
         EndRecovery(ack, w) \/ PartialAck(ack, w) \/ RecoveryDupAck(ack, w)
  PROVE  Effect(ack, w)
<1>1. /\ fastrecov_ /\ highest_ack_ \in Int /\ ack.seqno \in Int /\ w.recover \in Int
      /\ w.recover >= 1 /\ highest_ack_ <= w.recover /\ ~ timeout_
  <2>1. fastrecov_
    BY DEF EndRecovery, PartialAck, RecoveryDupAck
  <2>2. highest_ack_ <= recover_
    BY <2>1 DEF Receiving, SenderInv, RecoveryIsSound, RecoveryHasAnEnd
  <2> QED BY <2>1, <2>2, Before
<1>2. cwnd_' = w.cwnd /\ last_cwnd_action_' = w.action
  BY DEF EndRecovery, PartialAck, RecoveryDupAck, SetWindow
<1>3. \/ /\ ~ fastrecov_' /\ highest_ack_' = ack.seqno /\ ack.seqno >= w.recover
      \/ /\ fastrecov_' /\ highest_ack_' = AtLeast(highest_ack_, ack.seqno)
         /\ recover_' = w.recover
  <2>1. CASE EndRecovery(ack, w)
    BY <2>1 DEF EndRecovery, NewAck
  <2>2. CASE PartialAck(ack, w)
    <3>1. fastrecov_' /\ highest_ack_' = ack.seqno /\ recover_' = w.recover
      BY <1>1, <2>2 DEF PartialAck, SetWindow
    <3>2. AtLeast(highest_ack_, ack.seqno) = ack.seqno
      BY <1>1, <2>2 DEF PartialAck, AtLeast
    <3> QED BY <3>1, <3>2
  <2>3. CASE RecoveryDupAck(ack, w)
    <3>1. fastrecov_' /\ highest_ack_' = highest_ack_ /\ recover_' = w.recover
      BY <1>1, <2>3 DEF RecoveryDupAck, SetWindow
    <3>2. AtLeast(highest_ack_, ack.seqno) = highest_ack_
      BY <1>1, <2>3 DEF RecoveryDupAck, AtLeast
    <3> QED BY <3>1, <3>2
  <2> QED BY <2>1, <2>2, <2>3
<1>4. PICK h : h = highest_ack_'
  OBVIOUS
<1>5. h \in Int /\ h >= ack.seqno /\ h >= highest_ack_
  BY <1>1, <1>3, <1>4 DEF AtLeast
<1>6. /\ last_cwnd_action_' = "timeout" /\ highest_ack_' <= 0 => cwnd_' = 1
      /\ cwnd_' < cwnd_ => w # Window
  <2>1. highest_ack_' \in Int /\ highest_ack_' >= highest_ack_
    BY <1>4, <1>5
  <2> QED BY <1>2, <2>1, WindowIsKept
<1>7. CASE fastrecov_'
  <2>1. recover_' >= w.recover /\ recover_' >= 1
    BY <1>1, <1>3, <1>7
  <2> QED BY <1>4, <1>5, <1>6, <1>7, <2>1 DEF Effect
<1>8. CASE ~ fastrecov_'
  <2>1. highest_ack_' >= w.recover /\ highest_ack_' # 0
    BY <1>1, <1>3, <1>8
  <2> QED BY <1>4, <1>5, <1>6, <1>8, <2>1 DEF Effect
<1> QED BY <1>7, <1>8

(* The duplicate ACK that starts a recovery.                               *)
LEMMA StartEffect ==
  ASSUME NEW R, NEW ack, NEW w, Receiving(ack, w, R), FirstWindow,
         FastRetransmit(ack, w) \/ EcnRetransmit(ack, w)
  PROVE  Effect(ack, w)
<1>1. /\ fastrecov_' /\ ~ fastrecov_ /\ ~ timeout_ /\ highest_ack_' = highest_ack_
      /\ last_cwnd_action_' = "dupack" /\ ack.seqno = last_ack_
  <2>1. StartRecovery /\ DuplicateAck(ack)
    BY DEF FastRetransmit, EcnRetransmit
  <2>2. last_cwnd_action_' = "dupack"
    <3>1. \A r : Halved(w, "dupack", r).action = "dupack"
      BY DEF Halved, Slowed
    <3>2. [w EXCEPT !.action = "dupack"].action = "dupack"
      <4>1. w \in WindowType
        BY Reception
      <4> QED BY <4>1 DEF WindowType
    <3> QED BY <3>1, <3>2 DEF FastRetransmit, EcnRetransmit, SetWindow
  <2> QED BY <2>1, <2>2 DEF DuplicateAck, StartRecovery
<1>2. /\ maxseq_ \in Nat /\ highest_ack_ \in 0 .. maxseq_ /\ ack.seqno = highest_ack_
      /\ w.recover \in 0 .. maxseq_
  <2>1. recover_ \in Nat /\ maxseq_ \in Nat /\ w.recover \in recover_ .. maxseq_
    BY Before
  <2> QED BY <1>1, <2>1, Before
<1>3. highest_ack_' >= ack.seqno /\ highest_ack_' >= highest_ack_ /\ highest_ack_' \in Int
  BY <1>1, <1>2
<1>4. CASE FastRetransmit(ack, w)
  <2>1. MayRecover(w) /\ recover_' = maxseq_
    BY <1>4 DEF FastRetransmit, SetWindow, Halved, Slowed
  <2>2. maxseq_ >= 1
    <3>1. CASE highest_ack_ = 0
      BY <3>1 DEF FirstWindow
    <3>2. CASE highest_ack_ > w.recover
      BY <1>2, <3>2
    <3> QED BY <2>1, <3>1, <3>2 DEF MayRecover
  <2>3. recover_' >= 1 /\ recover_' >= w.recover
    BY <1>2, <2>1, <2>2
  <2> QED BY <1>1, <1>3, <2>1, <2>3 DEF Effect
<1>5. CASE EcnRetransmit(ack, w)
  <2>1. ~ MayRecover(w) /\ recover_' = w.recover
    BY <1>5 DEF EcnRetransmit, SetWindow, Halved, Slowed
  <2>2. w.recover >= 1
    BY <1>2, <2>1 DEF MayRecover
  <2>3. recover_' >= 1 /\ recover_' >= w.recover
    BY <1>2, <2>1, <2>2
  <2>4. ~ conf.dctcp_ => cwnd_' = w.cwnd
    BY <1>5 DEF EcnRetransmit, SetWindow
  <2>5. ~ conf.dctcp_ /\ cwnd_' < cwnd_ => w # Window
    BY <1>1, <1>3, <2>4, WindowIsKept
  <2> QED BY <1>1, <1>3, <2>3, <2>5 DEF Effect
<1> QED BY <1>4, <1>5

(* An ACK of something new outside a recovery.                             *)
LEMMA NewAckEffect ==
  ASSUME NEW R, NEW ack, NEW w, Receiving(ack, w, R), FirstWindow, RecvNewAck(ack, w)
  PROVE  Effect(ack, w)
<1>1. /\ ~ fastrecov_ /\ ~ fastrecov_' /\ highest_ack_' = ack.seqno /\ ack.seqno > last_ack_
  BY DEF RecvNewAck, IsNew, NewAck
<1>2. /\ maxseq_ \in Nat /\ ack.seqno \in 0 .. maxseq_ /\ highest_ack_ \in -1 .. maxseq_
      /\ last_ack_ = highest_ack_ /\ w.recover \in Int
  BY <1>1, Before
<1>3. /\ highest_ack_' >= ack.seqno /\ highest_ack_' >= highest_ack_
      /\ ~ (highest_ack_ = 0 /\ highest_ack_' = 0)
  BY <1>1, <1>2
<1>4. PICK c \in Opened(w, ack.ecnecho) :
        SetWindow([w EXCEPT !.cwnd = IF ack.seqno = 0 THEN wnd_init_ ELSE c])
  BY DEF RecvNewAck
<1>5. w \in WindowType
  BY Reception
<1>6. /\ cwnd_' = IF ack.seqno = 0 THEN wnd_init_ ELSE c
      /\ last_cwnd_action_' = w.action /\ recover_' = w.recover
  BY <1>4, <1>5 DEF SetWindow, WindowType
<1>7. recover_' >= w.recover
  BY <1>2, <1>6
<1>8. CASE ack.seqno = 0
  <2>1. highest_ack_ = -1
    BY <1>1, <1>2, <1>8
  <2>2. wnd_init_ \in 1 .. 2 /\ cwnd_ = 1
    BY <2>1 DEF Receiving, SenderInv, SenderTypeOK, SynIsAlone
  <2>3. ~ (cwnd_' < cwnd_)
    BY <1>6, <1>8, <2>2
  <2>4. last_cwnd_action_' = "timeout" => cwnd_' = 1
    <3> SUFFICES ASSUME last_cwnd_action_' = "timeout" PROVE cwnd_' = 1
      OBVIOUS
    <3>1. last_cwnd_action_ = "timeout"
      BY <1>6, Before
    <3> QED BY <1>6, <1>8, <2>1, <3>1 DEF FirstWindow
  <2> QED BY <1>1, <1>3, <1>7, <2>3, <2>4 DEF Effect
<1>9. CASE ack.seqno # 0
  <2>1. ~ (highest_ack_' <= 0)
    BY <1>1, <1>2, <1>9
  <2>2. cwnd_' < cwnd_ => w # Window
    <3> SUFFICES ASSUME w = Window PROVE ~ (cwnd_' < cwnd_)
      OBVIOUS
    <3>1. w.cwnd = cwnd_ /\ cwnd_ \in 1 .. maxcwnd_ /\ maxcwnd_ \in Nat
      BY Before
    <3>2. c \in {AtMost(w.cwnd, maxcwnd_), AtMost(w.cwnd + 1, maxcwnd_), w.cwnd}
      BY DEF Opened
    <3>3. c >= cwnd_
      BY <3>1, <3>2 DEF AtMost
    <3> QED BY <1>6, <1>9, <3>1, <3>2, <3>3 DEF AtMost
  <2> QED BY <1>1, <1>3, <1>7, <2>1, <2>2 DEF Effect
<1> QED BY <1>8, <1>9

LEMMA AckEffect ==
  ASSUME NEW R, NEW ack, NEW w, Receiving(ack, w, R), FirstWindow, Handles(ack, w)
  PROVE  Effect(ack, w)
BY QuietEffect, RecoveryEffect, StartEffect, NewAckEffect DEF Handles

(* The ACK of the SYN is answered by a segment.                            *)
LEMMA SynAckSends ==
  ASSUME NEW R, NEW ack, NEW w, Receiving(ack, w, R), RecvNewAck(ack, w), ack.seqno = 0
  PROVE  maxseq_' >= 1
<1>1. /\ ~ fastrecov_ /\ ~ fastrecov_' /\ last_ack_' = 0 /\ last_ack_ < 0
  BY DEF RecvNewAck, IsNew, NewAck
<1>2. /\ maxseq_ \in Nat /\ highest_ack_ \in -1 .. maxseq_ /\ last_ack_ \in -1 .. highest_ack_
      /\ last_ack_ = highest_ack_ /\ t_seqno_ \in last_ack_ + 1 .. maxseq_ + 1
  BY <1>1, Handled, Reception
<1>3. highest_ack_ = -1 /\ last_ack_ = -1
  BY <1>1, <1>2
<1>4. maxseq_ = 0 /\ t_seqno_ \in 0 .. 1
  <2>1. maxseq_ <= 0
    BY <1>3 DEF Receiving, SenderInv, SynIsAlone
  <2> QED BY <1>2, <1>3, <2>1
<1>5. AtLeast(t_seqno_, ack.seqno + 1) = 1
  BY <1>4 DEF AtLeast
<1>6. PICK c : cwnd_' = c /\ c \in 1 .. 2
  <2>1. wnd_init_ \in 1 .. 2 /\ w \in WindowType
    BY Reception DEF Receiving, SenderInv, SenderTypeOK
  <2>2. cwnd_' = wnd_init_
    BY <2>1 DEF RecvNewAck, SetWindow, WindowType
  <2> QED BY <2>1, <2>2
<1>7. curseq_ \in Nat /\ curseq_ >= 2 /\ wnd_ \in Nat /\ wnd_ >= 1
  <2>1. conf.size \in Nat \ {0}
    BY SenderAssumption DEF Receiving, SenderInv, SenderTypeOK, AllSettings
  <2>2. curseq_ = conf.size + 1
    BY Reception
  <2> QED BY <2>1, <2>2, SenderAssumption
<1> DEFINE top == AtMost(0 + window(c), curseq_ - 1)
<1>8. top \in Int /\ top >= 1
  BY <1>6, <1>7 DEF AtMost, window
<1>9. \E timer : SendMuch(1, 0, {}, timer)
  BY <1>5 DEF RecvNewAck, SendAfterNewAck
<1>10. \E resent, timer : resent = {} /\ Output(resent, 1 .. top, timer)
  <2>1. PICK timer : SendMuch(1, 0, {}, timer)
    BY <1>9
  <2> DEFINE room   == cwnd_' - 0
             holes  == IF fastrecov_' THEN Holes({}) ELSE {}
             resent == IF recover_' > 0 THEN FirstOf(room, holes) ELSE {}
             first  == FirstAfter(1, resent)
             last   == IF fastrecov_'
                       THEN AtMost(highest_ack_' + wnd_, first + room - Cardinality(resent) - 1)
                       ELSE last_ack_' + window(cwnd_')
             fresh  == IF resent = holes THEN first .. AtMost(last, curseq_ - 1) ELSE {}
  <2>2. Output(resent, fresh, timer)
    BY <2>1 DEF SendMuch, FirstAfter
  <2>3. holes = {} /\ resent = {} /\ first = 1
    BY <1>1 DEF FirstOf, FirstAfter
  <2>4. AtMost(last, curseq_ - 1) = top
    BY <1>1, <1>6
  <2>5. fresh = 1 .. top
    BY <2>3, <2>4
  <2> QED BY <2>2, <2>3, <2>5
<1> HIDE DEF top
<1>11. maxseq_' = Max({maxseq_} \union {} \union (1 .. top))
  BY <1>10 DEF Output
<1>12. Max({maxseq_} \union {} \union (1 .. top)) = top
  <2> DEFINE S == {maxseq_} \union {} \union (1 .. top)
  <2>1. S \in SUBSET Int /\ top \in S /\ \A x \in S : x <= top
    BY <1>4, <1>8
  <2> HIDE DEF S
  <2>2. Max(S) = top
    BY <2>1, MaxIs
  <2> QED BY <2>2 DEF S
<1> QED BY <1>8, <1>11, <1>12

(* The invariant that the property needs.                                  *)
CutInv == IInv /\ FirstWindow /\ CutIsKnown

LEMMA DeliverAckKeepsCut ==
  ASSUME CutInv, IInv', NEW ack, DeliverAck(ack)
  PROVE  FirstWindow' /\ CutIsKnown'
<1>1. PICK R, w : R = received /\ Handles(ack, w) /\ Receiving(ack, w, R)
  BY AckIsReceiving DEF CutInv
<1>2. FirstWindow /\ CutIsKnown
  BY DEF CutInv
<1>3. Effect(ack, w)
  BY <1>1, <1>2, AckEffect
<1>4. PICK h, r, c, m, cut :
        h = highest_ack_' /\ r = recover_' /\ c = cwnd_' /\ m = maxseq_' /\ cut = lastCut'
  OBVIOUS
<1>5. /\ h \in Int /\ r \in Nat /\ c \in Nat /\ c >= 1 /\ m \in Int
  <2>1. SenderTypeOK'
    BY DEF IInv, SenderInv
  <2>2. /\ h \in -1 .. m /\ c \in 1 .. maxcwnd_ /\ conf' \in Settings
        /\ m \in -1 .. conf'.size /\ r \in 0 .. conf'.size
    BY <1>4, <2>1 DEF SenderTypeOK
  <2> QED BY <2>2, SenderAssumption DEF AllSettings
<1>6. /\ maxseq_ \in Nat /\ highest_ack_ \in -1 .. maxseq_ /\ recover_ \in 0 .. maxseq_
      /\ w.recover \in recover_ .. maxseq_ /\ ack.seqno \in 0 .. maxseq_ /\ cwnd_ \in Nat
      /\ w # Window => /\ w.recover = maxseq_
                       /\ ack.seqno > recover_ \/ last_cwnd_action_ = "timeout"
  BY <1>1, <1>2, Before
<1>7. lastCut \in -1 .. maxseq_ /\ cut = IF c < cwnd_ THEN maxseq_ ELSE lastCut
  BY <1>4 DEF CutInv, IInv, PathTypeOK, DeliverAck
<1>8. h >= ack.seqno /\ h >= highest_ack_ /\ h >= 0 /\ (r >= w.recover \/ h >= w.recover)
  BY <1>3, <1>4, <1>5, <1>6 DEF Effect
<1>9. ~ conf.dctcp_ /\ c < cwnd_ =>
        \/ w # Window
        \/ /\ highest_ack_ > w.recover \/ highest_ack_ = 0
           /\ r = maxseq_ /\ ~ fastrecov_ /\ ~ timeout_ /\ fastrecov_'
  BY <1>3, <1>4 DEF Effect, MayRecover
<1>10. FirstWindow'
  <2>1. h = 0 => m >= 1
    <3>1. CASE RecvNewAck(ack, w) /\ ack.seqno = 0
      BY <1>1, <1>4, <3>1, SynAckSends
    <3>2. CASE ~ RecvNewAck(ack, w)
      <4>1. highest_ack_ # -1
        <5>1. CASE fastrecov_
          BY <5>1 DEF CutInv, IInv, SenderInv, SynIsAlone
        <5>2. CASE ~ fastrecov_
          <6>1. ack.seqno <= last_ack_ /\ last_ack_ = highest_ack_
            <7>1. ack.seqno < last_ack_ \/ ack.seqno = last_ack_
              BY <1>1, <3>2, <5>2
              DEF Handles, RecvNoNews, LimitedTransmit, FastRetransmit, EcnRetransmit,
                  CountDuplicate, DuplicateAck, EndRecovery, PartialAck, RecoveryDupAck
            <7>2. last_ack_ = highest_ack_
              BY <1>1, <1>2, <5>2, Before
            <7> QED BY <1>6, <7>1, <7>2
          <6> QED BY <1>6, <6>1
        <5> QED BY <5>1, <5>2
      <4>2. Kept(R)
        BY <1>1, RecvPreserves
      <4>3. m >= maxseq_
        BY <1>4, <1>5, <1>6, <4>2 DEF Kept
      <4>4. h = 0 => highest_ack_ = 0
        BY <1>6, <1>8, <4>1
      <4> QED BY <1>2, <1>5, <1>6, <4>3, <4>4 DEF FirstWindow
    <3>3. CASE ack.seqno # 0
      BY <1>6, <1>8, <3>3
    <3> QED BY <3>1, <3>2, <3>3
  <2>2. fastrecov_' => r >= 1
    BY <1>3, <1>4 DEF Effect
  <2>3. last_cwnd_action_' = "timeout" /\ h <= 0 => c = 1
    BY <1>3, <1>4 DEF Effect
  <2>4. h # -1
    BY <1>5, <1>8
  <2> QED BY <1>4, <2>1, <2>2, <2>3, <2>4 DEF FirstWindow
<1>11. conf' = conf
  BY <1>1 DEF Handles, RecvNewAck, RecvNoNews, LimitedTransmit, FastRetransmit, EcnRetransmit,
              CountDuplicate, DuplicateAck, EndRecovery, PartialAck, RecoveryDupAck
<1>12. ASSUME ~ conf.dctcp_ PROVE cut <= r \/ cut <= h
  <2>1. lastCut <= recover_ \/ lastCut <= highest_ack_
    BY <1>2, <1>12 DEF CutIsKnown
  <2> QED BY <2>1, <1>5, <1>6, <1>7, <1>8, <1>9, <1>12
<1>13. ASSUME ~ conf.dctcp_, h = 0, ~ fastrecov_', ~ timeout_' PROVE cut <= 0
  <2>1. CASE highest_ack_ = -1
    <3>1. maxseq_ <= 0
      BY <2>1 DEF CutInv, IInv, SenderInv, SynIsAlone
    <3> QED BY <1>6, <1>7, <3>1
  <2>2. CASE highest_ack_ = 0
    <3>1. ~ fastrecov_ /\ ~ timeout_
      BY <1>3, <1>4, <1>13, <2>2 DEF Effect
    <3>2. lastCut <= 0
      BY <1>2, <1>13, <2>2, <3>1 DEF CutIsKnown
    <3>3. ~ (c < cwnd_)
      <4> SUFFICES ASSUME c < cwnd_ PROVE FALSE
        OBVIOUS
      <4>1. w # Window
        BY <1>9, <1>13
      <4>2. last_cwnd_action_ = "timeout"
        BY <1>6, <1>8, <1>13, <4>1
      <4>3. cwnd_ = 1
        BY <1>2, <2>2, <4>2 DEF FirstWindow
      <4> QED BY <1>5, <4>3
    <3> QED BY <1>7, <3>2, <3>3
  <2> QED BY <1>6, <1>8, <1>13, <2>1, <2>2
<1>14. CutIsKnown'
  BY <1>4, <1>11, <1>12, <1>13 DEF CutIsKnown
<1> QED BY <1>10, <1>14

LEMMA RtxTimeoutKeepsCut ==
  ASSUME CutInv, IInv', RtxTimeout
  PROVE  FirstWindow' /\ CutIsKnown'
<1>1. /\ highest_ack_' = highest_ack_ /\ ~ fastrecov_' /\ timeout_' /\ conf' = conf
      /\ wnd_init_' = IF highest_ack_ = -1 THEN 1 ELSE wnd_init_
      /\ cwnd_' = TimedOutWindow /\ recover_' = maxseq_ /\ rtx_timer_ /\ lastCut' = maxseq_
  BY DEF RtxTimeout, Timeout, TimeoutFrom, SetWindow
<1>2. PICK R : R = received
  OBVIOUS
<1>3. Kept(R)
  BY <1>2, TimeoutPreserves DEF CutInv, IInv, RtxTimeout
<1>4. PICK m : m = maxseq_'
  OBVIOUS
<1>5. maxseq_ \in Int /\ m \in Int /\ m >= maxseq_ /\ highest_ack_ \in Int /\ maxseq_ # -1
  <2>1. maxseq_ \in Int /\ highest_ack_ \in Int /\ maxseq_ # -1
    BY <1>1, SenderAssumption DEF CutInv, IInv, SenderInv, SenderTypeOK, AllSettings
  <2>2. m \in Int
    BY <1>4, SenderAssumption DEF IInv, SenderInv, SenderTypeOK, AllSettings
  <2> QED BY <1>3, <1>4, <2>1, <2>2 DEF Kept
<1>6. FirstWindow'
  <2>1. highest_ack_ = 0 => maxseq_ >= 1
    BY DEF CutInv, FirstWindow
  <2>2. highest_ack_' = 0 => m >= 1
    BY <1>1, <1>5, <2>1
  <2>3. ASSUME highest_ack_ <= 0 PROVE cwnd_' = 1
    <3>1. highest_ack_ # maxseq_
      <4>1. highest_ack_ \in -1 .. maxseq_
        BY DEF CutInv, IInv, SenderInv, SenderTypeOK
      <4> QED BY <1>5, <2>1, <2>3, <4>1
    <3> QED BY <1>1, <3>1 DEF TimedOutWindow
  <2> QED BY <1>1, <1>4, <2>2, <2>3 DEF FirstWindow
<1>7. CutIsKnown'
  BY <1>1, <1>5 DEF CutIsKnown
<1> QED BY <1>6, <1>7

LEMMA NextCutInv == CutInv /\ [Next]_vars => CutInv'
<1> SUFFICES ASSUME CutInv, [Next]_vars PROVE CutInv'
  OBVIOUS
<1>1. IInv'
  BY NextIInv DEF CutInv
<1>2. CASE UNCHANGED <<highest_ack_, maxseq_, fastrecov_, timeout_, windowVars, wnd_init_, conf,
                       lastCut>>
  <2>1. FirstWindow' /\ CutIsKnown'
    BY <1>2 DEF windowVars, CutInv, FirstWindow, CutIsKnown
  <2> QED BY <1>1, <2>1 DEF CutInv
<1>3. CASE Start
  <2>1. UNCHANGED <<highest_ack_, fastrecov_, timeout_, windowVars, wnd_init_, conf, lastCut>>
    BY <1>3 DEF Start, SendMsg
  <2>2. highest_ack_ = -1
    <3>1. curseq_ = 0
      BY <1>3 DEF Start, SendMsg
    <3>2. maxseq_ \in Int /\ maxseq_ < 0 /\ highest_ack_ \in -1 .. maxseq_
      BY <3>1, SenderAssumption DEF CutInv, IInv, SenderInv, SenderTypeOK, AllSettings
    <3> QED BY <3>2
  <2>3. FirstWindow' /\ CutIsKnown'
    BY <2>1, <2>2 DEF windowVars, CutInv, FirstWindow, CutIsKnown
  <2> QED BY <1>1, <2>3 DEF CutInv
<1>4. ASSUME NEW s, DeliverData(s) \/ DropData(s) PROVE CutInv'
  BY <1>2, <1>4 DEF DeliverData, DropData
<1>5. ASSUME NEW ack, DeliverAck(ack) PROVE CutInv'
  BY <1>1, <1>5, DeliverAckKeepsCut DEF CutInv
<1>6. ASSUME NEW ack, DropAck(ack) PROVE CutInv'
  BY <1>2, <1>6 DEF DropAck, senderVars
<1>7. CASE RtxTimeout
  BY <1>1, <1>7, RtxTimeoutKeepsCut DEF CutInv
<1>8. CASE UNCHANGED vars
  BY <1>2, <1>8 DEF vars, senderVars
<1> QED BY <1>3, <1>4, <1>5, <1>6, <1>7, <1>8 DEF Next

LEMMA InitCutInv == Init => CutInv
BY InitIInv DEF Init, SenderInit, CutInv, FirstWindow, CutIsKnown

(* A sender that does not cut by a share of its window cuts it once for    *)
(* the segments outstanding at the last cut, unless the timer expires or a *)
(* mark arrives after it has (dupack_action, ecn).                         *)
THEOREM TransferOneCutPerWindow == Spec => OneCutPerWindow
<1> DEFINE A == ~ conf.dctcp_ /\ cwnd_' < cwnd_ /\ last_cwnd_action_' # "timeout" =>
                  \/ highest_ack_' >= lastCut
                  \/ conf.ecn_ /\ last_cwnd_action_ = "timeout"
<1>1. CutInv /\ [Next]_vars => [A]_vars
  <2> SUFFICES ASSUME CutInv, Next, ~ conf.dctcp_, cwnd_' < cwnd_,
                      last_cwnd_action_' # "timeout"
               PROVE  \/ highest_ack_' >= lastCut
                      \/ conf.ecn_ /\ last_cwnd_action_ = "timeout"
    OBVIOUS
  <2>1. cwnd_' # cwnd_
    <3>1. cwnd_ \in Int
      BY DEF CutInv, IInv, SenderInv, SenderTypeOK
    <3> QED BY <3>1
  <2>2. ~ RtxTimeout
    BY DEF RtxTimeout, Timeout, TimeoutFrom, SetWindow
  <2>3. PICK ack : DeliverAck(ack)
    BY <2>1, <2>2
    DEF Next, Start, SendMsg, DeliverData, DropData, DropAck, senderVars, windowVars
  <2>4. PICK R, w : R = received /\ Handles(ack, w) /\ Receiving(ack, w, R)
    BY <2>3, AckIsReceiving DEF CutInv
  <2>5. FirstWindow /\ CutIsKnown /\ lastCut \in -1 .. maxseq_
    BY DEF CutInv, IInv, PathTypeOK
  <2>6. Effect(ack, w)
    BY <2>4, <2>5, AckEffect
  <2>7. PICK h : h = highest_ack_'
    OBVIOUS
  <2>8. h \in Int
    <3>1. IInv'
      BY NextIInv DEF CutInv
    <3> QED BY <2>7, <3>1 DEF IInv, SenderInv, SenderTypeOK
  <2>9. /\ maxseq_ \in Nat /\ highest_ack_ \in Int /\ recover_ \in Nat /\ ack.seqno \in Int
        /\ h >= ack.seqno /\ h >= highest_ack_
    BY <2>4, <2>5, <2>6, <2>7, Before DEF Effect
  <2>10. lastCut <= recover_ \/ lastCut <= highest_ack_
    BY <2>5 DEF CutIsKnown
  <2>11. CASE w # Window
    <3>1. conf.ecn_ /\ (ack.seqno > recover_ \/ last_cwnd_action_ = "timeout")
      BY <2>4, <2>5, <2>11, Before
    <3> QED BY <2>5, <2>7, <2>8, <2>9, <2>10, <3>1
  <2>12. CASE w = Window
    <3>1. (highest_ack_ > w.recover \/ highest_ack_ = 0) /\ ~ fastrecov_ /\ ~ timeout_
      BY <2>6, <2>12 DEF Effect, MayRecover
    <3>2. w.recover = recover_
      BY <2>12 DEF Window
    <3>3. CASE highest_ack_ = 0
      <4>1. lastCut <= 0
        BY <2>5, <3>1, <3>3 DEF CutIsKnown
      <4> QED BY <2>5, <2>7, <2>8, <2>9, <3>3, <4>1
    <3>4. CASE highest_ack_ > recover_
      BY <2>5, <2>7, <2>8, <2>9, <2>10, <3>4
    <3> QED BY <3>1, <3>2, <3>3, <3>4
  <2> QED BY <2>11, <2>12
<1>2. Spec => []CutInv
  BY InitCutInv, NextCutInv, PTL DEF Spec
<1> QED BY <1>1, <1>2, PTL DEF Spec, OneCutPerWindow
===============================================================================
