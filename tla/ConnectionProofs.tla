--------------------------- MODULE ConnectionProofs ---------------------------
(***************************************************************************)
(* Proofs about module Connection: that the sender is told the truth, and  *)
(* that the connection keeps the safety part of the promise of module      *)
(* Stream, for every flow, sink and fault.                                 *)
(*                                                                         *)
(* The invariant is that of the sender (Sack1TcpProofs), that of the sink  *)
(* (TcpSinkProofs) and what joins them: every ACK on its way, however old, *)
(* names segments that the sink has received.                              *)
(***************************************************************************)
EXTENDS Connection, Sack1TcpProofs, TcpSinkProofs

WireIsTrue ==
  /\ Received \subseteq 0 .. maxseq_
  /\ \A ack \in BagToSet(acks) : IsTrueAck(ack, Received)

ConnectionInv ==
  /\ SenderInv /\ SinkInv /\ resets = 0
  /\ KnowsOnly(Received) /\ WireIsTrue
-------------------------------------------------------------------------------
(* The buffer and the sender's numbers.                                    *)

(* Received depends on the buffer only.                                    *)
LEMMA ReceivedStays ==
  ASSUME UNCHANGED ackerVars
  PROVE  Received' = Received /\ next_' = next_
BY DEF ackerVars, Received, Seen, Slot

LEMMA SenderNumbers ==
  ASSUME SenderInv
  PROVE  /\ maxseq_ \in Int /\ maxseq_ >= -1 /\ curseq_ \in Nat /\ maxseq_ < curseq_
         /\ highest_ack_ \in -1 .. maxseq_
         /\ 0 .. maxseq_ \subseteq Seqs
         /\ highest_ack_ = -1 => maxseq_ <= 0
<1>1. /\ conf \in Settings /\ curseq_ \in {0, conf.size + 1}
      /\ maxseq_ \in -1 .. conf.size /\ maxseq_ < curseq_
      /\ highest_ack_ \in -1 .. maxseq_
      /\ highest_ack_ = -1 => maxseq_ <= 0
  BY DEF SenderInv, SenderTypeOK, SynIsAlone
<1>2. conf.size \in Nat /\ 0 .. conf.size \subseteq Seqs
  BY <1>1, SenderAssumption, ConnectionAssumption DEF AllSettings
<1>3. 0 .. maxseq_ \subseteq 0 .. conf.size
  BY <1>1, <1>2
<1> QED BY <1>1, <1>2, <1>3

(* What is in order at the sink is what was sent, and the sender knows of  *)
(* no more.                                                                *)
LEMMA InOrder ==
  ASSUME ConnectionInv
  PROVE  /\ next_ \in Nat /\ next_ <= maxseq_ + 1 /\ next_ <= curseq_
         /\ highest_ack_ + 1 <= next_
<1>1. /\ next_ \in Nat /\ next_ \notin Received /\ 0 .. next_ - 1 \subseteq Received
  BY ReceivedFacts DEF ConnectionInv, SinkInv
<1>2. /\ maxseq_ \in Int /\ maxseq_ >= -1 /\ curseq_ \in Nat /\ maxseq_ < curseq_
      /\ highest_ack_ \in -1 .. maxseq_
  BY SenderNumbers DEF ConnectionInv
<1>3. Received \subseteq 0 .. maxseq_ /\ 0 .. highest_ack_ \subseteq Received
  BY DEF ConnectionInv, WireIsTrue, KnowsOnly
<1>4. next_ # 0 => next_ - 1 \in 0 .. next_ - 1
  BY <1>1
<1>5. next_ <= maxseq_ + 1
  BY <1>1, <1>2, <1>3, <1>4
<1>6. next_ \notin 0 .. highest_ack_
  BY <1>1, <1>3
<1> QED BY <1>1, <1>2, <1>5, <1>6

LEMMA InOrderNext ==
  ConnectionInv' =>
    (/\ next_ \in Nat /\ next_ <= maxseq_ + 1 /\ next_ <= curseq_
     /\ highest_ack_ + 1 <= next_)'
<1>1. ConnectionInv =>
        /\ next_ \in Nat /\ next_ <= maxseq_ + 1 /\ next_ <= curseq_
        /\ highest_ack_ + 1 <= next_
  BY InOrder
<1> QED BY <1>1, PTL

(* The ACK that a sink sends tells the truth.                              *)
LEMMA AckIsTrue ==
  (/\ SinkInv /\ resets = 0 /\ ackpkt # None /\ ~ timer
   /\ maxseq_ \in Int /\ Received \subseteq 0 .. maxseq_ /\ 0 \in Received)
  => IsTrueAck(OnTheWire, Received)
<1> SUFFICES ASSUME SinkInv, resets = 0, ackpkt # None, ~ timer,
                    maxseq_ \in Int, Received \subseteq 0 .. maxseq_, 0 \in Received
             PROVE  IsTrueAck(OnTheWire, Received)
  OBVIOUS
<1>1. /\ next_ \in Nat /\ next_ \notin Received /\ 0 .. next_ - 1 \subseteq Received
  BY ReceivedFacts DEF SinkInv
<1>2. /\ ackpkt.seqno = next_ - 1
      /\ \A j \in 1 .. Len(ackpkt.blocks) : HeldRun(ackpkt.blocks[j])
  BY DEF SinkInv, HistoryIsTrue
<1>3. DOMAIN ackpkt.blocks = 1 .. Len(ackpkt.blocks)
  <2>1. ackpkt.blocks \in Seq(Int \X Int)
    BY DEF SinkInv, SinkTypeOK, AckPackets
  <2> QED BY <2>1
<1>4. next_ # 0 /\ next_ - 1 \in 0 .. next_ - 1
  BY <1>1
<1>5. OnTheWire.seqno = next_ - 1
  BY <1>2 DEF OnTheWire
<1>6. OnTheWire.seqno \in 0 .. maxseq_ /\ 0 .. OnTheWire.seqno \subseteq Received
  BY <1>1, <1>4, <1>5
<1>7. ASSUME NEW s \in OnTheWire.sacked PROVE s \in Received /\ s > OnTheWire.seqno
  <2>1. PICK i \in DOMAIN ackpkt.blocks : s \in Segments(ackpkt.blocks[i])
    BY DEF OnTheWire
  <2>2. PICK b : b = ackpkt.blocks[i]
    OBVIOUS
  <2>3. HeldRun(b)
    BY <1>2, <1>3, <2>2
  <2>4. s \in b[1] .. b[2] - 1
    BY <2>1, <2>2 DEF Segments
  <2>5. b \in Int \X Int /\ next_ < b[1] /\ \A q \in b[1] .. b[2] - 1 : q \in Received
    BY <2>3 DEF HeldRun
  <2>6. s \in Int /\ s >= b[1] /\ b[1] \in Int
    BY <2>4, <2>5
  <2> QED BY <1>1, <1>5, <2>4, <2>5, <2>6
<1> QED BY <1>6, <1>7 DEF IsTrueAck

LEMMA AckIsTrueNext ==
  (/\ SinkInv /\ resets = 0 /\ ackpkt # None /\ ~ timer
   /\ maxseq_ \in Int /\ Received \subseteq 0 .. maxseq_ /\ 0 \in Received)'
  => IsTrueAck(OnTheWire, Received)'
BY AckIsTrue, PTL

-------------------------------------------------------------------------------
(* The steps.                                                              *)

(* The invariant again, after a step of the sender.                        *)
LEMMA SenderStep ==
  ASSUME ConnectionInv, Kept(Received), UNCHANGED sinkVars,
         BagToSet(acks') \subseteq BagToSet(acks)
  PROVE  ConnectionInv'
<1>1. maxseq_ \in Int /\ maxseq_' \in Int /\ maxseq_ <= maxseq_'
  <2>1. maxseq_ \in Int  BY SenderNumbers DEF ConnectionInv
  <2>2. SenderInv' /\ maxseq_ <= maxseq_'  BY DEF Kept
  <2>3. maxseq_' \in Int
    BY <2>2, SenderAssumption DEF SenderInv, SenderTypeOK, AllSettings
  <2> QED BY <2>1, <2>2, <2>3
<1>2. Received' = Received
  BY ReceivedStays DEF sinkVars
<1>3. SinkInv' /\ resets' = 0
  BY StepSinkInv DEF ConnectionInv, sinkVars
<1>4. SenderInv' /\ KnowsOnly(Received)'
  BY <1>2 DEF Kept, KnowsOnly
<1>5. WireIsTrue'
  BY <1>1, <1>2 DEF ConnectionInv, WireIsTrue, IsTrueAck
<1> QED BY <1>3, <1>4, <1>5 DEF ConnectionInv

(* An ACK that is delivered is met as Receiving says.                      *)
LEMMA AckIsReceiving ==
  ASSUME ConnectionInv, NEW ack, DeliverAck(ack)
  PROVE  \E w \in AfterEcn(ack) : Handles(ack, w) /\ Receiving(ack, w, Received)
<1>1. PICK w \in AfterEcn(ack) : Handles(ack, w)
  BY DEF DeliverAck, Recv, Handles
<1>2. IsTrueAck(ack, Received)
  BY DEF DeliverAck, BagIn, ConnectionInv, WireIsTrue
<1> QED BY <1>1, <1>2 DEF ConnectionInv, WireIsTrue, Receiving

(* An ACK arrives.                                                         *)
LEMMA DeliverAckPreserves ==
  ASSUME ConnectionInv, NEW ack, DeliverAck(ack)
  PROVE  ConnectionInv'
<1>1. PICK R, w : R = Received /\ Handles(ack, w) /\ Receiving(ack, w, R)
  BY AckIsReceiving
<1>2. Kept(R)
  BY <1>1, RecvPreserves
<1>3. Received' = Received
  BY ReceivedStays DEF DeliverAck, sinkVars
<1>4. Kept(Received)
  BY <1>1, <1>2, <1>3 DEF Kept, KnowsOnly
<1>5. BagToSet(acks') \subseteq BagToSet(acks)
  BY BagLosesOne DEF DeliverAck
<1> QED BY <1>4, <1>5, SenderStep DEF DeliverAck

(* The flow starts with its SYN.                                           *)
LEMMA StartPreserves ==
  ASSUME ConnectionInv, Start
  PROVE  ConnectionInv'
<1>1. PICK R : R = Received
  OBVIOUS
<1>2. Kept(R)
  BY <1>1, SendMsgPreserves DEF ConnectionInv, Start
<1>3. Received' = Received
  BY ReceivedStays DEF Start, sinkVars
<1>4. Kept(Received)
  BY <1>1, <1>2, <1>3 DEF Kept, KnowsOnly
<1> QED BY <1>4, SenderStep DEF Start

(* The retransmission timer expires.                                       *)
LEMMA RtxTimeoutPreserves ==
  ASSUME ConnectionInv, RtxTimeout
  PROVE  ConnectionInv'
<1>1. PICK R : R = Received
  OBVIOUS
<1>2. Kept(R)
  BY <1>1, TimeoutPreserves DEF ConnectionInv, RtxTimeout
<1>3. Received' = Received
  BY ReceivedStays DEF RtxTimeout, sinkVars
<1>4. Kept(Received)
  BY <1>1, <1>2, <1>3 DEF Kept, KnowsOnly
<1> QED BY <1>4, SenderStep DEF RtxTimeout

(* A segment that leaves the network was sent, and is one of the sink's.   *)
LEMMA LeavingSegment ==
  ASSUME ConnectionInv, NEW s, Leaves(s)
  PROVE  /\ SenderInv' /\ s \in 0 .. maxseq_ /\ s \in Seqs
         /\ UNCHANGED <<maxseq_, highest_ack_, sacked, curseq_, closed_>>
<1>1. BagToSet(data') \subseteq BagToSet(data)
  BY BagLosesOne DEF Leaves
<1>2. SenderInv'
  BY <1>1, NetworkPreserves DEF Leaves, ConnectionInv
<1>3. s \in 0 .. maxseq_
  BY DEF Leaves, BagIn, ConnectionInv, SenderInv, SenderTypeOK
<1>4. s \in Seqs
  BY <1>3, SenderNumbers DEF ConnectionInv
<1> QED BY <1>2, <1>3, <1>4 DEF Leaves

(* Once a segment arrives, the SYN has.                                    *)
LEMMA SynIsFirst ==
  ASSUME ConnectionInv, NEW s \in 0 .. maxseq_
  PROVE  0 \in Received \union {s}
<1>1. /\ maxseq_ \in Int /\ highest_ack_ \in -1 .. maxseq_
      /\ highest_ack_ = -1 => maxseq_ <= 0
  BY SenderNumbers DEF ConnectionInv
<1>2. CASE highest_ack_ = -1
  BY <1>1, <1>2
<1>3. CASE highest_ack_ # -1
  <2>1. 0 \in 0 .. highest_ack_
    BY <1>1, <1>3
  <2> QED BY <2>1 DEF ConnectionInv, KnowsOnly
<1> QED BY <1>2, <1>3

(* The invariant again, after a step of the sink, in which an ACK is sent  *)
(* or none.                                                                *)
LEMMA SinkStep ==
  ASSUME ConnectionInv, SenderInv', UNCHANGED <<maxseq_, highest_ack_, sacked>>,
         SinkInv', resets' = 0,
         Received \subseteq Received', Received' \subseteq 0 .. maxseq_, 0 \in Received',
         \/ acks' = acks
         \/ ackpkt' # None /\ ~ timer' /\ acks' = acks (+) SetToBag({OnTheWire'})
  PROVE  ConnectionInv'
<1>1. maxseq_ \in Int
  BY SenderNumbers DEF ConnectionInv
<1>2. KnowsOnly(Received)'
  BY DEF ConnectionInv, KnowsOnly
<1>3. PICK R : R = Received'
  OBVIOUS
<1>4. ASSUME NEW ack \in BagToSet(acks) PROVE IsTrueAck(ack, R)
  BY <1>3, <1>4 DEF ConnectionInv, WireIsTrue, IsTrueAck
<1>5. \A ack \in BagToSet(acks') : IsTrueAck(ack, R)
  <2>1. CASE acks' = acks
    BY <1>4, <2>1
  <2>2. CASE ackpkt' # None /\ ~ timer' /\ acks' = acks (+) SetToBag({OnTheWire'})
    <3>1. IsTrueAck(OnTheWire, Received)'
      BY <1>1, <2>2, AckIsTrueNext
    <3>2. PICK new : new = OnTheWire'
      OBVIOUS
    <3>3. IsTrueAck(new, R)
      BY <1>3, <3>1, <3>2 DEF IsTrueAck
    <3>4. BagToSet(acks') = BagToSet(acks) \union {new}
      BY <2>2, <3>2, BagGainsOne
    <3> QED BY <1>4, <3>3, <3>4
  <2> QED BY <2>1, <2>2
<1>6. WireIsTrue'
  BY <1>3, <1>5 DEF WireIsTrue, IsTrueAck
<1> QED BY <1>2, <1>6 DEF ConnectionInv

(* A segment arrives, and is answered or held.                             *)
LEMMA DeliverDataPreserves ==
  ASSUME ConnectionInv, NEW s, DeliverData(s)
  PROVE  ConnectionInv' /\ next_ <= next_'
<1>1. /\ SenderInv' /\ s \in 0 .. maxseq_ /\ s \in Seqs
      /\ UNCHANGED <<maxseq_, highest_ack_, sacked>>
  BY LeavingSegment DEF DeliverData
<1>2. Segment(s) \in sinkConf.input
  <2>1. sinkConf \in SinkSettings
    BY DEF ConnectionInv, SinkInv, SinkTypeOK
  <2> QED BY <1>1, <2>1, ConnectionAssumption
<1>3. SinkRecv(Segment(s)) /\ acks' = (IF timer' THEN acks ELSE acks (+) SetToBag({OnTheWire'}))
  BY DEF DeliverData
<1>4. SinkInv' /\ (~ Delayed(Segment(s)) => ackpkt' # None)
  BY <1>2, <1>3, RecvSinkInv DEF ConnectionInv
<1>5. Received' = Received \union {s} /\ next_ <= next_'
  <2>1. Update(s)
    BY <1>3 DEF SinkRecv, Segment
  <2> QED BY <1>1, <2>1, UpdateFacts DEF ConnectionInv, SinkInv
<1>6. resets' = 0
  BY <1>3 DEF SinkRecv, ConnectionInv
<1>7. ~ timer' => ackpkt' # None
  BY <1>3, <1>4 DEF SinkRecv
<1>8. /\ Received \subseteq Received' /\ Received' \subseteq 0 .. maxseq_ /\ 0 \in Received'
  BY <1>1, <1>5, SynIsFirst DEF ConnectionInv, WireIsTrue
<1>9. timer' \in BOOLEAN
  BY <1>4 DEF SinkInv, SinkTypeOK
<1>10. \/ acks' = acks
       \/ ackpkt' # None /\ ~ timer' /\ acks' = acks (+) SetToBag({OnTheWire'})
  BY <1>3, <1>7, <1>9, Zenon
<1>11. ConnectionInv'
  BY <1>1, <1>4, <1>6, <1>8, <1>10, SinkStep
<1> QED BY <1>5, <1>11

(* The timer of the sink expires.                                          *)
LEMMA DelAckTimeoutPreserves ==
  ASSUME ConnectionInv, DelAckTimeout
  PROVE  ConnectionInv'
<1>1. SinkInv' /\ ackpkt' # None
  BY TimeoutSinkInv DEF ConnectionInv, DelAckTimeout
<1>2. UNCHANGED ackerVars /\ resets' = resets /\ timer' = FALSE
  BY DEF DelAckTimeout, SinkTimeout
<1>3. Received' = Received
  BY <1>2, ReceivedStays
<1>4. 0 \in Received
  <2>1. save_ # None /\ save_.seqno = next_ - 1
    BY DEF DelAckTimeout, SinkTimeout, ConnectionInv, SinkInv, HeldIsLast
  <2>2. save_ \in Packets
    <3>1. sinkConf.input \subseteq Packets /\ save_ \in sinkConf.input \union {None}
      BY SettingsFacts DEF ConnectionInv, SinkInv, SinkTypeOK
    <3> QED BY <2>1, <3>1
  <2>3. save_.seqno \in Nat
    BY <2>2, SeqsAssumption DEF Packets
  <2>4. next_ \in Nat /\ 0 .. next_ - 1 \subseteq Received
    BY ReceivedFacts DEF ConnectionInv, SinkInv
  <2>5. 0 \in 0 .. next_ - 1
    BY <2>1, <2>3, <2>4
  <2> QED BY <2>4, <2>5
<1>5. \/ acks' = acks
      \/ ackpkt' # None /\ ~ timer' /\ acks' = acks (+) SetToBag({OnTheWire'})
  BY <1>1, <1>2 DEF DelAckTimeout
<1>6. SenderInv' /\ UNCHANGED <<maxseq_, highest_ack_, sacked>>
  BY NetworkPreserves DEF ConnectionInv, DelAckTimeout, senderVars
<1> QED BY <1>1, <1>2, <1>3, <1>4, <1>5, <1>6, SinkStep DEF ConnectionInv, WireIsTrue

(* Where the sink and the ACK points rest, and no ACK is made.             *)
LEMMA QuietStep ==
  ASSUME ConnectionInv, SenderInv', UNCHANGED <<maxseq_, highest_ack_, sacked, sinkVars>>,
         BagToSet(acks') \subseteq BagToSet(acks)
  PROVE  ConnectionInv'
<1>1. maxseq_ \in Int
  BY SenderNumbers DEF ConnectionInv
<1>2. Received' = Received
  BY ReceivedStays DEF sinkVars
<1>3. Kept(Received)
  BY <1>1, <1>2 DEF Kept, ConnectionInv, KnowsOnly
<1> QED BY <1>3, SenderStep

LEMMA DropDataPreserves ==
  ASSUME ConnectionInv, NEW s, DropData(s)
  PROVE  ConnectionInv'
<1>1. SenderInv' /\ UNCHANGED <<maxseq_, highest_ack_, sacked>>
  BY LeavingSegment DEF DropData
<1> QED BY <1>1, QuietStep DEF DropData

LEMMA DropAckPreserves ==
  ASSUME ConnectionInv, NEW ack, DropAck(ack)
  PROVE  ConnectionInv'
<1>1. BagToSet(acks') \subseteq BagToSet(acks)
  BY BagLosesOne DEF DropAck
<1>2. SenderInv'
  BY NetworkPreserves DEF DropAck, senderVars, ConnectionInv
<1> QED BY <1>1, <1>2, QuietStep DEF DropAck, senderVars

LEMMA StutterPreserves ==
  ASSUME ConnectionInv, UNCHANGED vars
  PROVE  ConnectionInv'
<1>1. SenderInv'
  BY NetworkPreserves DEF vars, senderVars, ConnectionInv
<1> QED BY <1>1, QuietStep DEF vars, senderVars

-------------------------------------------------------------------------------
(* The specification.                                                      *)

LEMMA InitConnectionInv == Init => ConnectionInv
<1> SUFFICES ASSUME Init PROVE ConnectionInv
  OBVIOUS
<1>1. SenderInv /\ SinkInv /\ resets = 0
  BY InitSenderInv, InitSinkInv DEF Init, SinkInit
<1>2. BagToSet(acks) = {}
  BY DEF Init, BagToSet, EmptyBag, SetToBag
<1>3. highest_ack_ = -1 /\ maxseq_ = -1 /\ sacked = {}
  BY DEF Init, SenderInit
<1>4. Received = {}
  <2>1. next_ = 0 /\ maxseen_ = 0
    BY DEF Init, SinkInit, AckerInit
  <2>2. next_ \notin Received /\ Received \subseteq 0 .. maxseen_
    BY <1>1, ReceivedFacts DEF SinkInv
  <2> QED BY <2>1, <2>2
<1> QED BY <1>1, <1>2, <1>3, <1>4 DEF ConnectionInv, WireIsTrue, KnowsOnly

(* Every step keeps the invariant.                                         *)
LEMMA NextConnectionInv == ConnectionInv /\ [Next]_vars => ConnectionInv'
<1> SUFFICES ASSUME ConnectionInv, [Next]_vars PROVE ConnectionInv'
  OBVIOUS
<1>1. CASE Start  BY <1>1, StartPreserves
<1>2. ASSUME NEW s, DeliverData(s) PROVE ConnectionInv'  BY <1>2, DeliverDataPreserves
<1>3. ASSUME NEW s, DropData(s) PROVE ConnectionInv'  BY <1>3, DropDataPreserves
<1>4. ASSUME NEW ack, DeliverAck(ack) PROVE ConnectionInv'  BY <1>4, DeliverAckPreserves
<1>5. ASSUME NEW ack, DropAck(ack) PROVE ConnectionInv'  BY <1>5, DropAckPreserves
<1>6. CASE DelAckTimeout  BY <1>6, DelAckTimeoutPreserves
<1>7. CASE RtxTimeout  BY <1>7, RtxTimeoutPreserves
<1>8. CASE UNCHANGED vars  BY <1>8, StutterPreserves
<1> QED BY <1>1, <1>2, <1>3, <1>4, <1>5, <1>6, <1>7, <1>8 DEF Next

LEMMA ConnectionInvariant == Spec => []ConnectionInv
BY InitConnectionInv, NextConnectionInv, PTL DEF Spec

(* What the sender counts as acknowledged or has on its scoreboard, the    *)
(* sink has received, however old the ACK that said so, however few blocks *)
(* it had room for and however long it was delayed (append_ack,            *)
(* UpdateScoreBoard).                                                      *)
THEOREM ConnectionTellsTheTruth == Spec => []SenderKnowsTheTruth
<1>1. ConnectionInv => SenderKnowsTheTruth
  BY DEF ConnectionInv, KnowsOnly, SenderKnowsTheTruth
<1> QED BY <1>1, ConnectionInvariant, PTL

-------------------------------------------------------------------------------
(* The promise.                                                            *)

PromisedStep == [Promise!Next]_(Promise!vars)

LEMMA StartIsPromised ==
  ASSUME ConnectionInv, Start
  PROVE  PromisedStep
<1>1. curseq_ = 0 /\ curseq_' = conf.size + 1 /\ UNCHANGED <<highest_ack_, closed_>>
  BY DEF Start, SendMsg
<1>2. next_' = next_
  BY DEF Start, sinkVars, ackerVars
<1>3. conf.size + 1 \in Nat \ {0}
  BY SenderAssumption DEF ConnectionInv, SenderInv, SenderTypeOK, AllSettings
<1> QED BY <1>1, <1>2, <1>3 DEF PromisedStep, Promise!Next, Promise!Submit

(* A segment that arrives in order delivers it, and those held behind it.  *)
LEMMA DeliverDataIsPromised ==
  ASSUME ConnectionInv, ConnectionInv', NEW s, DeliverData(s)
  PROVE  PromisedStep
<1>1. UNCHANGED <<curseq_, highest_ack_, closed_>>
  BY DEF DeliverData, Leaves
<1>2. next_ <= next_'
  BY DeliverDataPreserves
<1>3. next_ \in Nat /\ next_' \in Nat /\ next_' <= curseq_
  BY <1>1, InOrder, InOrderNext
<1>4. CASE next_' = next_
  BY <1>1, <1>4 DEF PromisedStep, Promise!vars
<1>5. CASE next_' # next_
  <2>1. next_' > next_
    BY <1>2, <1>3, <1>5
  <2> QED BY <1>1, <1>3, <2>1 DEF PromisedStep, Promise!Next, Promise!Deliver
<1> QED BY <1>4, <1>5

(* What recv does with closed_ (finish), and where: only the ACK of the    *)
(* last segment closes the flow.                                           *)
LEMMA RecvCloses ==
  ASSUME NEW R, NEW ack, NEW w, Receiving(ack, w, R), Handles(ack, w)
  PROVE  \/ UNCHANGED closed_
         \/ /\ highest_ack_' = ack.seqno /\ closed_' = (closed_ \/ Done(ack.seqno))
            /\ ack.seqno <= curseq_ - 1
<1>1. /\ curseq_ \in Nat /\ maxseq_ < curseq_ /\ maxseq_ \in Nat
      /\ ack.seqno \in 0 .. maxseq_
  BY Reception
<1>2. CASE NewAck(ack.seqno)
  BY <1>1, <1>2 DEF NewAck
<1>3. CASE UNCHANGED closed_
  BY <1>3
<1>4. NewAck(ack.seqno) \/ UNCHANGED closed_
  BY DEF Handles, RecvNewAck, RecvNoNews, LimitedTransmit, FastRetransmit, EcnRetransmit,
         CountDuplicate, DuplicateAck, EndRecovery, PartialAck, RecoveryDupAck
<1> QED BY <1>2, <1>3, <1>4

(* An ACK acknowledges only what has been delivered, and closes the flow   *)
(* only when that is all of it.                                            *)
LEMMA DeliverAckIsPromised ==
  ASSUME ConnectionInv, ConnectionInv', NEW ack, DeliverAck(ack)
  PROVE  PromisedStep
<1>1. PICK R, w : R = Received /\ Handles(ack, w) /\ Receiving(ack, w, R)
  BY AckIsReceiving
<1>2. highest_ack_' >= highest_ack_ /\ curseq_' = curseq_ /\ next_' = next_
  <2>1. next_' = next_
    BY DEF DeliverAck, sinkVars, ackerVars
  <2>2. curseq_' = curseq_
    BY <1>1
    DEF Handles, RecvNewAck, RecvNoNews, LimitedTransmit, FastRetransmit, EcnRetransmit,
        CountDuplicate, DuplicateAck, EndRecovery, PartialAck, RecoveryDupAck
  <2> QED BY <1>1, <2>1, <2>2, RecvAdvances
<1>3. PICK h, k, c, n : h = highest_ack_ /\ k = highest_ack_' /\ c = curseq_ /\ n = next_
  OBVIOUS
<1>4. h \in Int /\ k \in Int /\ c \in Nat /\ n \in Nat /\ k + 1 <= n /\ n <= c /\ h <= k
  <2>1. h \in Int /\ c \in Nat
    BY <1>3, SenderNumbers DEF ConnectionInv
  <2>2. k \in Int
    <3>1. SenderTypeOK'
      BY DEF ConnectionInv, SenderInv
    <3>2. k \in -1 .. maxseq_'
      BY <1>3, <3>1 DEF SenderTypeOK
    <3> QED BY <3>2
  <2>3. n \in Nat /\ n <= c /\ k + 1 <= n
    BY <1>2, <1>3, InOrder, InOrderNext
  <2> QED BY <1>2, <1>3, <2>1, <2>2, <2>3
<1>5. closed_ \in BOOLEAN
  BY DEF ConnectionInv, SenderInv, SenderTypeOK
<1>6. \/ closed_' = closed_
      \/ closed_' = (closed_ \/ k + 1 = c)
  <2>1. CASE UNCHANGED closed_
    BY <2>1
  <2>2. CASE /\ highest_ack_' = ack.seqno /\ closed_' = (closed_ \/ Done(ack.seqno))
             /\ ack.seqno <= curseq_ - 1
    <3>1. Done(ack.seqno) <=> k >= c - 1
      BY <1>3, <2>2 DEF Done
    <3>2. Done(ack.seqno) <=> k + 1 = c
      BY <1>3, <1>4, <2>2, <3>1
    <3>3. closed_' <=> (closed_ \/ k + 1 = c)
      BY <2>2, <3>2, Zenon
    <3>4. closed_' \in BOOLEAN
      BY DEF ConnectionInv, SenderInv, SenderTypeOK
    <3> QED BY <3>3, <3>4, Zenon
  <2> QED BY <1>1, <2>1, <2>2, RecvCloses
<1>7. CASE h = k
  <2>1. highest_ack_' = highest_ack_
    BY <1>3, <1>7
  <2>2. CASE closed_' = closed_
    BY <1>2, <2>1, <2>2 DEF PromisedStep, Promise!vars
  <2>3. CASE closed_' # closed_
    <3>1. closed_' = TRUE /\ k + 1 = c
      BY <1>5, <1>6, <2>3
    <3>2. c > 0 /\ h + 1 = c
      <4>1. h + 1 = c
        BY <1>7, <3>1
      <4>2. h >= 0
        <5>1. maxseq_ \in Nat /\ ack.seqno \in 0 .. maxseq_ /\ c > maxseq_
          BY <1>1, <1>3, Reception
        <5> QED BY <1>4, <4>1, <5>1
      <4> QED BY <1>4, <4>1, <4>2
    <3> QED BY <1>2, <1>3, <2>1, <3>1, <3>2 DEF PromisedStep, Promise!Next, Promise!Close
  <2> QED BY <2>2, <2>3
<1>8. CASE h # k
  <2>1. k + 1 > h + 1 /\ k + 1 <= n
    BY <1>4, <1>8
  <2>2. closed_' = closed_ \/ closed_' = (k + 1 = c)
    BY <1>5, <1>6
  <2> QED BY <1>2, <1>3, <2>1, <2>2 DEF PromisedStep, Promise!Next, Promise!Acknowledge
<1> QED BY <1>7, <1>8

(* The other steps are hidden from the two applications.                   *)
LEMMA RestIsPromised ==
  ASSUME UNCHANGED <<curseq_, next_, highest_ack_, closed_>>
  PROVE  PromisedStep
BY DEF PromisedStep, Promise!vars

LEMMA NextIsPromised == ConnectionInv /\ ConnectionInv' /\ [Next]_vars => PromisedStep
<1> SUFFICES ASSUME ConnectionInv, ConnectionInv', [Next]_vars PROVE PromisedStep
  OBVIOUS
<1>1. CASE Start  BY <1>1, StartIsPromised
<1>2. ASSUME NEW s, DeliverData(s) PROVE PromisedStep  BY <1>2, DeliverDataIsPromised
<1>3. ASSUME NEW s, DropData(s) PROVE PromisedStep
  BY <1>3, RestIsPromised DEF DropData, Leaves, sinkVars, ackerVars
<1>4. ASSUME NEW ack, DeliverAck(ack) PROVE PromisedStep  BY <1>4, DeliverAckIsPromised
<1>5. ASSUME NEW ack, DropAck(ack) PROVE PromisedStep
  BY <1>5, RestIsPromised DEF DropAck, senderVars, sinkVars, ackerVars
<1>6. CASE DelAckTimeout
  BY <1>6, RestIsPromised DEF DelAckTimeout, SinkTimeout, senderVars, ackerVars
<1>7. CASE RtxTimeout
  BY <1>7, RestIsPromised DEF RtxTimeout, Timeout, TimeoutFrom, sinkVars, ackerVars
<1>8. CASE UNCHANGED vars
  BY <1>8, RestIsPromised DEF vars, senderVars, sinkVars, ackerVars
<1> QED BY <1>1, <1>2, <1>3, <1>4, <1>5, <1>6, <1>7, <1>8 DEF Next

(* The connection implements the safety part of Stream: segments reach the *)
(* application in order and none is skipped, only delivered ones are       *)
(* acknowledged, and the flow is reported done when all of them are        *)
(* (Acker::update, DelAckSink::recv, append_ack, recv, finish).            *)
THEOREM ConnectionIsOrderly == Spec => Promise!Orderly
<1>1. Init => Promise!Init
  BY DEF Init, SenderInit, SinkInit, AckerInit, Promise!Init
<1>2. ConnectionInv /\ ConnectionInv' /\ [Next]_vars => [Promise!Next]_(Promise!vars)
  BY NextIsPromised DEF PromisedStep
<1> QED BY <1>1, <1>2, ConnectionInvariant, PTL DEF Spec, Promise!Orderly
===============================================================================
