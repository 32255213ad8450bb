------------------------------- MODULE TcpSink --------------------------------
(***************************************************************************)
(* The TCP sinks Agent/TCPSink/Sack1 and Agent/TCPSink/Sack1/DelAck        *)
(* (tcp/tcp-sink.cc): class TcpSink or DelAckSink over an Acker, with the  *)
(* SACK history of class Sacker and the ECN echo.                          *)
(*                                                                         *)
(* Each segment updates the receive buffer (module Acker) and is answered  *)
(* at once, or, by a delaying sink, held until the next segment or the     *)
(* timer.  What is checked is what the sender is told: the last ACK is     *)
(* kept in ackpkt.                                                         *)
(*                                                                         *)
(* Segments with a timestamp older than the last reset are dropped before  *)
(* they change anything; the actions are about the others.                 *)
(***************************************************************************)
EXTENDS Acker, Sequences, FiniteSets, FiniteSetsExt

CONSTANTS
  SinkSettings,   \* the kinds of sink
  None            \* no packet

Packets ==
  [seqno : Seqs, ect : BOOLEAN, ce : BOOLEAN, cong_action : BOOLEAN, ecnecho : BOOLEAN]

(* DelAck: the sink is a DelAckSink; RFC2581_immediate_ack_: it does not   *)
(* delay the ACK of a segment that fills a gap; generate_dsacks_: it       *)
(* reports duplicates in a DSACK block; maxSackBlocks_: the values that    *)
(* the script gives it, of which NSA is the last; input: the segments that *)
(* may arrive; maxResets: bound of the resets in a behaviour.              *)
AllSinks ==
  [DelAck : BOOLEAN, RFC2581_immediate_ack_ : BOOLEAN, generate_dsacks_ : BOOLEAN,
   maxSackBlocks_ : SUBSET (1 .. 3), input : SUBSET Packets, maxResets : Nat]

(* An ACK: the cumulative seqno, the segment that triggered it, the echo   *)
(* and the blocks.                                                         *)
AckPackets ==
  [seqno : Int, trigger : Int, ecnecho : BOOLEAN,
   dsack : Seq(Int \X Int), blocks : Seq(Int \X Int)]

ASSUME SinkAssumption == SinkSettings \subseteq AllSinks
ASSUME NoneAssumption == None \notin Packets /\ None \notin AckPackets

VARIABLES
  sf_,            \* SackStack: earlier blocks, the most recent first
  base_nblocks_,  \* blocks that fit in an ACK, and the size of sf_
  save_,          \* the segment whose ACK is delayed
  timer,          \* delay_timer_ is pending
  ecn_unacked_,   \* congestion to echo until the sender says it has reacted
  ackpkt,         \* the last ACK sent in this incarnation
  resets,         \* resets so far
  sinkConf        \* the settings of this sink: never changes

sinkVars == <<ackerVars, sf_, base_nblocks_, save_, timer, ecn_unacked_, ackpkt, resets,
              sinkConf>>

SinkInit ==
  /\ AckerInit
  /\ sf_ = <<>>
  /\ sinkConf \in SinkSettings
  /\ base_nblocks_ \in sinkConf.maxSackBlocks_
  /\ save_ = None
  /\ timer = FALSE
  /\ ecn_unacked_ = FALSE
  /\ ackpkt = None
  /\ resets = 0

-------------------------------------------------------------------------------
(* append_ack: the SACK blocks of an ACK.  A block is <<left, right>>, the *)
(* segments left .. right - 1.  It reads the buffer as update() left it    *)
(* (primed) and the history of the ACKs before it (unprimed).              *)

Segments(block) == block[1] .. block[2] - 1

(* Mutant: the scan steps over the first hole.                             *)
FirstHolePassed(seqno) ==
  Min({i \in seqno .. maxseen_ : ~ Seen(i)} \union {maxseen_ + 1}) + 1

(* The scan to the right of a segment, through the ring as it stands: a    *)
(* segment below the window reads the entry of whatever took its place.    *)
FirstHole(seqno) ==
  Min({i \in seqno .. maxseen_ : ~ Seen(i)} \union {maxseen_ + 1})

(* Mutant: the block around the highest segment.                           *)
RecentBlockOfHighest(seqno) ==
  LET holes == {i \in Seqno + 1 .. maxseen_ : ~ Seen(i)}
  IN <<IF seqno <= Seqno THEN 0 ELSE IF holes = {} THEN -1 ELSE Max(holes) + 1,
       maxseen_ + 1>>

(* Mutant: the scan to the left passes over the holes.                     *)
RecentBlockOverHoles(seqno) ==
  <<IF seqno <= Seqno THEN 0 ELSE Seqno + 1, FirstHole(seqno)>>

(* The block around the segment being acknowledged.  For one at or below   *)
(* the cumulative ACK it only serves to find the blocks it covers.         *)
RecentBlock(seqno) ==
  LET right == FirstHole(seqno)
      holes == {i \in Seqno + 1 .. right - 1 : ~ Seen(i)}
      left  == IF seqno <= Seqno THEN 0
               ELSE IF holes = {} THEN -1 ELSE Max(holes) + 1
  IN <<left, right>>

(* Mutants: blocks that share an edge stay; blocks further right go.       *)
CoversStrictly(block, old) == block[1] < old[1] /\ block[2] > old[2]
CoversFromLeft(block, old) == block[1] <= old[1]

Covers(block, old) == block[1] <= old[1] /\ block[2] >= old[2]

(* What is reported of the first n blocks of sf_: those not covered.       *)
Uncovered(recent) ==
  LET kept[n \in 0 .. Len(sf_)] ==
        IF n = 0 THEN <<>>
        ELSE IF Covers(recent, sf_[n]) THEN kept[n - 1]
        ELSE Append(kept[n - 1], sf_[n])
  IN kept

(* The walk down sf_ with room for so many blocks: it visits them until    *)
(* the room is used up or the next block cannot be of this window.  Those  *)
(* that the recent block covers are popped, the others reported; what is   *)
(* below stays.                                                            *)
Walk(recent, room, maxseen) ==
  LET kept    == Uncovered(recent)
      past(n) == \/ n = Len(sf_)
                 \/ Len(kept[n]) >= room
                 \/ sf_[n + 1][1] < 0 \/ sf_[n + 1][2] < 0 \/ sf_[n + 1][2] > maxseen + 1
      visited == Min({n \in 0 .. Len(sf_) : past(n)})
  IN [blocks |-> kept[visited],
      stack  |-> kept[visited] \o SubSeq(sf_, visited + 1, Len(sf_))]

(* Mutant: nothing falls off.                                              *)
PushedOnly(recent, stack) == <<recent>> \o stack

(* push(): the recent block goes on top and the bottom falls off.          *)
Pushed(recent, stack) ==
  LET all == <<recent>> \o stack IN SubSeq(all, 1, Min({Len(all), base_nblocks_}))

(* The DSACK block, if the segment is a duplicate.                         *)
Dsack(seqno) == IF sinkConf.generate_dsacks_ /\ is_dup_' THEN <<<<seqno, seqno + 1>>>> ELSE <<>>

(* What append_ack does for an ACK triggered by seqno: the DSACK block and *)
(* the SACK blocks it writes, and the history it leaves.                   *)
Appended(seqno) ==
  LET dsack    == Dsack(seqno)
      recent   == RecentBlock(seqno)'
      inOrder  == seqno <= Seqno'
      first    == IF inOrder THEN <<>> ELSE <<recent>>
      walk     == Walk(recent, base_nblocks_ - Len(dsack) - Len(first), maxseen_')
      noBlocks == [dsack |-> <<>>, blocks |-> <<>>, stack |-> sf_]
  IN
  IF Seqno' >= maxseen_' /\ sf_ # <<>> THEN [noBlocks EXCEPT !.stack = <<>>]
  ELSE IF Seqno' >= maxseen_' /\ ~ is_dup_' THEN noBlocks
  ELSE IF Len(dsack) >= base_nblocks_ THEN [noBlocks EXCEPT !.dsack = dsack]
  ELSE [dsack  |-> dsack,
        blocks |-> first \o walk.blocks,
        stack  |-> IF inOrder THEN walk.stack ELSE Pushed(recent, walk.stack)]

-------------------------------------------------------------------------------
(* Mutant: the held segment is left out.                                   *)
AckedAlone(pkt) == {pkt}

(* The segments whose flags an ACK answers: pkt and a held one.            *)
Acked(pkt) == {pkt} \union (IF save_ = None THEN {} ELSE {save_})

(* ack(pkt): the ACK for pkt.                                              *)
Ack(pkt) ==
  LET acked  == Acked(pkt)
      echo   == IF \E p \in acked : p.ect /\ p.ce THEN TRUE
                ELSE IF \E p \in acked : p.cong_action THEN FALSE
                ELSE ecn_unacked_
  IN
  \E seqno \in {pkt.seqno} : \E sack \in {Appended(seqno)} :
  /\ ecn_unacked_' = echo
  /\ ackpkt' = [seqno   |-> Seqno',
                trigger |-> seqno,
                ecnecho |-> \/ echo /\ \E p \in acked : p.ect
                            \/ \E p \in acked : ~ p.ect /\ p.ecnecho,
                dsack   |-> sack.dsack,
                blocks  |-> sack.blocks]
  /\ sf_' = sack.stack

(* A delaying sink with no timer running holds the ACK of a segment that   *)
(* arrived in order and moved the ACK point to itself and no further.      *)
Delayed(pkt) ==
  /\ sinkConf.DelAck
  /\ ~ timer
  /\ pkt.seqno = Seqno'
  /\ ~ (sinkConf.RFC2581_immediate_ack_ /\ pkt.seqno < maxseen_')

SinkRecv(pkt) ==
  /\ Update(pkt.seqno)
  /\ IF Delayed(pkt)
     THEN /\ save_' = pkt
          /\ timer' = TRUE
          /\ UNCHANGED <<sf_, ecn_unacked_, ackpkt>>
     ELSE /\ Ack(pkt)
          /\ save_' = None
          /\ timer' = FALSE
  /\ UNCHANGED <<base_nblocks_, resets, sinkConf>>

(* The delayed-ACK timer expires.                                          *)
SinkTimeout ==
  /\ timer
  /\ timer' = FALSE
  /\ UNCHANGED <<ackerVars, base_nblocks_, resets, sinkConf>>
  /\ save_' = None
  /\ IF save_ = None THEN UNCHANGED <<sf_, ecn_unacked_, ackpkt>> ELSE Ack(save_)

(* reset() of the sink.  Acker::reset is not virtual: TcpSink calls it     *)
(* through an Acker*, and the SACK history of the Sacker stays.  So does   *)
(* ecn_unacked_.                                                           *)
SinkReset ==
  /\ resets < sinkConf.maxResets
  /\ resets' = resets + 1
  /\ AckerReset
  /\ ackpkt' = None
  /\ save_' = None
  /\ timer' = FALSE
  /\ UNCHANGED <<sf_, base_nblocks_, ecn_unacked_, sinkConf>>

(* Sacker::trace: the script changes maxSackBlocks_; the history is lost.  *)
SetMaxSackBlocks(n) ==
  /\ n # base_nblocks_
  /\ base_nblocks_' = n
  /\ sf_' = <<>>
  /\ UNCHANGED <<ackerVars, save_, timer, ecn_unacked_, ackpkt, resets, sinkConf>>

SinkNext ==
  \/ \E pkt \in sinkConf.input : SinkRecv(pkt)
  \/ SinkTimeout
  \/ SinkReset
  \/ \E n \in sinkConf.maxSackBlocks_ : SetMaxSackBlocks(n)

SinkSpec == SinkInit /\ [][SinkNext]_sinkVars

-------------------------------------------------------------------------------
(* Properties.                                                             *)

Blocks == Seqs \X {s + 1 : s \in Seqs}

SinkTypeOK ==
  /\ AckerTypeOK
  /\ sf_ \in Seq(Blocks) /\ Len(sf_) <= base_nblocks_
  /\ base_nblocks_ \in sinkConf.maxSackBlocks_
  /\ save_ \in sinkConf.input \union {None}
  /\ timer \in BOOLEAN /\ ecn_unacked_ \in BOOLEAN
  /\ resets \in 0 .. sinkConf.maxResets /\ sinkConf \in SinkSettings
  /\ ackpkt \in AckPackets \union {None}

(* A block of an ACK is sound when the sink holds exactly those segments:  *)
(* it lies above the cumulative ACK, all of it has been received since the *)
(* last reset, and the segments on both sides of it have not.              *)
Sound(block) ==
  /\ block[1] > ackpkt.seqno + 1
  /\ Segments(block) # {}
  /\ \A s \in Segments(block) : Seen(s) /\ s <= maxseen_
  /\ ~ Seen(block[1] - 1)
  /\ block[2] <= maxseen_ => ~ Seen(block[2])

AckIsCurrent == ackpkt # None /\ ~ timer

BlocksSound == \A i \in DOMAIN ackpkt.blocks : Sound(ackpkt.blocks[i])

(* Every SACK block of an ACK names exactly what the sink holds, whatever  *)
(* order the segments came in, whatever fell off the history and however   *)
(* long the ACK was delayed, in a sink that is not reset                   *)
(* (Sacker::append_ack).  A sender drops what a SACK block covers from its *)
(* retransmissions, so a block too wide can stall it.                      *)
BlocksAreSound == AckIsCurrent /\ resets = 0 => BlocksSound

(* The same, for a sink that may be reset: no ACK reports a segment        *)
(* received before the reset, which recv() drops the late copies of as     *)
(* being from a previous incarnation.                                      *)
ResetForgetsBlocks == AckIsCurrent => BlocksSound

(* The first block holds the segment that triggered the ACK, unless the    *)
(* cumulative ACK does (append_ack: "Build FIRST (traditional) SACK        *)
(* block").  With room for one block only, a DSACK leaves no room for it   *)
(* ("can't use DSACK with less than 2 SACK blocks").                       *)
FirstBlockIsTrigger ==
  ackpkt # None /\ ackpkt.trigger > ackpkt.seqno =>
    \/ ackpkt.blocks # <<>> /\ ackpkt.trigger \in Segments(ackpkt.blocks[1])
    \/ ackpkt.dsack # <<>> /\ 1 \in sinkConf.maxSackBlocks_

(* The blocks of an ACK are of different segments: "newest ack covers up   *)
(* this one" removes every block that has grown into the recent one.  With *)
(* a DSACK in the ACK the walk can end before it gets to that block, which *)
(* a later ACK then repeats; and a reset leaves blocks of what is gone.    *)
BlocksAreDisjoint ==
  AckIsCurrent /\ ~ sinkConf.generate_dsacks_ /\ resets = 0 =>
    \A i, j \in DOMAIN ackpkt.blocks :
      i # j => Segments(ackpkt.blocks[i]) \intersect Segments(ackpkt.blocks[j]) = {}

(* An ACK reports all that the sink holds, in a sink that has not lost its *)
(* history to a change of maxSackBlocks_ and cannot hold more separate     *)
(* runs of segments than blocks fit in an ACK (push() drops the oldest).   *)
(* A DSACK takes the place of one block.                                   *)
Held == {s \in next_ .. maxseen_ : Seen(s)}

AllHeldIsReported ==
  /\ AckIsCurrent /\ resets = 0
  /\ ~ sinkConf.generate_dsacks_
  /\ Cardinality(sinkConf.maxSackBlocks_) = 1
  /\ \A s \in Seqs : s <= 2 * base_nblocks_
  => Held \subseteq UNION {Segments(ackpkt.blocks[i]) : i \in DOMAIN ackpkt.blocks}

(* The congestion mark of a held segment is echoed by the ACK that covers  *)
(* it, even when the ACK is triggered by another segment, and even when    *)
(* that one says the sender has reduced its window (TcpSink::ack).         *)
HeldMarkIsEchoed ==
  [][save_ # None /\ save_' = None /\ resets' = resets /\ save_.ect /\ save_.ce
       => ackpkt' # None /\ ackpkt'.ecnecho]_sinkVars
===============================================================================
