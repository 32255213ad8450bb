-------------------------------- MODULE Acker ---------------------------------
(***************************************************************************)
(* The receive buffer of a TCP sink (class Acker, tcp/tcp-sink.cc).        *)
(*                                                                         *)
(* seen_ is a ring of byte counts indexed by seqno & wndmask_: entry 0     *)
(* means the segment that maps there has not been received.  The ring      *)
(* holds the window next_ .. maxseen_ + 1 and doubles when a segment does  *)
(* not fit.  Several segment numbers share every entry, so everything the  *)
(* sink tells the sender and the application rests on the window never     *)
(* wrapping onto itself, and on every entry being cleared in time.         *)
(***************************************************************************)
EXTENDS Integers

CONSTANTS
  MWS,       \* initial ring size (tcp-sink.h: 64); a power of two
  Seqs,      \* the segment numbers a sender may use
  PktSize    \* PktSize[s]: the bytes of segment s

ASSUME MWSAssumption  == MWS \in Nat /\ MWS >= 2
ASSUME MWSPowerOfTwo  == \E k \in 1 .. 30 : MWS = 2 ^ k
ASSUME SeqsAssumption == Seqs \subseteq Nat /\ PktSize \in [Seqs -> Nat \ {0}]

VARIABLES
  next_,        \* next segment expected
  maxseen_,     \* highest segment seen
  wndmask_,     \* ring size - 1
  seen_,        \* the ring
  is_dup_,      \* the last segment was a duplicate
  numToDeliver  \* what the last call of update() returned

ackerVars == <<next_, maxseen_, wndmask_, seen_, is_dup_, numToDeliver>>

(* seqno & mask.  The ring size mask + 1 is a power of two, so the bitwise *)
(* and is the remainder.                                                   *)
Slot(seqno, mask) == seqno % (mask + 1)

(* seqno has been received: it is below the left edge of the window, or    *)
(* its ring entry is marked.                                               *)
Seen(seqno) == seen_[Slot(seqno, wndmask_)] # 0

(* The segments received in this incarnation, as the ring tells them.      *)
Received == 0 .. next_ - 1 \union {i \in next_ .. maxseen_ : Seen(i)}

Abstract == INSTANCE Reassembly WITH received <- Received

(* The last in-order segment, which is what an ACK carries.                *)
Seqno == next_ - 1

AckerInit ==
  /\ next_ = 0
  /\ maxseen_ = 0
  /\ wndmask_ = MWS - 1
  /\ seen_ = [j \in 0 .. MWS - 1 |-> 0]
  /\ is_dup_ = FALSE
  /\ numToDeliver = 0

-------------------------------------------------------------------------------
(* update(), in the order the code does it.                                *)

(* Mutant: no room for the entry after the right edge.                     *)
TooSmallForSegments(seq, mask) == seq - next_ > mask

(* The condition of the resizing loop, for a ring of mask + 1 entries.     *)
TooSmall(seq, mask) == seq + 1 - next_ >= mask

(* sz is the ring size with which the resizing loop ends: the first of the *)
(* doublings of the current size that holds the window.                    *)
RingSizeFor(seq, sz) ==
  /\ \E k \in 0 .. seq + 1 : sz = (wndmask_ + 1) * 2 ^ k
  /\ ~ TooSmall(seq, sz - 1)
  /\ sz > wndmask_ + 1 => TooSmall(seq, (sz \div 2) - 1)

(* resize_buffers(sz): the window's entries move to their slots in a       *)
(* zeroed ring; all others are lost.                                       *)
Resized(sz) ==
  IF sz = wndmask_ + 1
  THEN seen_
  ELSE [j \in 0 .. sz - 1 |->
          IF \E i \in next_ .. maxseen_ + 1 : i % sz = j
          THEN seen_[Slot(CHOOSE i \in next_ .. maxseen_ + 1 : i % sz = j, wndmask_)]
          ELSE 0]

(* Mutants: the entry after the segment, or the skipped ones, stay.        *)
ClearedToSegment(mask, seq) ==
  IF seq > maxseen_ THEN {Slot(i, mask) : i \in maxseen_ + 1 .. seq} ELSE {}

ClearedAtSegment(mask, seq) ==
  IF seq > maxseen_ THEN {Slot(i, mask) : i \in seq .. seq + 1} ELSE {}

(* A segment beyond maxseen_ opens the entries up to it, itself and the    *)
(* one after it, all empty; a segment in the window is then marked.        *)
Cleared(mask, seq) ==
  IF seq > maxseen_ THEN {Slot(i, mask) : i \in maxseen_ + 1 .. seq + 1} ELSE {}

Marked(ring, mask, seq) ==
  [j \in 0 .. mask |->
     IF seq >= next_ /\ j = Slot(seq, mask) THEN PktSize[seq]
     ELSE IF j \in Cleared(mask, seq) THEN 0
     ELSE ring[j]]

(* The left edge moves over every marked entry, and their bytes go to the  *)
(* application.  The range is one turn of the ring and is no limit of the  *)
(* code: a ring with no empty entry would never end its loop.              *)
Deliver(seq, ring, mask) ==
  \E n \in next_ .. next_ + mask :
    /\ seq < next_ => n = next_
    /\ seq >= next_ => ring[Slot(n, mask)] = 0
    /\ \A m \in next_ .. n - 1 : ring[Slot(m, mask)] # 0
    /\ next_' = n
    /\ numToDeliver' = Abstract!SumOf([m \in next_ .. n - 1 |-> ring[Slot(m, mask)]])

Update(seq) ==
  \E sz \in wndmask_ + 1 .. 2 * (wndmask_ + seq + 3) :
    /\ RingSizeFor(seq, sz)
    /\ is_dup_' = \/ seq < next_
                  \/ seq <= maxseen_ /\ Resized(sz)[Slot(seq, sz - 1)] # 0
    /\ maxseen_' = IF seq > maxseen_ THEN seq ELSE maxseen_
    /\ wndmask_' = sz - 1
    /\ seen_' = Marked(Resized(sz), sz - 1, seq)
    /\ Deliver(seq, seen_', sz - 1)

(* Mutant: the ring is allocated anew and its mask forgotten.              *)
AckerResetToInitialRing ==
  /\ next_' = 0
  /\ maxseen_' = 0
  /\ seen_' = [j \in 0 .. MWS - 1 |-> 0]
  /\ UNCHANGED <<wndmask_, is_dup_, numToDeliver>>

(* reset(): the ring keeps its size, is_dup_ its value.                    *)
AckerReset ==
  /\ next_' = 0
  /\ maxseen_' = 0
  /\ seen_' = [j \in 0 .. wndmask_ |-> 0]
  /\ UNCHANGED <<wndmask_, is_dup_, numToDeliver>>

AckerNext == AckerReset \/ \E seq \in Seqs : Update(seq)

AckerSpec == AckerInit /\ [][AckerNext]_ackerVars

-------------------------------------------------------------------------------
(* Properties.                                                             *)

AckerTypeOK ==
  /\ next_ \in Nat
  /\ maxseen_ \in Nat
  /\ wndmask_ \in Nat \ {0}
  /\ seen_ \in [0 .. wndmask_ -> Nat]
  /\ is_dup_ \in BOOLEAN

(* The window, with the entry after its right edge that append_ack and the *)
(* delivery loop stop at, never laps the ring: two segments of the window  *)
(* never share an entry (the resizing loop of update()).                   *)
WindowFitsRing ==
  /\ next_ <= maxseen_ + 1
  /\ \A i, j \in next_ .. maxseen_ + 1 :
       Slot(i, wndmask_) = Slot(j, wndmask_) => i = j

(* Both edges of the window are empty entries: the ACK stops at a segment  *)
(* that is really missing, and the scans of the ring to the right of the   *)
(* last segment end there (the clearing of skipped entries in update()).   *)
EdgesAreHoles == ~ Seen(next_) /\ ~ Seen(maxseen_ + 1)

(* The ring implements reassembly of the set of received segments: the     *)
(* same cumulative ACK, duplicate verdict and delivered bytes, whatever    *)
(* the order of arrival, wrapping and resizing.                            *)
Reassembles == Abstract!Spec
===============================================================================
