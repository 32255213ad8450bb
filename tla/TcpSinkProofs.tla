---------------------------- MODULE TcpSinkProofs -----------------------------
(***************************************************************************)
(* Proofs about the receiver: first the receive buffer (module Acker), for *)
(* every initial ring size, every set of segment numbers and every size of *)
(* segment, then the sink on top of it (module TcpSink), for every history *)
(* size and every kind of sink too.                                        *)
(*                                                                         *)
(* The window is right only while it does not lap the ring, and it does    *)
(* not lap the ring only because the resizing loop measures it from its    *)
(* edges; entries are right only because both edges are empty and each     *)
(* marked one holds the size of its segment.  The four facts are one       *)
(* inductive invariant, AckerInv, and the refinement of Reassembly follows *)
(* from it.                                                                *)
(*                                                                         *)
(* The SACK history is only right together with the receive buffer: a      *)
(* block of it is a maximal run of received segments above the cumulative  *)
(* ACK (HeldRun).  A segment that joins runs, or extends one, makes the    *)
(* blocks of the history that it touched parts of the recent block; those  *)
(* are either popped by the walk or pushed off the bottom, because a new   *)
(* segment has no DSACK block, so that the walk ends early only when the   *)
(* ACK is full.  A delayed segment moves the cumulative ACK past itself    *)
(* and touches no block.                                                   *)
(*                                                                         *)
(* That nothing held is left out (CompleteInv) needs a count: runs are     *)
(* apart, so that where all segments are below 2 * base_nblocks_ + 1 an    *)
(* ACK with no room left has every run there is.                           *)
(***************************************************************************)
EXTENDS TcpSink, FiniteSetTheorems, WellFoundedInduction, TLAPS

-------------------------------------------------------------------------------
(* The receive buffer.                                                     *)

(* Segments less than one turn of the ring apart do not share an entry.    *)
LEMMA SlotInjective ==
  ASSUME NEW i \in Int, NEW j \in Int, NEW mask \in Nat,
         i <= j, j - i <= mask, Slot(i, mask) = Slot(j, mask)
  PROVE  i = j
<1> DEFINE n == mask + 1
<1>1. n \in Nat \ {0} OBVIOUS
<1>2. /\ i \div n \in Int /\ j \div n \in Int
      /\ i = (n * (i \div n)) + (i % n)
      /\ j = (n * (j \div n)) + (j % n)
  BY <1>1
<1> DEFINE q == (j \div n) - (i \div n)
<1>3. j - i = n * q  BY <1>1, <1>2 DEF Slot
<1>4. q \in Int BY <1>2
<1> HIDE DEF n, q
<1>5. q < 1  BY <1>1, <1>3, <1>4 DEF n
<1>6. q > -1  BY <1>1, <1>3, <1>4 DEF n
<1>7. q = 0 BY <1>5, <1>6, <1>4
<1> QED BY <1>3, <1>7, <1>1

(* The entry of a segment lies in the ring.                                 *)
LEMMA SlotInRing ==
  ASSUME NEW i \in Int, NEW mask \in Nat
  PROVE  Slot(i, mask) \in 0 .. mask
BY DEF Slot

-------------------------------------------------------------------------------
(* The inductive invariant.  WindowFitsRing is about pairs of segments; what *)
(* a step preserves is the length of the window.  The marks inside it are    *)
(* the sizes of segments that the sender really has.                         *)
WindowLength ==
  /\ next_ <= maxseen_ + 1
  /\ maxseen_ + 1 - next_ <= wndmask_

MarksAreSizes ==
  /\ 0 .. next_ - 1 \subseteq Seqs
  /\ \A i \in next_ .. maxseen_ :
       Seen(i) => i \in Seqs /\ seen_[Slot(i, wndmask_)] = PktSize[i]

AckerInv == AckerTypeOK /\ WindowLength /\ EdgesAreHoles /\ MarksAreSizes

(* A window no longer than the ring does not wrap onto itself.               *)
LEMMA WindowInRing ==
  ASSUME AckerTypeOK, WindowLength
  PROVE  WindowFitsRing
<1> SUFFICES ASSUME NEW i \in next_ .. maxseen_ + 1, NEW j \in next_ .. maxseen_ + 1,
                    Slot(i, wndmask_) = Slot(j, wndmask_)
             PROVE  i = j
  BY DEF WindowFitsRing, WindowLength
<1>1. i \in Int /\ j \in Int /\ wndmask_ \in Nat
  BY DEF AckerTypeOK
<1>2. CASE i <= j
  BY <1>1, <1>2, SlotInjective DEF WindowLength, AckerTypeOK
<1>3. CASE j <= i
  BY <1>1, <1>3, SlotInjective DEF WindowLength, AckerTypeOK
<1> QED BY <1>1, <1>2, <1>3

(* The invariant holds of the new buffer: an empty ring, and a window of    *)
(* one missing segment.                                                     *)
LEMMA InitAckerInv == AckerInit => AckerInv
<1> SUFFICES ASSUME AckerInit PROVE AckerInv
  OBVIOUS
<1> USE MWSAssumption DEF AckerInit, MWSAssumption
<1>1. AckerTypeOK
  <2>1. MWS - 1 \in Nat \ {0}
    OBVIOUS
  <2>2. seen_ \in [0 .. wndmask_ -> Nat]
    OBVIOUS
  <2> QED BY <2>1, <2>2 DEF AckerTypeOK
<1>2. WindowLength
  BY DEF WindowLength
<1>3. Slot(0, MWS - 1) \in 0 .. MWS - 1 /\ Slot(1, MWS - 1) \in 0 .. MWS - 1
  <2>1. MWS - 1 \in Nat /\ 0 \in Int /\ 1 \in Int
    OBVIOUS
  <2>2. \A i \in Int, m \in Nat : Slot(i, m) \in 0 .. m
    BY SlotInRing
  <2> QED BY <2>1, <2>2
<1>4. EdgesAreHoles
  BY <1>3 DEF EdgesAreHoles, Seen
<1>5. MarksAreSizes
  BY <1>3 DEF MarksAreSizes, Seen
<1> QED BY <1>1, <1>2, <1>4, <1>5 DEF AckerInv

(* Resizing loses nothing of the window.                                     *)
LEMMA ResizedKeepsWindow ==
  ASSUME AckerInv, NEW sz \in Nat, sz >= wndmask_ + 1
  PROVE  /\ Resized(sz) \in [0 .. sz - 1 -> Nat]
         /\ \A i \in next_ .. maxseen_ + 1 :
              Resized(sz)[Slot(i, sz - 1)] = seen_[Slot(i, wndmask_)]
<1> USE DEF AckerInv, AckerTypeOK
<1> DEFINE W == next_ .. maxseen_ + 1
           Source(j) == CHOOSE i \in W : i % sz = j
<1>1. CASE sz = wndmask_ + 1
  BY <1>1 DEF Resized
<1>2. CASE sz # wndmask_ + 1
  <2>1. ASSUME NEW j \in 0 .. sz - 1, \E i \in W : i % sz = j
        PROVE  Source(j) \in W /\ Source(j) % sz = j
    BY <2>1
  <2>2. Resized(sz) = [j \in 0 .. sz - 1 |->
                         IF \E i \in W : i % sz = j THEN seen_[Slot(Source(j), wndmask_)] ELSE 0]
    BY <1>2 DEF Resized
  <2> HIDE DEF Source
  <2>3. ASSUME NEW j \in 0 .. sz - 1 PROVE Resized(sz)[j] \in Nat
    <3>1. CASE \E i \in W : i % sz = j
      <4>1. Source(j) \in W BY <2>1, <2>3, <3>1
      <4>2. Source(j) \in Int BY <4>1
      <4>3. Slot(Source(j), wndmask_) \in 0 .. wndmask_ BY <4>2, SlotInRing
      <4> QED BY <2>2, <2>3, <3>1, <4>3
    <3>2. CASE ~ \E i \in W : i % sz = j
      BY <2>2, <2>3, <3>2
    <3> QED BY <3>1, <3>2
  <2>4. Resized(sz) \in [0 .. sz - 1 -> Nat]
    BY <2>2, <2>3
  <2>5. ASSUME NEW i \in W
        PROVE  Resized(sz)[Slot(i, sz - 1)] = seen_[Slot(i, wndmask_)]
    <3> DEFINE j == Slot(i, sz - 1)
    <3>1. j \in 0 .. sz - 1 /\ i % sz = j
      BY SlotInRing DEF Slot
    <3>2. Source(j) \in W /\ Source(j) % sz = j
      BY <2>1, <3>1
    <3>3. Slot(Source(j), sz - 1) = Slot(i, sz - 1)
      BY <3>1, <3>2 DEF Slot
    <3>4. Source(j) = i
      <4> HIDE DEF j
      <4>1. CASE Source(j) <= i
        BY <3>2, <3>3, <4>1, SlotInjective DEF WindowLength
      <4>2. CASE i <= Source(j)
        BY <3>2, <3>3, <4>2, SlotInjective DEF WindowLength
      <4> QED BY <3>2, <4>1, <4>2
    <3> QED BY <2>2, <3>1, <3>4
  <2> QED BY <2>4, <2>5
<1> QED BY <1>1, <1>2

-------------------------------------------------------------------------------
(* What update(seq) does to the window, entry by entry.                      *)

(* What update(seq) leaves at the entry of each segment of the new window:  *)
(* the segment itself is marked, what was skipped is empty, and every       *)
(* other entry is the one the segment had before.                           *)
LEMMA MarkedEntries ==
  ASSUME AckerInv, NEW seq \in Seqs, NEW sz \in Nat, sz >= wndmask_ + 1,
         ~ TooSmall(seq, sz - 1),
         NEW M, M = (IF seq > maxseen_ THEN seq ELSE maxseen_),
         NEW ring, ring = Marked(Resized(sz), sz - 1, seq)
  PROVE  /\ ring \in [0 .. sz - 1 -> Nat]
         /\ \A i \in next_ .. M + 1 :
              ring[Slot(i, sz - 1)] =
                IF i = seq THEN PktSize[seq]
                ELSE IF i <= maxseen_ THEN seen_[Slot(i, wndmask_)] ELSE 0
<1> USE SeqsAssumption DEF AckerInv, AckerTypeOK, SeqsAssumption
<1> DEFINE mask == sz - 1
           old  == Resized(sz)
<1>1. /\ mask \in Nat /\ sz = mask + 1 /\ seq \in Nat /\ M \in Nat
      /\ M + 1 - next_ <= mask /\ M >= seq /\ M >= maxseen_
  BY DEF TooSmall, WindowLength
<1>2. /\ old \in [0 .. mask -> Nat]
      /\ \A i \in next_ .. maxseen_ + 1 : old[Slot(i, mask)] = seen_[Slot(i, wndmask_)]
  BY ResizedKeepsWindow
<1>r. ring = Marked(old, mask, seq)
  OBVIOUS
<1> HIDE DEF old, mask
<1>3. PktSize[seq] \in Nat
  OBVIOUS
<1>4. ring \in [0 .. mask -> Nat]
  <2>1. \A j \in 0 .. mask : old[j] \in Nat
    BY <1>2
  <2>2. ring = [j \in 0 .. mask |->
                 IF seq >= next_ /\ j = Slot(seq, mask) THEN PktSize[seq]
                 ELSE IF j \in Cleared(mask, seq) THEN 0 ELSE old[j]]
    BY <1>r DEF Marked
  <2>3. \A j \in 0 .. mask :
          (IF seq >= next_ /\ j = Slot(seq, mask) THEN PktSize[seq]
           ELSE IF j \in Cleared(mask, seq) THEN 0 ELSE old[j]) \in Nat
    BY <1>3, <2>1
  <2> HIDE DEF AckerInv, AckerTypeOK, SeqsAssumption
  <2> QED BY <2>2, <2>3
<1>5. \A i, j \in next_ .. M + 1 : Slot(i, mask) = Slot(j, mask) => i = j
  <2> SUFFICES ASSUME NEW i \in next_ .. M + 1, NEW j \in next_ .. M + 1,
                      Slot(i, mask) = Slot(j, mask)
               PROVE  i = j
    OBVIOUS
  <2>1. i \in Int /\ j \in Int /\ i - j <= mask /\ j - i <= mask
    BY <1>1
  <2>2. CASE i <= j
    BY <1>1, <2>1, <2>2, SlotInjective
  <2>3. CASE j <= i
    BY <1>1, <2>1, <2>3, SlotInjective
  <2> QED BY <2>1, <2>2, <2>3
<1>6. ASSUME NEW i \in next_ .. M + 1
      PROVE  ring[Slot(i, mask)] =
               IF i = seq THEN PktSize[seq]
               ELSE IF i <= maxseen_ THEN seen_[Slot(i, wndmask_)] ELSE 0
  <2>1. i \in Int /\ i >= next_ /\ i <= M + 1
    BY <1>1, <1>6
  <2>2. Slot(i, mask) \in 0 .. mask
    BY <1>1, <2>1, SlotInRing
  <2>3. ring[Slot(i, mask)] =
          IF seq >= next_ /\ Slot(i, mask) = Slot(seq, mask) THEN PktSize[seq]
          ELSE IF Slot(i, mask) \in Cleared(mask, seq) THEN 0
          ELSE old[Slot(i, mask)]
    BY <1>r, <2>2 DEF Marked
  <2>4. seq >= next_ => (Slot(i, mask) = Slot(seq, mask) <=> i = seq)
    BY <1>1, <1>5, <2>1
  <2>5. CASE seq > maxseen_
    <3>1. seq >= next_ /\ M = seq
      BY <1>1, <2>5 DEF WindowLength
    <3>2. Slot(i, mask) \in Cleared(mask, seq) <=> i > maxseen_
      <4>1. Cleared(mask, seq) = {Slot(k, mask) : k \in maxseen_ + 1 .. seq + 1}
        BY <2>5 DEF Cleared
      <4>2. \A k \in maxseen_ + 1 .. seq + 1 : k \in next_ .. M + 1 /\ k > maxseen_
        BY <1>1, <3>1 DEF WindowLength
      <4>3. i > maxseen_ => i \in maxseen_ + 1 .. seq + 1
        BY <1>1, <2>1, <3>1
      <4>4. ASSUME NEW k \in maxseen_ + 1 .. seq + 1, Slot(i, mask) = Slot(k, mask)
            PROVE  i = k
        BY <1>5, <1>6, <4>2, <4>4
      <4> QED BY <4>1, <4>2, <4>3, <4>4
    <3>3. CASE i = seq
      BY <2>3, <3>1, <3>3
    <3>4. CASE i # seq /\ i > maxseen_
      BY <1>1, <2>1, <2>3, <2>4, <3>1, <3>2, <3>4
    <3>5. CASE i # seq /\ i <= maxseen_
      <4>1. ring[Slot(i, mask)] = old[Slot(i, mask)]
        BY <1>1, <2>1, <2>3, <2>4, <3>1, <3>2, <3>5
      <4> QED BY <1>2, <2>1, <3>5, <4>1
    <3> QED BY <1>1, <2>1, <3>3, <3>4, <3>5
  <2>6. CASE ~ (seq > maxseen_)
    <3>1. Cleared(mask, seq) = {} /\ M = maxseen_
      BY <2>6 DEF Cleared
    <3>2. CASE i = seq
      BY <1>1, <2>1, <2>3, <3>2
    <3>3. CASE i # seq
      <4>1. ring[Slot(i, mask)] = old[Slot(i, mask)]
        BY <2>3, <2>4, <3>1, <3>3
      <4>2. old[Slot(i, mask)] = seen_[Slot(i, wndmask_)]
        BY <1>2, <2>1, <3>1
      <4>3. i > maxseen_ => seen_[Slot(i, wndmask_)] = 0
        BY <1>1, <2>1, <3>1 DEF EdgesAreHoles, Seen
      <4> QED BY <1>1, <2>1, <3>3, <4>1, <4>2, <4>3
    <3> QED BY <3>2, <3>3
  <2> QED BY <2>5, <2>6
<1> QED BY <1>4, <1>6 DEF mask, old

(* The whole of update(seq): how the window moves and what stays marked.     *)
LEMMA UpdateEffect ==
  ASSUME AckerInv, NEW seq \in Seqs, Update(seq)
  PROVE  /\ AckerTypeOK'
         /\ next_' \in next_ .. maxseen_' + 1
         /\ maxseen_' = IF seq > maxseen_ THEN seq ELSE maxseen_
         /\ maxseen_' + 1 - next_ <= wndmask_'
         /\ \A i \in next_ .. maxseen_' + 1 :
              seen_'[Slot(i, wndmask_')] =
                IF i = seq THEN PktSize[seq]
                ELSE IF i <= maxseen_ THEN seen_[Slot(i, wndmask_)] ELSE 0
         /\ \A m \in next_ .. next_' - 1 : seen_'[Slot(m, wndmask_')] # 0
         /\ seen_'[Slot(next_', wndmask_')] = 0
         /\ numToDeliver' =
              Abstract!SumOf([m \in next_ .. next_' - 1 |-> seen_'[Slot(m, wndmask_')]])
         /\ is_dup_' = (seq < next_ \/ (seq <= maxseen_ /\ Seen(seq)))
<1> USE SeqsAssumption DEF AckerInv, AckerTypeOK, SeqsAssumption
<1>1. PICK sz \in wndmask_ + 1 .. 2 * (wndmask_ + seq + 3) :
        /\ RingSizeFor(seq, sz)
        /\ is_dup_' = (seq < next_ \/ (seq <= maxseen_ /\ Resized(sz)[Slot(seq, sz - 1)] # 0))
        /\ maxseen_' = IF seq > maxseen_ THEN seq ELSE maxseen_
        /\ wndmask_' = sz - 1
        /\ seen_' = Marked(Resized(sz), sz - 1, seq)
        /\ Deliver(seq, seen_', sz - 1)
  BY DEF Update
<1> DEFINE mask == sz - 1
<1>m. PICK M : M = maxseen_'
  OBVIOUS
<1>2. /\ sz \in Nat /\ sz >= wndmask_ + 1 /\ ~ TooSmall(seq, sz - 1)
      /\ mask \in Nat \ {0} /\ seq \in Nat /\ M \in Nat /\ M >= maxseen_ /\ M >= seq
      /\ M + 1 - next_ <= mask /\ next_ <= M + 1
  <2>1. ~ TooSmall(seq, sz - 1)
    BY <1>1, Zenon DEF RingSizeFor
  <2>2. sz \in Nat /\ sz >= wndmask_ + 1 /\ seq \in Nat
    BY <1>1
  <2>3. M = IF seq > maxseen_ THEN seq ELSE maxseen_
    BY <1>1, <1>m
  <2> QED BY <2>1, <2>2, <2>3 DEF TooSmall, WindowLength
<1>3. /\ seen_' \in [0 .. mask -> Nat]
      /\ \A i \in next_ .. M + 1 :
           seen_'[Slot(i, mask)] =
             IF i = seq THEN PktSize[seq]
             ELSE IF i <= maxseen_ THEN seen_[Slot(i, wndmask_)] ELSE 0
  <2>0. PICK ring : ring = seen_'
    OBVIOUS
  <2>1. /\ ring = Marked(Resized(sz), sz - 1, seq)
        /\ M = IF seq > maxseen_ THEN seq ELSE maxseen_
    BY <1>1, <1>m, <2>0
  <2>2. /\ ring \in [0 .. sz - 1 -> Nat]
        /\ \A i \in next_ .. M + 1 :
             ring[Slot(i, sz - 1)] =
               IF i = seq THEN PktSize[seq]
               ELSE IF i <= maxseen_ THEN seen_[Slot(i, wndmask_)] ELSE 0
    <3>1. AckerInv
      OBVIOUS
    <3> HIDE DEF AckerInv, AckerTypeOK, SeqsAssumption
    <3> QED BY <1>2, <2>1, <3>1, MarkedEntries
  <2> QED BY <2>0, <2>2
<1>4. PICK n \in next_ .. next_ + mask :
        /\ seq < next_ => n = next_
        /\ seq >= next_ => seen_'[Slot(n, mask)] = 0
        /\ \A m \in next_ .. n - 1 : seen_'[Slot(m, mask)] # 0
        /\ next_' = n
        /\ numToDeliver' = Abstract!SumOf([m \in next_ .. n - 1 |-> seen_'[Slot(m, mask)]])
  BY <1>1 DEF Deliver
<1>5. seen_'[Slot(M + 1, mask)] = 0
  <2>1. M + 1 \in next_ .. M + 1 /\ M + 1 # seq
    BY <1>2
  <2>2. M + 1 <= maxseen_ + 1
        => M + 1 = maxseen_ + 1
    BY <1>2
  <2> QED BY <1>2, <1>3, <2>1, <2>2
<1>6. n \in next_ .. M + 1
  <2>1. CASE n > M + 1
    <3>1. M + 1 \in next_ .. n - 1
      BY <1>2, <2>1
    <3> QED BY <1>4, <1>5, <3>1
  <2> QED BY <1>2, <2>1
<1>7. seen_'[Slot(n, mask)] = 0
  <2>1. CASE seq >= next_
    BY <1>4, <2>1
  <2>2. CASE seq < next_
    <3>1. n = next_ /\ next_ \in next_ .. M + 1 /\ next_ # seq
      BY <1>2, <1>4, <2>2
    <3>2. next_ <= maxseen_ => seen_[Slot(next_, wndmask_)] = 0
      BY DEF EdgesAreHoles, Seen
    <3> QED BY <1>3, <3>1, <3>2
  <2> QED BY <1>2, <2>1, <2>2
<1>8. is_dup_' = (seq < next_ \/ (seq <= maxseen_ /\ Seen(seq)))
  <2>1. CASE seq < next_
    BY <1>1, <2>1
  <2>2. CASE seq > maxseen_
    BY <1>1, <1>2, <2>2
  <2>3. CASE seq >= next_ /\ seq <= maxseen_
    <3>1. seq \in next_ .. maxseen_ + 1
      BY <1>2, <2>3
    <3>2. Resized(sz)[Slot(seq, sz - 1)] = seen_[Slot(seq, wndmask_)]
      BY <1>2, <3>1, ResizedKeepsWindow
    <3> QED BY <1>1, <3>2 DEF Seen
  <2> QED BY <1>2, <2>1, <2>2, <2>3
<1>9. AckerTypeOK'
  <2>1. is_dup_' \in BOOLEAN
    BY <1>1
  <2>2. next_' \in Nat /\ maxseen_' \in Nat /\ wndmask_' \in Nat \ {0}
    BY <1>1, <1>m, <1>2, <1>4
  <2>3. seen_' \in [0 .. wndmask_' -> Nat]
    BY <1>1, <1>3
  <2> QED BY <2>1, <2>2, <2>3
<1> QED
  BY <1>1, <1>m, <1>2, <1>3, <1>4, <1>6, <1>7, <1>8, <1>9

-------------------------------------------------------------------------------
(* update() keeps the invariant, whichever segment arrives.                 *)
LEMMA UpdateAckerInv ==
  ASSUME AckerInv, NEW seq \in Seqs, Update(seq)
  PROVE  AckerInv'
<1> USE DEF AckerInv
<1>1. PICK M, mask, ring, n :
        /\ M = maxseen_' /\ mask = wndmask_' /\ ring = seen_' /\ n = next_'
  OBVIOUS
<1>2. /\ AckerTypeOK'
      /\ n \in next_ .. M + 1
      /\ M = IF seq > maxseen_ THEN seq ELSE maxseen_
      /\ M + 1 - next_ <= mask
      /\ \A i \in next_ .. M + 1 :
           ring[Slot(i, mask)] =
             IF i = seq THEN PktSize[seq]
             ELSE IF i <= maxseen_ THEN seen_[Slot(i, wndmask_)] ELSE 0
      /\ \A m \in next_ .. n - 1 : ring[Slot(m, mask)] # 0
      /\ ring[Slot(n, mask)] = 0
  BY <1>1, UpdateEffect
<1>3. /\ seq \in Nat /\ M \in Nat /\ n \in Nat /\ mask \in Nat /\ next_ \in Nat /\ maxseen_ \in Nat
      /\ M >= seq /\ M >= maxseen_ /\ next_ <= maxseen_ + 1
  BY <1>1, <1>2, SeqsAssumption DEF AckerTypeOK, SeqsAssumption, WindowLength
<1>4. WindowLength'
  <2>1. n <= M + 1 /\ M + 1 - n <= mask
    <3>1. n >= next_ /\ n <= M + 1
      BY <1>2, <1>3
    <3> QED BY <1>2, <1>3, <3>1
  <2> QED BY <1>1, <2>1 DEF WindowLength
<1>5. EdgesAreHoles'
  <2>1. M + 1 \in next_ .. M + 1 /\ M + 1 # seq
    BY <1>3
  <2>2. M + 1 <= maxseen_ => FALSE
    BY <1>3
  <2>3. ring[Slot(M + 1, mask)] = 0
    BY <1>2, <2>1, <2>2
  <2> QED BY <1>1, <1>2, <2>3 DEF EdgesAreHoles, Seen
<1>6. MarksAreSizes'
  <2>1. ASSUME NEW i \in next_ .. M, ring[Slot(i, mask)] # 0
        PROVE  i \in Seqs /\ ring[Slot(i, mask)] = PktSize[i]
    <3>1. i \in next_ .. M + 1
      BY <1>3, <2>1
    <3>2. CASE i = seq
      BY <1>2, <3>1, <3>2
    <3>3. CASE i # seq
      <4>1. i <= maxseen_ /\ ring[Slot(i, mask)] = seen_[Slot(i, wndmask_)]
        BY <1>2, <2>1, <3>1, <3>3
      <4>2. i \in next_ .. maxseen_
        BY <1>3, <2>1, <4>1
      <4> QED BY <2>1, <4>1, <4>2 DEF MarksAreSizes, Seen
    <3> QED BY <3>2, <3>3
  <2>2. 0 .. n - 1 \subseteq Seqs
    <3> SUFFICES ASSUME NEW m \in 0 .. n - 1 PROVE m \in Seqs
      OBVIOUS
    <3>1. CASE m < next_
      <4>1. m \in 0 .. next_ - 1
        BY <1>3, <3>1
      <4> QED BY <4>1 DEF MarksAreSizes
    <3>2. CASE m >= next_
      <4>1. m \in next_ .. n - 1 /\ m \in next_ .. M
        BY <1>2, <1>3, <3>2
      <4> QED BY <1>2, <2>1, <4>1
    <3> QED BY <1>3, <3>1, <3>2
  <2>3. \A i \in n .. M : i \in next_ .. M
    BY <1>2, <1>3
  <2> QED BY <1>1, <2>1, <2>2, <2>3 DEF MarksAreSizes, Seen
<1> QED BY <1>2, <1>4, <1>5, <1>6

(* reset() keeps the invariant at every ring size.                          *)
LEMMA ResetAckerInv ==
  ASSUME AckerInv, AckerReset
  PROVE  AckerInv'
<1> USE DEF AckerInv, AckerTypeOK, AckerReset
<1>1. wndmask_ \in Nat \ {0} /\ 0 \in Int /\ 1 \in Int
  OBVIOUS
<1>2. Slot(0, wndmask_) \in 0 .. wndmask_ /\ Slot(1, wndmask_) \in 0 .. wndmask_
  BY <1>1, SlotInRing
<1>3. AckerTypeOK'
  <2>1. seen_' \in [0 .. wndmask_' -> Nat]
    OBVIOUS
  <2> QED BY <2>1
<1>4. WindowLength'
  <2>1. next_' = 0 /\ maxseen_' = 0 /\ wndmask_' = wndmask_
    OBVIOUS
  <2>2. wndmask_ >= 1
    BY <1>1
  <2> HIDE DEF AckerInv, AckerTypeOK, AckerReset
  <2> QED BY <1>1, <2>1, <2>2 DEF WindowLength
<1>5. EdgesAreHoles'
  BY <1>2 DEF EdgesAreHoles, Seen
<1>6. MarksAreSizes'
  BY <1>2 DEF MarksAreSizes, Seen
<1> QED BY <1>3, <1>4, <1>5, <1>6

(* The invariant is inductive.                                              *)
LEMMA StepAckerInv == AckerInv /\ [AckerNext]_ackerVars => AckerInv'
<1> SUFFICES ASSUME AckerInv, [AckerNext]_ackerVars PROVE AckerInv'
  OBVIOUS
<1>1. CASE AckerReset
  BY <1>1, ResetAckerInv
<1>2. ASSUME NEW seq \in Seqs, Update(seq) PROVE AckerInv'
  BY <1>2, UpdateAckerInv
<1>3. CASE UNCHANGED ackerVars
  BY <1>3 DEF ackerVars, AckerInv, AckerTypeOK, WindowLength, EdgesAreHoles, MarksAreSizes, Seen
<1> QED BY <1>1, <1>2, <1>3 DEF AckerNext

(* The invariant holds in every reachable state.                            *)
LEMMA AckerInvariant == AckerSpec => []AckerInv
<1> QED BY InitAckerInv, StepAckerInv, PTL DEF AckerSpec

(* Every state of the receive buffer is well typed, for every set of segment *)
(* numbers and every initial ring size.                                      *)
THEOREM AckerIsTyped == AckerSpec => []AckerTypeOK
<1>1. AckerInv => AckerTypeOK
  BY DEF AckerInv
<1> QED BY <1>1, AckerInvariant, PTL

(* However segments arrive, and however often the ring wraps, grows and is   *)
(* reset, two segments of the receive window never share a ring entry        *)
(* (Acker::update, Acker::resize_buffers).                                   *)
THEOREM AckerWindow == AckerSpec => []WindowFitsRing
<1>1. AckerInv => WindowFitsRing
  BY WindowInRing DEF AckerInv
<1> QED BY <1>1, AckerInvariant, PTL

(* Both edges of the window are always unmarked entries, so the loops of     *)
(* Acker::update and Sacker::append_ack that scan the ring stop inside it.   *)
THEOREM AckerEdges == AckerSpec => []EdgesAreHoles
<1>1. AckerInv => EdgesAreHoles
  BY DEF AckerInv
<1> QED BY <1>1, AckerInvariant, PTL

-------------------------------------------------------------------------------
(* The refinement.                                                           *)

(* The new buffer is an empty set of received segments.                     *)
LEMMA AckerInitRefines == AckerInit => Abstract!Init
<1> SUFFICES ASSUME AckerInit PROVE Abstract!Init
  OBVIOUS
<1>1. Slot(0, MWS - 1) \in 0 .. MWS - 1
  <2>1. MWS - 1 \in Nat /\ 0 \in Int
    BY MWSAssumption DEF MWSAssumption
  <2> QED BY <2>1, SlotInRing
<1>2. Received = {}
  BY <1>1 DEF AckerInit, Received, Seen
<1> QED BY <1>2 DEF AckerInit, Abstract!Init

(* update(seq) is the arrival of seq: what the ring tells afterwards is     *)
(* what it told before and seq, the same verdict on duplicates, and the     *)
(* same bytes for the application.                                          *)
LEMMA UpdateRefines ==
  ASSUME AckerInv, NEW seq \in Seqs, Update(seq)
  PROVE  Abstract!Recv(seq)
<1> USE DEF AckerInv
<1>1. PICK M, mask, ring, n :
        /\ M = maxseen_' /\ mask = wndmask_' /\ ring = seen_' /\ n = next_'
  OBVIOUS
<1>2. /\ n \in next_ .. M + 1
      /\ M = IF seq > maxseen_ THEN seq ELSE maxseen_
      /\ \A i \in next_ .. M + 1 :
           ring[Slot(i, mask)] =
             IF i = seq THEN PktSize[seq]
             ELSE IF i <= maxseen_ THEN seen_[Slot(i, wndmask_)] ELSE 0
      /\ \A m \in next_ .. n - 1 : ring[Slot(m, mask)] # 0
      /\ ring[Slot(n, mask)] = 0
      /\ numToDeliver' = Abstract!SumOf([m \in next_ .. n - 1 |-> ring[Slot(m, mask)]])
      /\ is_dup_' = (seq < next_ \/ (seq <= maxseen_ /\ Seen(seq)))
  BY <1>1, UpdateEffect
<1>3. /\ seq \in Nat /\ M \in Nat /\ n \in Nat /\ next_ \in Nat /\ maxseen_ \in Nat
      /\ M >= seq /\ M >= maxseen_ /\ next_ <= maxseen_ + 1
      /\ PktSize[seq] # 0
  BY <1>1, <1>2, SeqsAssumption DEF AckerTypeOK, SeqsAssumption, WindowLength
<1>4. Received' = 0 .. n - 1 \union {i \in n .. M : ring[Slot(i, mask)] # 0}
  BY <1>1 DEF Received, Seen
<1>5. Received = 0 .. next_ - 1 \union {i \in next_ .. maxseen_ : seen_[Slot(i, wndmask_)] # 0}
  BY DEF Received, Seen
<1>6. Received' = Received \union {seq}
  <2>1. ASSUME NEW i \in Int
        PROVE  i \in Received' <=> i \in Received \/ i = seq
    <3>1. CASE i < next_ \/ i > M
      BY <1>2, <1>3, <1>4, <1>5, <3>1
    <3>2. CASE i \in next_ .. M
      <4>1. i \in next_ .. M + 1
        BY <1>3, <3>2
      <4>2. i \in Received' <=> ring[Slot(i, mask)] # 0
        <5>1. i \in next_ .. n - 1 \/ i \in n .. M
          BY <1>2, <1>3, <3>2
        <5> QED BY <1>2, <1>3, <1>4, <3>2, <5>1
      <4>3. i \in Received <=> i <= maxseen_ /\ seen_[Slot(i, wndmask_)] # 0
        BY <1>3, <1>5, <3>2
      <4> QED BY <1>2, <1>3, <4>1, <4>2, <4>3
    <3> QED BY <1>3, <2>1, <3>1, <3>2
  <2>2. Received' \subseteq Int /\ Received \subseteq Int /\ seq \in Int
    BY <1>3, <1>4, <1>5
  <2> QED BY <2>1, <2>2
<1>7. is_dup_' = (seq \in Received)
  <2>1. seq \in Received <=> (seq < next_ \/ (seq <= maxseen_ /\ Seen(seq)))
    BY <1>3, <1>5 DEF Seen
  <2> QED BY <1>2, <2>1
<1>8. n \in Nat \ Received' /\ 0 .. n - 1 \subseteq Received'
  BY <1>2, <1>3, <1>4
<1>9. numToDeliver' = Abstract!SumOf([s \in next_ .. n - 1 |-> PktSize[s]])
  <2>1. ASSUME NEW m \in next_ .. n - 1
        PROVE  ring[Slot(m, mask)] = PktSize[m]
    <3>1. m \in next_ .. M + 1 /\ ring[Slot(m, mask)] # 0
      BY <1>2, <1>3, <2>1
    <3>2. CASE m = seq
      BY <1>2, <3>1, <3>2
    <3>3. CASE m # seq
      <4>1. m \in next_ .. maxseen_ /\ ring[Slot(m, mask)] = seen_[Slot(m, wndmask_)]
        BY <1>2, <1>3, <2>1, <3>1, <3>3
      <4> QED BY <3>1, <4>1 DEF MarksAreSizes, Seen
    <3> QED BY <3>2, <3>3
  <2>2. [m \in next_ .. n - 1 |-> ring[Slot(m, mask)]] = [s \in next_ .. n - 1 |-> PktSize[s]]
    BY <2>1
  <2> QED BY <1>2, <2>2
<1> QED BY <1>1, <1>6, <1>7, <1>8, <1>9 DEF Abstract!Recv

(* reset() forgets everything received.                                     *)
LEMMA AckerResetRefines ==
  ASSUME AckerInv, AckerReset
  PROVE  Abstract!Reset
<1>1. Slot(0, wndmask_) \in 0 .. wndmask_
  <2>1. wndmask_ \in Nat /\ 0 \in Int
    BY DEF AckerInv, AckerTypeOK
  <2> QED BY <2>1, SlotInRing
<1>2. Received' = {}
  BY <1>1 DEF AckerReset, Received, Seen
<1> QED BY <1>2 DEF AckerReset, Abstract!Reset

(* Every step of the ring is a step of the abstract buffer or a stutter.    *)
LEMMA AckerStepRefines == AckerInv /\ [AckerNext]_ackerVars => [Abstract!Next]_(Abstract!vars)
<1> SUFFICES ASSUME AckerInv, [AckerNext]_ackerVars PROVE [Abstract!Next]_(Abstract!vars)
  OBVIOUS
<1>1. CASE AckerReset
  BY <1>1, AckerResetRefines DEF Abstract!Next
<1>2. ASSUME NEW seq \in Seqs, Update(seq) PROVE Abstract!Next
  BY <1>2, UpdateRefines DEF Abstract!Next
<1>3. CASE UNCHANGED ackerVars
  BY <1>3 DEF ackerVars, Abstract!vars, Received, Seen
<1> QED BY <1>1, <1>2, <1>3 DEF AckerNext

(* The ring with its mask, its clearing and its resizing computes exactly    *)
(* what a set of received segments would: the cumulative ACK is the first    *)
(* missing segment, a segment is called a duplicate when it had arrived      *)
(* before, and each byte goes to the application once, in order.             *)
THEOREM AckerReassembles == AckerSpec => Reassembles
<1>1. AckerInit => Abstract!Init
  BY AckerInitRefines
<1>2. AckerInv /\ [AckerNext]_ackerVars => [Abstract!Next]_(Abstract!vars)
  BY AckerStepRefines
<1> QED BY <1>1, <1>2, AckerInvariant, PTL DEF AckerSpec, Reassembles, Abstract!Spec

-------------------------------------------------------------------------------
(* Least and greatest numbers, induction and recursion, with sets in the     *)
(* place of predicates.                                                      *)

(* A set of natural numbers that is not empty has a least one.               *)
LEMMA MinIsLeast ==
  ASSUME NEW S, S \subseteq Nat, S # {}
  PROVE  Min(S) \in S /\ \A y \in S : Min(S) <= y
<1>1. PICK m \in S : \A y \in S : ~ (<<y, m>> \in OpToRel(<, Nat))
  BY NatLessThanWellFounded, WFMin
<1>2. \A y \in S : <<y, m>> \in Nat \X Nat
  OBVIOUS
<1>3. \A y \in S : ~ (y < m)
  BY <1>1, <1>2 DEF OpToRel
<1>4. \A y \in S : m <= y
  BY <1>3
<1> QED BY <1>4 DEF Min

(* One that is bounded has a greatest one.                                   *)
LEMMA MaxIsGreatest ==
  ASSUME NEW S, NEW k \in Nat, S \subseteq 0 .. k, S # {}
  PROVE  Max(S) \in S /\ \A y \in S : Max(S) >= y
<1> DEFINE T == {i \in 0 .. k : k - i \in S}
<1>1. T \subseteq Nat
  OBVIOUS
<1>2. PICK x \in S : TRUE
  OBVIOUS
<1>3. k - x \in T
  <2>1. x \in 0 .. k /\ k - (k - x) = x
    OBVIOUS
  <2> QED BY <2>1
<1>4. Min(T) \in T /\ \A y \in T : Min(T) <= y
  BY <1>1, <1>3, MinIsLeast
<1>5. PICK m : m = Min(T)
  OBVIOUS
<1>6. k - m \in S /\ m \in 0 .. k
  BY <1>4, <1>5
<1>7. ASSUME NEW y \in S PROVE k - m >= y
  <2>1. y \in 0 .. k /\ k - (k - y) = y
    OBVIOUS
  <2>2. k - y \in T
    BY <2>1
  <2>3. m <= k - y
    BY <1>4, <1>5, <2>2
  <2> QED BY <1>6, <2>1, <2>3
<1> HIDE DEF T
<1> QED BY <1>6, <1>7 DEF Max

(* A set that holds 0 and the successor of each of its numbers holds all.    *)
LEMMA SetInduction ==
  ASSUME NEW S, 0 \in S, \A n \in Nat : n \in S => n + 1 \in S
  PROVE  \A n \in Nat : n \in S
<1> SUFFICES ASSUME Nat \ S # {} PROVE FALSE
  OBVIOUS
<1>1. PICK m : m = Min(Nat \ S)
  OBVIOUS
<1>2. m \in Nat \ S /\ \A y \in Nat \ S : m <= y
  BY <1>1, MinIsLeast
<1>3. m # 0 /\ m - 1 \in Nat /\ ~ (m <= m - 1)
  BY <1>2
<1>4. (m - 1) + 1 \in S
  BY <1>2, <1>3
<1> QED BY <1>2, <1>4

(* The values of g start with a, and each of them follows from the one       *)
(* before by F.                                                              *)
Successors(N, A) == [(1 .. N) \X A -> A]
Iterates(g, N, A, a, F) ==
  g \in [0 .. N -> A] /\ g[0] = a /\ \A n \in 1 .. N : g[n] = F[<<n, g[n - 1]>>]

(* A function on 0 .. N can be defined by its first value and by a function  *)
(* that gives each value from the one before.                                *)
LEMMA Recursion ==
  ASSUME NEW N \in Nat, NEW A, NEW a \in A, NEW F \in Successors(N, A)
  PROVE  \E g : Iterates(g, N, A, a, F)
<1> USE DEF Successors, Iterates
<1> DEFINE Up(m, g) == g[0] = a /\ \A n \in 1 .. m : g[n] = F[<<n, g[n - 1]>>]
           S == {m \in Nat : m <= N => \E g \in [0 .. m -> A] : Up(m, g)}
<1>1. 0 \in S
  <2>1. [n \in 0 .. 0 |-> a] \in [0 .. 0 -> A] /\ Up(0, [n \in 0 .. 0 |-> a])
    OBVIOUS
  <2> QED BY <2>1
<1>2. ASSUME NEW m \in Nat, m \in S PROVE m + 1 \in S
  <2> SUFFICES ASSUME m + 1 <= N
               PROVE  \E g \in [0 .. m + 1 -> A] : Up(m + 1, g)
    OBVIOUS
  <2>1. PICK g \in [0 .. m -> A] : Up(m, g)
    BY <1>2
  <2> DEFINE h == [n \in 0 .. m + 1 |-> IF n = m + 1 THEN F[<<m + 1, g[m]>>] ELSE g[n]]
  <2>2. F[<<m + 1, g[m]>>] \in A
    <3>1. <<m + 1, g[m]>> \in (1 .. N) \X A
      OBVIOUS
    <3> QED BY <3>1
  <2>3. h \in [0 .. m + 1 -> A]
    BY <2>2
  <2>4. \A n \in 0 .. m : h[n] = g[n]
    OBVIOUS
  <2>5. h[m + 1] = F[<<m + 1, g[m]>>]
    OBVIOUS
  <2> HIDE DEF h
  <2>6. ASSUME NEW n \in 1 .. m + 1 PROVE h[n] = F[<<n, h[n - 1]>>]
    <3>1. CASE n = m + 1
      BY <2>4, <2>5, <3>1
    <3>2. CASE n \in 1 .. m
      <4>1. n \in 0 .. m /\ n - 1 \in 0 .. m
        BY <3>2
      <4> QED BY <2>1, <2>4, <3>2, <4>1
    <3> QED BY <2>6, <3>1, <3>2
  <2>7. h[0] = a
    BY <2>1, <2>4
  <2> QED BY <2>3, <2>6, <2>7
<1>3. N \in S
  <2> HIDE DEF S
  <2> QED BY <1>1, <1>2, SetInduction
<1> QED BY <1>3

-------------------------------------------------------------------------------
(* The receive buffer as a set of segments.                                  *)

(* Inside the window, an entry is marked when its segment is received; all   *)
(* received segments have numbers of segments.                               *)
LEMMA ReceivedFacts ==
  AckerInv =>
    /\ \A i \in next_ .. maxseen_ + 1 : Seen(i) <=> i \in Received
    /\ next_ \in Nat /\ maxseen_ \in Nat /\ next_ <= maxseen_ + 1
    /\ next_ \notin Received
    /\ Received \subseteq 0 .. maxseen_ /\ 0 .. next_ - 1 \subseteq Received
    /\ Received \subseteq Seqs
<1> SUFFICES ASSUME AckerInv
             PROVE  /\ \A i \in next_ .. maxseen_ + 1 : Seen(i) <=> i \in Received
                    /\ next_ \in Nat /\ maxseen_ \in Nat /\ next_ <= maxseen_ + 1
                    /\ next_ \notin Received
                    /\ Received \subseteq 0 .. maxseen_ /\ 0 .. next_ - 1 \subseteq Received
                    /\ Received \subseteq Seqs
  OBVIOUS
<1>1. next_ \in Nat /\ maxseen_ \in Nat /\ next_ <= maxseen_ + 1
  BY DEF AckerInv, AckerTypeOK, WindowLength
<1>2. ~ Seen(next_) /\ ~ Seen(maxseen_ + 1)
  BY DEF AckerInv, EdgesAreHoles
<1>3. \A i \in next_ .. maxseen_ : Seen(i) => i \in Seqs
  BY DEF AckerInv, MarksAreSizes
<1>4. 0 .. next_ - 1 \subseteq Seqs
  BY DEF AckerInv, MarksAreSizes
<1>5. Received = 0 .. next_ - 1 \union {i \in next_ .. maxseen_ : Seen(i)}
  BY DEF Received
<1> QED BY <1>1, <1>2, <1>3, <1>4, <1>5

(* The same in the state after a step.                                       *)
LEMMA ReceivedFactsNext ==
  AckerInv' =>
    (/\ \A i \in next_ .. maxseen_ + 1 : Seen(i) <=> i \in Received
     /\ next_ \in Nat /\ maxseen_ \in Nat /\ next_ <= maxseen_ + 1
     /\ next_ \notin Received
     /\ Received \subseteq 0 .. maxseen_ /\ 0 .. next_ - 1 \subseteq Received
     /\ Received \subseteq Seqs)'
BY ReceivedFacts, PTL

(* What the arrival of a segment does to the buffer.                         *)
LEMMA UpdateFacts ==
  ASSUME AckerInv, NEW seq \in Seqs, Update(seq)
  PROVE  /\ AckerInv'
         /\ Received' = Received \union {seq}
         /\ is_dup_' = (seq \in Received)
         /\ next_ <= next_'
         /\ \A i \in next_ .. next_' - 1 : Seen(i)'
<1>1. AckerInv'
  BY UpdateAckerInv
<1>2. Received' = Received \union {seq} /\ is_dup_' = (seq \in Received)
  BY UpdateRefines DEF Abstract!Recv
<1>3. next_' \in next_ .. maxseen_' + 1
  BY UpdateEffect
<1>4. \A m \in next_ .. next_' - 1 : seen_'[Slot(m, wndmask_')] # 0
  BY UpdateEffect
<1>5. next_ <= next_'
  BY <1>3 DEF AckerInv, AckerTypeOK
<1>6. \A i \in next_ .. next_' - 1 : Seen(i)'
  BY <1>4 DEF Seen
<1> QED BY <1>1, <1>2, <1>5, <1>6

(* From a new segment up to the next missing one, the ring holds them all.   *)
LEMMA NewIsScanned ==
  ASSUME AckerInv, AckerInv', NEW seq \in Nat, seq \notin Received,
         \A i \in next_ .. next_' - 1 : Seen(i)'
  PROVE  \A i \in seq .. next_' - 1 : Seen(i)'
<1>1. next_ \in Nat /\ 0 .. next_ - 1 \subseteq Received
  BY ReceivedFacts
<1>2. seq >= next_
  BY <1>1
<1>3. PICK n : n = next_'
  OBVIOUS
<1>4. n \in Nat
  BY <1>3, ReceivedFactsNext
<1>5. seq .. n - 1 \subseteq next_ .. n - 1
  BY <1>1, <1>2, <1>4
<1> QED BY <1>3, <1>5

(* A sequence whose elements are all of one set.                             *)
LEMMA SeqNarrows ==
  ASSUME NEW A, NEW B, NEW t \in Seq(A), \A j \in 1 .. Len(t) : t[j] \in B
  PROVE  t \in Seq(B)
OBVIOUS

(* A maximal run of received segments above the cumulative ACK.              *)
HeldRun(b) ==
  /\ b \in Int \X Int
  /\ next_ < b[1] /\ b[1] < b[2]
  /\ \A s \in b[1] .. b[2] - 1 : s \in Received
  /\ b[1] - 1 \notin Received /\ b[2] \notin Received

(* Two runs that share a segment are the same.                               *)
LEMMA RunsAreMaximal ==
  ASSUME NEW a, NEW b, HeldRun(a), HeldRun(b), next_ \in Int,
         NEW s \in Int, s \in Segments(a), s \in Segments(b)
  PROVE  a = b
<1>1. a[1] \in Int /\ a[2] \in Int /\ b[1] \in Int /\ b[2] \in Int
  BY DEF HeldRun
<1>2. a[1] <= s /\ s < a[2] /\ b[1] <= s /\ s < b[2]
  BY <1>1 DEF Segments
<1>3. a[1] = b[1]
  <2>1. ~ a[1] < b[1]
    <3>1. a[1] < b[1] => b[1] - 1 \in a[1] .. a[2] - 1
      BY <1>1, <1>2
    <3> QED BY <3>1 DEF HeldRun
  <2>2. ~ b[1] < a[1]
    <3>1. b[1] < a[1] => a[1] - 1 \in b[1] .. b[2] - 1
      BY <1>1, <1>2
    <3> QED BY <3>1 DEF HeldRun
  <2> QED BY <1>1, <2>1, <2>2
<1>4. a[2] = b[2]
  <2>1. ~ a[2] < b[2]
    <3>1. a[2] < b[2] => a[2] \in b[1] .. b[2] - 1
      BY <1>1, <1>2
    <3> QED BY <3>1 DEF HeldRun
  <2>2. ~ b[2] < a[2]
    <3>1. b[2] < a[2] => b[2] \in a[1] .. a[2] - 1
      BY <1>1, <1>2
    <3> QED BY <3>1 DEF HeldRun
  <2> QED BY <1>1, <2>1, <2>2
<1> QED BY <1>3, <1>4 DEF HeldRun

LEMMA RunsAreMaximalNext ==
  AckerInv' =>
    (\A a, b : HeldRun(a) /\ HeldRun(b) =>
       \A s \in Int : s \in Segments(a) /\ s \in Segments(b) => a = b)'
<1>1. AckerInv => next_ \in Int
  BY ReceivedFacts
<1>2. AckerInv =>
        \A a, b : HeldRun(a) /\ HeldRun(b) =>
          \A s \in Int : s \in Segments(a) /\ s \in Segments(b) => a = b
  BY <1>1, RunsAreMaximal
<1> QED BY <1>2, PTL

-------------------------------------------------------------------------------
(* The recent block.                                                         *)

(* Where the scan to the right of a segment ends.                            *)
LEMMA FirstHoleIsFirst ==
  ASSUME AckerInv, NEW seq \in Nat, seq <= maxseen_
  PROVE  /\ FirstHole(seq) \in seq .. maxseen_ + 1
         /\ \A i \in seq .. FirstHole(seq) - 1 : Seen(i)
         /\ ~ Seen(FirstHole(seq))
<1> DEFINE S == {i \in seq .. maxseen_ : ~ Seen(i)} \union {maxseen_ + 1}
<1>1. maxseen_ \in Nat /\ ~ Seen(maxseen_ + 1)
  BY DEF AckerInv, AckerTypeOK, EdgesAreHoles
<1>2. S \subseteq Nat /\ maxseen_ + 1 \in S
  BY <1>1
<1>3. PICK r : r = FirstHole(seq)
  OBVIOUS
<1>4. r \in S /\ \A y \in S : r <= y
  BY <1>2, <1>3, MinIsLeast DEF FirstHole
<1>5. r \in seq .. maxseen_ + 1 /\ ~ Seen(r)
  BY <1>1, <1>4
<1>6. ASSUME NEW i \in seq .. r - 1 PROVE Seen(i)
  BY <1>1, <1>4, <1>5
<1> QED BY <1>3, <1>5, <1>6

(* For a segment above the cumulative ACK, the recent block is the run of    *)
(* received segments that it lies in.                                        *)
LEMMA RecentBlockIsRun ==
  AckerInv =>
    \A seq \in Received : seq > next_ =>
      HeldRun(RecentBlock(seq)) /\ seq \in Segments(RecentBlock(seq))
<1> SUFFICES ASSUME AckerInv, NEW seq \in Received, seq > next_
             PROVE  HeldRun(RecentBlock(seq)) /\ seq \in Segments(RecentBlock(seq))
  OBVIOUS
<1>1. /\ \A i \in next_ .. maxseen_ + 1 : Seen(i) <=> i \in Received
      /\ next_ \in Nat /\ maxseen_ \in Nat /\ seq \in next_ + 1 .. maxseen_
      /\ next_ \notin Received
  BY ReceivedFacts
<1>2. PICK r : r = FirstHole(seq)
  OBVIOUS
<1>3. /\ r \in seq .. maxseen_ + 1
      /\ \A i \in seq .. r - 1 : Seen(i)
      /\ ~ Seen(r)
  BY <1>1, <1>2, FirstHoleIsFirst
<1>4. r \in seq + 1 .. maxseen_ + 1 /\ r \notin Received
  BY <1>1, <1>3
<1> DEFINE holes == {i \in next_ .. r - 1 : ~ Seen(i)}
<1>5. next_ \in holes /\ holes \subseteq 0 .. maxseen_
  BY <1>1, <1>4
<1>6. PICK h : h = Max(holes)
  OBVIOUS
<1>7. h \in holes /\ \A y \in holes : h >= y
  BY <1>1, <1>5, <1>6, MaxIsGreatest
<1>8. h \in next_ .. seq - 1 /\ h \notin Received
  BY <1>1, <1>3, <1>4, <1>7
<1>9. ASSUME NEW i \in h + 1 .. r - 1 PROVE i \in Received
  <2>1. i \in next_ .. r - 1 /\ ~ (h >= i)
    BY <1>1, <1>4, <1>8
  <2>2. Seen(i)
    BY <1>7, <2>1
  <2> QED BY <1>1, <1>4, <2>1, <2>2
<1>10. RecentBlock(seq) = <<h + 1, r>>
  <2>1. Seqno + 1 = next_ /\ ~ (seq <= Seqno)
    BY <1>1 DEF Seqno
  <2>2. {i \in Seqno + 1 .. r - 1 : ~ Seen(i)} = holes
    BY <2>1
  <2> HIDE DEF holes
  <2>3. holes # {}
    BY <1>5
  <2> QED BY <1>2, <1>6, <2>1, <2>2, <2>3 DEF RecentBlock
<1>11. (h + 1) - 1 = h /\ next_ < h + 1 /\ h + 1 < r + 0
  BY <1>1, <1>4, <1>8
<1> QED
  BY <1>1, <1>4, <1>8, <1>9, <1>10, <1>11 DEF HeldRun, Segments

LEMMA RecentBlockIsRunNext ==
  AckerInv' =>
    (\A seq \in Received : seq > next_ =>
       HeldRun(RecentBlock(seq)) /\ seq \in Segments(RecentBlock(seq)))'
BY RecentBlockIsRun, PTL

(* For a segment at or below the cumulative ACK, it is a block from 0 to at  *)
(* most the first missing segment: up to it, if the ring still holds what    *)
(* is between the two.                                                       *)
LEMMA RecentBlockBelow ==
  AckerInv =>
    \A seq \in Nat : seq < next_ /\ next_ <= maxseen_ =>
      /\ RecentBlock(seq) \in Int \X Int
      /\ RecentBlock(seq)[1] = 0
      /\ RecentBlock(seq)[2] <= next_
      /\ (\A i \in seq .. next_ - 1 : Seen(i)) => RecentBlock(seq)[2] = next_
<1> SUFFICES ASSUME AckerInv, NEW seq \in Nat, seq < next_, next_ <= maxseen_
             PROVE  /\ RecentBlock(seq) \in Int \X Int
                    /\ RecentBlock(seq)[1] = 0
                    /\ RecentBlock(seq)[2] <= next_
                    /\ (\A i \in seq .. next_ - 1 : Seen(i)) => RecentBlock(seq)[2] = next_
  OBVIOUS
<1>1. next_ \in Nat /\ maxseen_ \in Nat /\ ~ Seen(next_)
  BY DEF AckerInv, AckerTypeOK, EdgesAreHoles
<1>2. PICK r : r = FirstHole(seq)
  OBVIOUS
<1>3. /\ r \in seq .. maxseen_ + 1
      /\ \A i \in seq .. r - 1 : Seen(i)
      /\ ~ Seen(r)
  BY <1>1, <1>2, FirstHoleIsFirst
<1>4. RecentBlock(seq) = <<0, r>>
  <2>1. seq <= Seqno
    BY <1>1 DEF Seqno
  <2> QED BY <1>2, <2>1 DEF RecentBlock
<1>5. r <= next_
  BY <1>1, <1>3
<1>6. ASSUME \A i \in seq .. next_ - 1 : Seen(i) PROVE r = next_
  BY <1>1, <1>3, <1>5, <1>6
<1> QED BY <1>3, <1>4, <1>5, <1>6

LEMMA RecentBlockBelowNext ==
  AckerInv' =>
    (\A seq \in Nat : seq < next_ /\ next_ <= maxseen_ =>
       /\ RecentBlock(seq) \in Int \X Int
       /\ RecentBlock(seq)[1] = 0
       /\ RecentBlock(seq)[2] <= next_
       /\ (\A i \in seq .. next_ - 1 : Seen(i)) => RecentBlock(seq)[2] = next_)'
BY RecentBlockBelow, PTL

-------------------------------------------------------------------------------
(* The walk down the history.                                                *)

(* The recursion that defines the reported blocks.                           *)
LEMMA UncoveredRecursion ==
  ASSUME NEW recent, sf_ \in Seq(Int \X Int),
         NEW kept, kept = Uncovered(recent)
  PROVE  /\ kept[0] = <<>>
         /\ \A n \in 1 .. Len(sf_) :
              kept[n] = IF Covers(recent, sf_[n]) THEN kept[n - 1]
                        ELSE Append(kept[n - 1], sf_[n])
<1> DEFINE A == Seq(Int \X Int)
           N == Len(sf_)
           F == [p \in (1 .. N) \X A |->
                   IF Covers(recent, sf_[p[1]]) THEN p[2] ELSE Append(p[2], sf_[p[1]])]
           Of(g) == [n \in 0 .. N |->
                       IF n = 0 THEN <<>>
                       ELSE IF Covers(recent, sf_[n]) THEN g[n - 1] ELSE Append(g[n - 1], sf_[n])]
<1>1. N \in Nat /\ <<>> \in A
  OBVIOUS
<1>2. F \in [(1 .. N) \X A -> A]
  <2> SUFFICES ASSUME NEW n \in 1 .. N, NEW q \in A
               PROVE  Append(q, sf_[n]) \in A
    OBVIOUS
  <2> QED OBVIOUS
<1>3. PICK g \in [0 .. N -> A] :
        g[0] = <<>> /\ \A n \in 1 .. N : g[n] = F[<<n, g[n - 1]>>]
  <2> HIDE DEF A, N, F
  <2>1. F \in Successors(N, A)
    BY <1>2 DEF Successors
  <2>2. PICK f : Iterates(f, N, A, <<>>, F)
    BY <1>1, <2>1, Recursion
  <2> QED BY <2>2 DEF Iterates
<1>4. g = Of(g)
  <2>1. ASSUME NEW n \in 1 .. N
        PROVE  g[n] = IF Covers(recent, sf_[n]) THEN g[n - 1] ELSE Append(g[n - 1], sf_[n])
    <3>0. n - 1 \in 0 .. N
      BY <1>1
    <3>1. g[n - 1] \in A
      <4> HIDE DEF A, N
      <4> QED BY <1>3, <3>0
    <3>2. <<n, g[n - 1]>> \in (1 .. N) \X A
      BY <3>1
    <3> QED BY <1>3, <3>2
  <2>2. g = [n \in 0 .. N |-> g[n]]
    OBVIOUS
  <2>3. \A n \in 0 .. N : n = 0 \/ n \in 1 .. N
    BY <1>1
  <2> HIDE DEF A, N, F
  <2>4. \A n \in 0 .. N : g[n] = Of(g)[n]
    BY <1>3, <2>1, <2>3
  <2> QED BY <2>2, <2>4
<1>5. kept = CHOOSE f : f = Of(f)
  BY DEF Uncovered
<1>6. kept = Of(kept)
  <2> HIDE DEF Of
  <2> QED BY <1>4, <1>5
<1>7. \A n \in 0 .. N : kept[n] = Of(kept)[n]
  BY <1>6
<1> QED BY <1>1, <1>7

(* The elements of a concatenation.                                          *)
LEMMA Concatenation ==
  ASSUME NEW A, NEW a \in Seq(A), NEW b \in Seq(A)
  PROVE  /\ a \o b \in Seq(A) /\ Len(a \o b) = Len(a) + Len(b)
         /\ \A j \in 1 .. Len(a) : (a \o b)[j] = a[j]
         /\ \A j \in Len(a) + 1 .. Len(a) + Len(b) : (a \o b)[j] = b[j - Len(a)]
OBVIOUS

(* No block is repeated.                                                     *)
Distinct(s) == \A i, j \in 1 .. Len(s) : s[i] = s[j] => i = j

(* q has the block b.                                                        *)
Reports(q, b) == \E j \in 1 .. Len(q) : q[j] = b

(* q is made of the uncovered blocks among the first n of the history, each  *)
(* once if the history repeats none.                                         *)
PickedFrom(q, n, recent) ==
  /\ q \in Seq(Int \X Int) /\ Len(q) <= n
  /\ \A j \in 1 .. Len(q) : \E i \in 1 .. n : q[j] = sf_[i] /\ ~ Covers(recent, sf_[i])
  /\ \A i \in 1 .. n : ~ Covers(recent, sf_[i]) => Reports(q, sf_[i])
  /\ Distinct(sf_) => Distinct(q)

LEMMA PickedAppend ==
  ASSUME NEW recent, sf_ \in Seq(Int \X Int), NEW m \in Nat, m + 1 <= Len(sf_),
         NEW q, PickedFrom(q, m, recent), ~ Covers(recent, sf_[m + 1])
  PROVE  PickedFrom(Append(q, sf_[m + 1]), m + 1, recent)
<1>1. PICK b, r, k : b = sf_[m + 1] /\ r = Append(q, b) /\ k = Len(q)
  OBVIOUS
<1>2. /\ q \in Seq(Int \X Int) /\ k \in Nat /\ k <= m
      /\ \A j \in 1 .. k : \E i \in 1 .. m : q[j] = sf_[i] /\ ~ Covers(recent, sf_[i])
      /\ Distinct(sf_) => \A i, j \in 1 .. k : q[i] = q[j] => i = j
      /\ \A i \in 1 .. m : ~ Covers(recent, sf_[i]) => \E j \in 1 .. k : q[j] = sf_[i]
  BY <1>1 DEF PickedFrom, Distinct, Reports
<1>3. Len(sf_) \in Nat /\ m + 1 \in 1 .. Len(sf_) /\ b \in Int \X Int
  BY <1>1
<1>4. /\ r \in Seq(Int \X Int) /\ Len(r) = k + 1
      /\ \A j \in 1 .. k : r[j] = q[j]
      /\ r[k + 1] = b
  BY <1>1, <1>2, <1>3
<1>5. \A j \in 1 .. k + 1 : j \in 1 .. k \/ j = k + 1
  BY <1>2
<1>6. ASSUME NEW j \in 1 .. k + 1
      PROVE  \E i \in 1 .. m + 1 : r[j] = sf_[i] /\ ~ Covers(recent, sf_[i])
  <2>1. CASE j \in 1 .. k
    <3>1. PICK i \in 1 .. m : q[j] = sf_[i] /\ ~ Covers(recent, sf_[i])
      BY <1>2, <2>1
    <3>2. i \in 1 .. m + 1
      OBVIOUS
    <3> QED BY <1>4, <2>1, <3>1, <3>2
  <2>2. CASE j = k + 1
    BY <1>1, <1>4, <2>2
  <2> QED BY <1>5, <1>6, <2>1, <2>2
<1>7. ASSUME Distinct(sf_) PROVE Distinct(r)
  <2>1. ASSUME NEW j \in 1 .. k PROVE r[j] # r[k + 1]
    <3>1. PICK i \in 1 .. m : q[j] = sf_[i]
      BY <1>2, <2>1
    <3>2. i \in 1 .. Len(sf_) /\ i # m + 1
      BY <1>3
    <3> QED BY <1>1, <1>3, <1>4, <1>7, <2>1, <3>1, <3>2 DEF Distinct
  <2>2. \A i, j \in 1 .. k : r[i] = r[j] => i = j
    BY <1>2, <1>4, <1>7
  <2>3. \A i, j \in 1 .. k + 1 : r[i] = r[j] => i = j
    BY <1>5, <2>1, <2>2
  <2> QED BY <1>4, <2>3 DEF Distinct
<1>8. Len(r) <= m + 1
  BY <1>2, <1>4
<1>9. ASSUME NEW i \in 1 .. m + 1, ~ Covers(recent, sf_[i]) PROVE Reports(r, sf_[i])
  <2>1. CASE i \in 1 .. m
    <3>1. PICK j \in 1 .. k : q[j] = sf_[i]
      BY <1>2, <1>9, <2>1
    <3>2. j \in 1 .. k + 1
      BY <1>2
    <3> QED BY <1>4, <3>1, <3>2 DEF Reports
  <2>2. CASE i = m + 1
    <3>1. k + 1 \in 1 .. k + 1
      BY <1>2
    <3> QED BY <1>1, <1>4, <2>2, <3>1 DEF Reports
  <2> QED BY <2>1, <2>2
<1>10. PickedFrom(r, m + 1, recent)
  BY <1>4, <1>6, <1>7, <1>8, <1>9 DEF PickedFrom
<1> QED BY <1>1, <1>10

(* What is reported of the first n blocks is picked from them.               *)
LEMMA UncoveredFacts ==
  ASSUME NEW recent, sf_ \in Seq(Int \X Int),
         NEW kept, kept = Uncovered(recent), NEW n \in 0 .. Len(sf_)
  PROVE  PickedFrom(kept[n], n, recent)
<1> DEFINE N == Len(sf_)
           S == {m \in Nat : m <= N => PickedFrom(kept[m], m, recent)}
<1>1. N \in Nat
  OBVIOUS
<1>2. /\ kept[0] = <<>>
      /\ \A m \in 1 .. N : kept[m] = IF Covers(recent, sf_[m]) THEN kept[m - 1]
                                     ELSE Append(kept[m - 1], sf_[m])
  BY UncoveredRecursion
<1>3. 0 \in S
  <2>1. <<>> \in Seq(Int \X Int) /\ Len(<<>>) = 0 /\ 1 .. 0 = {}
    OBVIOUS
  <2>2. PickedFrom(<<>>, 0, recent)
    BY <2>1 DEF PickedFrom, Distinct
  <2> QED BY <1>2, <2>2
<1>4. ASSUME NEW m \in Nat, m \in S PROVE m + 1 \in S
  <2> SUFFICES ASSUME m + 1 <= N PROVE PickedFrom(kept[m + 1], m + 1, recent)
    OBVIOUS
  <2>1. PickedFrom(kept[m], m, recent)
    BY <1>1, <1>4
  <2>2. m + 1 \in 1 .. N /\ (m + 1) - 1 = m
    BY <1>1
  <2>3. kept[m + 1] = IF Covers(recent, sf_[m + 1]) THEN kept[m]
                      ELSE Append(kept[m], sf_[m + 1])
    BY <1>2, <2>2
  <2>4. CASE Covers(recent, sf_[m + 1])
    <3>1. PICK q : q = kept[m]
      OBVIOUS
    <3>2. 1 .. m \subseteq 1 .. m + 1 /\ (Len(q) \in Nat /\ Len(q) <= m => Len(q) <= m + 1)
      OBVIOUS
    <3>3. \A i \in 1 .. m + 1 : i \in 1 .. m \/ i = m + 1
      OBVIOUS
    <3>4. /\ q \in Seq(Int \X Int) /\ Len(q) <= m /\ (Distinct(sf_) => Distinct(q))
          /\ \A j \in 1 .. Len(q) :
               \E i \in 1 .. m : q[j] = sf_[i] /\ ~ Covers(recent, sf_[i])
          /\ \A i \in 1 .. m : ~ Covers(recent, sf_[i]) => Reports(q, sf_[i])
      BY <2>1, <3>1 DEF PickedFrom
    <3>5. Len(q) \in Nat /\ Len(q) <= m + 1
      BY <3>2, <3>4
    <3>6. \A j \in 1 .. Len(q) :
             \E i \in 1 .. m + 1 : q[j] = sf_[i] /\ ~ Covers(recent, sf_[i])
      BY Zenon, <3>2, <3>4
    <3>7. \A i \in 1 .. m + 1 : ~ Covers(recent, sf_[i]) => Reports(q, sf_[i])
      BY Zenon, <2>4, <3>3, <3>4
    <3>8. PickedFrom(q, m + 1, recent)
      BY Zenon, <3>4, <3>5, <3>6, <3>7 DEF PickedFrom
    <3> QED BY <2>3, <2>4, <3>1, <3>8
  <2>5. CASE ~ Covers(recent, sf_[m + 1])
    BY <2>1, <2>3, <2>5, PickedAppend
  <2> QED BY <2>4, <2>5
<1>5. \A m \in Nat : m \in S
  <2> HIDE DEF S
  <2> QED BY <1>3, <1>4, SetInduction
<1>6. n \in Nat /\ n <= N
  BY <1>1
<1> QED BY <1>5, <1>6

(* A block of the history is in the window: the walk does not end at it.     *)
InWindow(b, maxseen) == b[1] >= 0 /\ b[2] >= 0 /\ b[2] <= maxseen + 1

(* What the walk reports and what it leaves.  When all blocks are in the     *)
(* window, it leaves nothing else than it reports, and that is every         *)
(* uncovered block, unless the room is used up.                              *)
Walked(w, recent, room, maxseen) ==
  /\ w.blocks \in Seq(Int \X Int) /\ w.stack \in Seq(Int \X Int)
  /\ Len(w.blocks) <= room /\ Len(w.blocks) <= Len(w.stack)
  /\ Len(w.stack) <= Len(sf_)
  /\ \A j \in 1 .. Len(w.blocks) :
       /\ w.stack[j] = w.blocks[j]
       /\ \E i \in 1 .. Len(sf_) : w.blocks[j] = sf_[i] /\ ~ Covers(recent, sf_[i])
  /\ \A j \in 1 .. Len(w.stack) : \E i \in 1 .. Len(sf_) : w.stack[j] = sf_[i]
  /\ Distinct(sf_) => Distinct(w.blocks)
  /\ (\A i \in 1 .. Len(sf_) : InWindow(sf_[i], maxseen)) =>
       \/ /\ w.stack = w.blocks
          /\ \A i \in 1 .. Len(sf_) : ~ Covers(recent, sf_[i]) => Reports(w.blocks, sf_[i])
       \/ Len(w.blocks) = room /\ room < Len(sf_)

LEMMA WalkFacts ==
  ASSUME NEW recent, sf_ \in Seq(Int \X Int), NEW room \in Nat, NEW maxseen \in Int,
         NEW w, w = Walk(recent, room, maxseen)
  PROVE  Walked(w, recent, room, maxseen)
<1>0. PICK kept : kept = Uncovered(recent)
  OBVIOUS
<1> DEFINE N == Len(sf_)
           Past(n) == \/ n = N
                      \/ Len(kept[n]) >= room
                      \/ sf_[n + 1][1] < 0 \/ sf_[n + 1][2] < 0 \/ sf_[n + 1][2] > maxseen + 1
           S == {n \in 0 .. N : Past(n)}
<1>1. N \in Nat /\ N \in S /\ S \subseteq Nat
  OBVIOUS
<1>2. PICK v : v = Min(S)
  OBVIOUS
<1>3. v \in S /\ \A y \in S : v <= y
  <2> HIDE DEF S
  <2> QED BY <1>1, <1>2, MinIsLeast
<1>4. v \in 0 .. N /\ Past(v)
  BY <1>3
<1>5. PICK q, k : q = kept[v] /\ k = Len(q)
  OBVIOUS
<1>6. /\ q \in Seq(Int \X Int) /\ k \in Nat /\ k <= v
      /\ \A j \in 1 .. k : \E i \in 1 .. v : q[j] = sf_[i] /\ ~ Covers(recent, sf_[i])
      /\ Distinct(sf_) => Distinct(q)
      /\ \A i \in 1 .. v : ~ Covers(recent, sf_[i]) => Reports(q, sf_[i])
  <2>1. PickedFrom(kept[v], v, recent)
    BY <1>0, <1>4, UncoveredFacts
  <2> QED BY <1>4, <1>5, <2>1 DEF PickedFrom
<1>7. k <= room
  <2>1. CASE v = 0
    BY <1>6, <2>1
  <2>2. CASE v # 0
    <3>1. v - 1 \in 0 .. N /\ v - 1 # N /\ v \in 1 .. N
      BY <1>1, <1>4, <2>2
    <3>2. v - 1 \notin S
      <4>1. ~ (v <= v - 1)
        BY <1>4
      <4> HIDE DEF S
      <4> QED BY <1>3, <4>1
    <3>3. ~ (Len(kept[v - 1]) >= room)
      BY <3>1, <3>2
    <3>4. kept[v - 1] \in Seq(Int \X Int)
      BY <1>0, <3>1, UncoveredFacts DEF PickedFrom
    <3>5. kept[v] = IF Covers(recent, sf_[v]) THEN kept[v - 1] ELSE Append(kept[v - 1], sf_[v])
      BY <1>0, <3>1, UncoveredRecursion
    <3>6. sf_[v] \in Int \X Int
      BY <3>1
    <3>7. Len(kept[v]) <= Len(kept[v - 1]) + 1
      BY <3>4, <3>5, <3>6
    <3> QED BY <1>5, <1>6, <3>3, <3>4, <3>7
  <2> QED BY <2>1, <2>2
<1>8. PICK rest : rest = SubSeq(sf_, v + 1, N)
  OBVIOUS
<1>9. /\ rest \in Seq(Int \X Int) /\ Len(rest) = N - v
      /\ \A j \in 1 .. N - v : rest[j] = sf_[v + j]
  BY <1>1, <1>4, <1>8
<1>10. PICK stack : stack = q \o rest
  OBVIOUS
<1>11. /\ stack \in Seq(Int \X Int) /\ Len(stack) = k + (N - v)
       /\ \A j \in 1 .. k : stack[j] = q[j]
       /\ \A j \in k + 1 .. k + (N - v) : stack[j] = rest[j - k]
  <2>1. N - v \in Nat
    BY <1>1, <1>4
  <2>2. PICK l : l = N - v
    OBVIOUS
  <2>3. Len(q) = k /\ Len(rest) = l /\ l \in Nat
    BY <1>5, <1>9, <2>1, <2>2
  <2>4. stack \in Seq(Int \X Int) /\ Len(stack) = k + l
    BY <1>6, <1>9, <1>10, <2>3, Concatenation
  <2>5. \A j \in 1 .. k : stack[j] = q[j]
    BY <1>6, <1>9, <1>10, <2>3, Concatenation
  <2>6. \A j \in k + 1 .. k + l : stack[j] = rest[j - k]
    <3>1. q \in Seq(Int \X Int) /\ rest \in Seq(Int \X Int)
      BY <1>6, <1>9
    <3>2. \A j \in Len(q) + 1 .. Len(q) + Len(rest) : (q \o rest)[j] = rest[j - Len(q)]
      BY <3>1, Concatenation
    <3> QED BY <1>10, <2>3, <3>2
  <2> QED BY <2>2, <2>4, <2>5, <2>6
<1>12. w.blocks = q /\ w.stack = stack
  <2>1. w = [blocks |-> kept[v], stack |-> kept[v] \o SubSeq(sf_, v + 1, N)]
    BY <1>0, <1>2 DEF Walk
  <2>2. kept[v] \o SubSeq(sf_, v + 1, N) = stack
    BY <1>5, <1>8, <1>10
  <2>3. w = [blocks |-> q, stack |-> stack]
    BY <1>5, <2>1, <2>2
  <2> QED BY <2>3
<1>13. ASSUME NEW j \in 1 .. Len(stack) PROVE \E i \in 1 .. N : stack[j] = sf_[i]
  <2>1. CASE j <= k
    <3>1. PICK i \in 1 .. v : q[j] = sf_[i]
      BY <1>6, <1>13, <2>1
    <3>2. i \in 1 .. N /\ j \in 1 .. k
      BY <1>1, <1>4, <1>6, <1>11, <1>13, <2>1
    <3> QED BY <1>11, <3>1, <3>2
  <2>2. CASE j > k
    <3>1. j \in k + 1 .. k + (N - v) /\ j - k \in 1 .. N - v /\ v + (j - k) \in 1 .. N
      BY <1>1, <1>4, <1>6, <1>11, <2>2
    <3>2. stack[j] = sf_[v + (j - k)]
      BY <1>9, <1>11, <3>1
    <3> QED BY <3>1, <3>2
  <2> QED BY <1>6, <1>11, <2>1, <2>2
<1>14. ASSUME \A i \in 1 .. N : InWindow(sf_[i], maxseen)
       PROVE  \/ /\ stack = q
                 /\ \A i \in 1 .. N : ~ Covers(recent, sf_[i]) => Reports(q, sf_[i])
              \/ k = room /\ room < N
  <2>1. CASE v = N
    <3>1. rest = <<>>
      BY <1>9, <2>1
    <3>2. stack = q
      BY <1>6, <1>10, <3>1
    <3> QED BY <1>6, <2>1, <3>2
  <2>2. CASE v # N
    <3>1. v + 1 \in 1 .. N
      BY <1>1, <1>4, <2>2
    <3>2. sf_[v + 1] \in Int \X Int
      BY <3>1
    <3>3. k >= room
      <4>1. InWindow(sf_[v + 1], maxseen)
        BY <1>14, <3>1
      <4>2. ~ (sf_[v + 1][1] < 0 \/ sf_[v + 1][2] < 0 \/ sf_[v + 1][2] > maxseen + 1)
        BY <3>2, <4>1 DEF InWindow
      <4>3. Len(kept[v]) >= room
        BY <1>4, <2>2, <4>2
      <4> QED BY <1>5, <4>3
    <3>4. v < N
      BY <1>1, <1>4, <2>2
    <3>5. k = room /\ room < N
      BY <1>1, <1>4, <1>6, <1>7, <3>3, <3>4
    <3> QED BY <3>5
  <2> QED BY <2>1, <2>2
<1>15. \A j \in 1 .. k : \E i \in 1 .. N : q[j] = sf_[i] /\ ~ Covers(recent, sf_[i])
  <2>1. 1 .. v \subseteq 1 .. N
    BY <1>1, <1>4
  <2> QED BY <1>6, <2>1
<1>16. Len(stack) <= N /\ k <= Len(stack)
  BY <1>1, <1>4, <1>6, <1>11
<1>17. Len(q) = k /\ \A j \in 1 .. k : stack[j] = q[j]
  BY <1>5, <1>11
<1> HIDE DEF Past, S
<1> QED
  BY <1>6, <1>7, <1>11, <1>12, <1>13, <1>14, <1>15, <1>16, <1>17 DEF Walked

(* The most recent block goes on top, and the history keeps its size.        *)
OnTop(p, recent, stack) ==
  /\ p \in Seq(Int \X Int)
  /\ Len(p) = IF Len(stack) + 1 <= base_nblocks_ THEN Len(stack) + 1 ELSE base_nblocks_
  /\ p[1] = recent
  /\ \A j \in 2 .. Len(p) : p[j] = stack[j - 1]

LEMMA PushedFacts ==
  ASSUME NEW recent \in Int \X Int, NEW stack \in Seq(Int \X Int), base_nblocks_ \in Nat \ {0},
         NEW p, p = Pushed(recent, stack)
  PROVE  OnTop(p, recent, stack)
<1>1. PICK all : all = <<recent>> \o stack
  OBVIOUS
<1>2. /\ all \in Seq(Int \X Int) /\ Len(all) = Len(stack) + 1 /\ Len(stack) \in Nat
      /\ all[1] = recent /\ \A j \in 2 .. Len(all) : all[j] = stack[j - 1]
  BY <1>1
<1>3. PICK m : m = Min({Len(all), base_nblocks_})
  OBVIOUS
<1>4. m = IF Len(stack) + 1 <= base_nblocks_ THEN Len(stack) + 1 ELSE base_nblocks_
  <2>1. {Len(all), base_nblocks_} \subseteq Nat
    BY <1>2
  <2>2. m \in {Len(all), base_nblocks_} /\ m <= Len(all) /\ m <= base_nblocks_
    BY <1>3, <2>1, MinIsLeast
  <2> QED BY <1>2, <2>2
<1>5. p = SubSeq(all, 1, m)
  BY <1>1, <1>3 DEF Pushed
<1>6. m \in 1 .. Len(all)
  BY <1>2, <1>4
<1>7. p \in Seq(Int \X Int) /\ Len(p) = m /\ \A j \in 1 .. m : p[j] = all[j]
  BY <1>2, <1>5, <1>6
<1>8. p[1] = recent
  BY <1>2, <1>6, <1>7
<1>9. \A j \in 2 .. m : p[j] = stack[j - 1]
  BY <1>2, <1>6, <1>7
<1>10. p \in Seq(Int \X Int) /\ Len(p) = m
  BY <1>7
<1> QED BY <1>4, <1>8, <1>9, <1>10 DEF OnTop

-------------------------------------------------------------------------------
(* What a segment does to the runs.                                          *)

(* The first missing segment is one number.                                  *)
LEMMA FirstMissing ==
  ASSUME NEW R, NEW m \in Nat, NEW n \in Nat,
         m \notin R, 0 .. m - 1 \subseteq R, n \notin R, 0 .. n - 1 \subseteq R
  PROVE  m = n
<1>1. m < n => m \in 0 .. n - 1
  OBVIOUS
<1>2. n < m => n \in 0 .. m - 1
  OBVIOUS
<1> QED BY <1>1, <1>2

(* A segment that had been received changes no run.                          *)
LEMMA DuplicateKeepsRuns ==
  ASSUME AckerInv, AckerInv', Received' = Received, NEW b, HeldRun(b)
  PROVE  next_' = next_ /\ HeldRun(b)'
<1>1. next_ \in Nat /\ next_ \notin Received /\ 0 .. next_ - 1 \subseteq Received
  BY ReceivedFacts
<1>2. next_' \in Nat /\ next_' \notin Received /\ 0 .. next_' - 1 \subseteq Received
  BY ReceivedFactsNext
<1>3. next_' = next_
  BY <1>1, <1>2, FirstMissing
<1> QED BY <1>3 DEF HeldRun

(* A run that the recent block does not cover is not touched by the segment  *)
(* that the block is about.                                                  *)
LEMMA UncoveredRunsStay ==
  ASSUME AckerInv, AckerInv', NEW seq \in Nat, Received' = Received \union {seq},
         seq < next_' => next_' <= maxseen_' /\ \A i \in seq .. next_' - 1 : Seen(i)',
         NEW recent, recent = RecentBlock(seq)',
         NEW b, HeldRun(b), ~ Covers(recent, b)
  PROVE  HeldRun(b)'
<1>1. /\ next_ \in Nat /\ next_ \notin Received /\ 0 .. next_ - 1 \subseteq Received
      /\ Received \subseteq Int
  BY ReceivedFacts
<1>2. PICK n, R : n = next_' /\ R = Received'
  OBVIOUS
<1>3. /\ n \in Nat /\ n \notin R /\ 0 .. n - 1 \subseteq R /\ R = Received \union {seq}
  BY <1>2, ReceivedFactsNext
<1>4. /\ b \in Int \X Int /\ b[1] \in Int /\ b[2] \in Int
      /\ next_ < b[1] /\ b[1] < b[2]
      /\ \A s \in b[1] .. b[2] - 1 : s \in R
      /\ b[1] - 1 \notin Received /\ b[2] \notin Received
  BY <1>3 DEF HeldRun
<1>5. n < b[1] /\ b[1] - 1 # seq /\ b[2] # seq
  <2>1. CASE seq < n
    <3>1. recent[1] = 0 /\ recent[2] = n
      BY <1>2, <2>1, RecentBlockBelowNext
    <3>2. ~ (n >= b[2])
      BY <1>1, <1>4, <3>1 DEF Covers
    <3>3. n \notin b[1] .. b[2] - 1
      BY <1>3, <1>4
    <3> QED BY <1>3, <1>4, <2>1, <3>2, <3>3
  <2>2. CASE seq > n
    <3>1. HeldRun(recent)' /\ seq \in Segments(recent)
      <4>1. seq \in Received' /\ seq > next_'
        BY <1>2, <1>3, <2>2
      <4> QED BY <4>1, RecentBlockIsRunNext DEF Segments
    <3>2. /\ recent[1] \in Int /\ recent[2] \in Int
          /\ recent[1] <= seq /\ seq < recent[2]
          /\ recent[1] - 1 \notin R /\ recent[2] \notin R
      BY <1>2, <3>1 DEF HeldRun, Segments
    <3>3. n = next_
      <4>1. n \notin Received /\ 0 .. n - 1 \subseteq Received
        BY <1>3, <2>2
      <4> QED BY <1>1, <1>3, <4>1, FirstMissing
    <3>4. b[1] - 1 # seq
      <4>1. SUFFICES ASSUME b[1] - 1 = seq PROVE FALSE
        OBVIOUS
      <4>2. recent[2] \notin b[1] .. b[2] - 1
        BY <1>4, <3>2
      <4>3. recent[1] <= b[1] /\ recent[2] >= b[2]
        BY <1>4, <3>2, <4>1, <4>2
      <4> QED BY <4>3 DEF Covers
    <3>5. b[2] # seq
      <4>1. SUFFICES ASSUME b[2] = seq PROVE FALSE
        OBVIOUS
      <4>2. recent[1] - 1 \notin b[1] .. b[2] - 1
        BY <1>4, <3>2
      <4>3. recent[1] <= b[1] /\ recent[2] >= b[2]
        BY <1>4, <3>2, <4>1, <4>2
      <4> QED BY <4>3 DEF Covers
    <3> QED BY <1>4, <3>3, <3>4, <3>5
  <2>3. seq # n
    BY <1>3
  <2> QED BY <1>3, <2>1, <2>2, <2>3
<1>6. b[1] - 1 \notin R /\ b[2] \notin R
  BY <1>3, <1>4, <1>5
<1> QED BY <1>2, <1>4, <1>5, <1>6 DEF HeldRun

-------------------------------------------------------------------------------
(* append_ack.                                                               *)

(* The facts about the sink's own variables that append_ack relies on.       *)
HistoryFits ==
  /\ base_nblocks_ \in Nat \ {0}
  /\ sf_ \in Seq(Int \X Int) /\ Len(sf_) <= base_nblocks_

(* The history is the recorded runs: each is still one.                      *)
HistoryIsHeld == \A i \in 1 .. Len(sf_) : HeldRun(sf_[i])

(* A DSACK is at most one block, and only for a duplicate.                   *)
LEMMA DsackFacts ==
  ASSUME NEW seq \in Int
  PROVE  /\ Dsack(seq) \in Seq(Int \X Int) /\ Len(Dsack(seq)) \in {0, 1}
         /\ Len(Dsack(seq)) = 1 => Dsack(seq) # <<>> /\ sinkConf.generate_dsacks_ /\ is_dup_'
<1>1. <<seq, seq + 1>> \in Int \X Int
  OBVIOUS
<1>2. <<<<seq, seq + 1>>>> \in Seq(Int \X Int) /\ Len(<<<<seq, seq + 1>>>>) = 1
  BY <1>1
<1>3. CASE sinkConf.generate_dsacks_ /\ is_dup_'
  <2>1. Dsack(seq) = <<<<seq, seq + 1>>>>
    BY <1>3 DEF Dsack
  <2> QED BY <1>2, <1>3, <2>1
<1>4. CASE ~ (sinkConf.generate_dsacks_ /\ is_dup_')
  <2>1. Dsack(seq) = <<>>
    BY <1>4, Zenon DEF Dsack
  <2> QED BY <2>1
<1> QED BY <1>3, <1>4

(* For a segment at or below the cumulative ACK, append_ack forgets the      *)
(* history, has nothing to do or no room, or walks down the history.         *)
LEMMA AppendedBelow ==
  ASSUME AckerInv', HistoryFits, NEW seq \in Nat, seq < next_',
         NEW sack, sack = Appended(seq), NEW d, d = Dsack(seq)
  PROVE  \/ /\ sack.blocks = <<>> /\ sack.dsack \in {d, <<>>}
            /\ \/ sack.stack = <<>> /\ next_' > maxseen_'
               \/ sack.stack = sf_ /\ d # <<>>
         \/ \E w : /\ w = Walk(RecentBlock(seq)', base_nblocks_ - Len(d), maxseen_')
                   /\ next_' <= maxseen_' \/ sf_ = <<>>
                   /\ Len(d) < base_nblocks_
                   /\ sack = [dsack |-> d, blocks |-> w.blocks, stack |-> w.stack]
<1>1. PICK n, M, recent, w :
        /\ n = next_' /\ M = maxseen_' /\ recent = RecentBlock(seq)'
        /\ w = Walk(recent, base_nblocks_ - Len(d), M)
  OBVIOUS
<1>2. n \in Nat /\ M \in Nat /\ seq <= n - 1
  BY <1>1, ReceivedFactsNext
<1>3. Seqno' = n - 1
  BY <1>1 DEF Seqno
<1>4. Len(d) \in {0, 1} /\ d \in Seq(Int \X Int)
  BY DsackFacts
<1>5. w.blocks \in Seq(Int \X Int)
  <2>0. PICK l : l = Len(d)
    OBVIOUS
  <2>1. PICK room : room = base_nblocks_ - l
    OBVIOUS
  <2>2. room \in Nat /\ M \in Int
    <3>1. l \in {0, 1}
      BY <1>4, <2>0
    <3>2. base_nblocks_ \in Nat /\ base_nblocks_ >= 1
      BY DEF HistoryFits
    <3>3. M \in Int
      BY <1>2
    <3>4. room \in Nat
      BY <2>1, <3>1, <3>2
    <3> QED BY <3>3, <3>4
  <2>3. Walked(w, recent, room, M)
    BY <1>1, <2>0, <2>1, <2>2, WalkFacts DEF HistoryFits
  <2> QED BY <2>3 DEF Walked
<1>6. sack =
        IF n - 1 >= M /\ sf_ # <<>> THEN [dsack |-> <<>>, blocks |-> <<>>, stack |-> <<>>]
        ELSE IF n - 1 >= M /\ ~ is_dup_' THEN [dsack |-> <<>>, blocks |-> <<>>, stack |-> sf_]
        ELSE IF Len(d) >= base_nblocks_ THEN [dsack |-> d, blocks |-> <<>>, stack |-> sf_]
        ELSE [dsack |-> d, blocks |-> w.blocks, stack |-> w.stack]
  <2>1. base_nblocks_ - Len(d) - Len(<<>>) = base_nblocks_ - Len(d)
    BY <1>4 DEF HistoryFits
  <2>2. <<>> \o w.blocks = w.blocks
    BY <1>5
  <2>3. base_nblocks_ - Len(d) - Len(IF seq <= n - 1 THEN <<>> ELSE <<recent>>)
          = base_nblocks_ - Len(d)
    BY <1>2, <2>1
  <2>4. (IF seq <= n - 1 THEN <<>> ELSE <<recent>>) \o w.blocks = w.blocks
    BY <1>2, <2>2
  <2>5. (IF seq <= n - 1 THEN w.stack ELSE Pushed(recent, w.stack)) = w.stack
    BY <1>2
  <2>6. [[dsack |-> <<>>, blocks |-> <<>>, stack |-> sf_] EXCEPT !.stack = <<>>]
          = [dsack |-> <<>>, blocks |-> <<>>, stack |-> <<>>]
    OBVIOUS
  <2>7. [[dsack |-> <<>>, blocks |-> <<>>, stack |-> sf_] EXCEPT !.dsack = d]
          = [dsack |-> d, blocks |-> <<>>, stack |-> sf_]
    OBVIOUS
  <2> QED BY <1>1, <1>3, <2>3, <2>4, <2>5, <2>6, <2>7 DEF Appended
<1>7. CASE n - 1 >= M /\ (sf_ = <<>> => ~ is_dup_')
  <2>1. sack = [dsack |-> <<>>, blocks |-> <<>>, stack |-> <<>>]
    BY <1>6, <1>7, Zenon
  <2>2. n > M
    BY <1>2, <1>7
  <2> QED BY <1>1, <2>1, <2>2
<1>8. CASE Len(d) >= base_nblocks_ /\ (n - 1 >= M => sf_ = <<>> /\ is_dup_')
  <2>1. d # <<>>
    BY <1>4, <1>8 DEF HistoryFits
  <2>2. sack = [dsack |-> d, blocks |-> <<>>, stack |-> sf_]
    BY <1>6, <1>8, Zenon
  <2> QED BY <2>1, <2>2
<1>9. CASE ~ (Len(d) >= base_nblocks_) /\ (n - 1 >= M => sf_ = <<>> /\ is_dup_')
  <2>1. sack = [dsack |-> d, blocks |-> w.blocks, stack |-> w.stack]
    BY <1>6, <1>9, Zenon
  <2>2. Len(d) < base_nblocks_ /\ (n <= M \/ sf_ = <<>>)
    BY <1>2, <1>4, <1>9 DEF HistoryFits
  <2> QED BY <1>1, <2>1, <2>2
<1> QED BY <1>7, <1>8, <1>9, Zenon

(* For a segment above the cumulative ACK, a DSACK may leave no room;        *)
(* otherwise the recent block comes first and goes on top of the history.    *)
LEMMA AppendedAbove ==
  ASSUME AckerInv', HistoryFits, NEW seq \in Received', seq > next_',
         NEW sack, sack = Appended(seq), NEW d, d = Dsack(seq),
         NEW recent, recent = RecentBlock(seq)'
  PROVE  \/ base_nblocks_ = 1 /\ d # <<>> /\ sack = [dsack |-> d, blocks |-> <<>>, stack |-> sf_]
         \/ \E w : /\ w = Walk(recent, base_nblocks_ - Len(d) - 1, maxseen_')
                   /\ Len(d) < base_nblocks_
                   /\ sack = [dsack |-> d, blocks |-> <<recent>> \o w.blocks,
                              stack |-> Pushed(recent, w.stack)]
<1>1. PICK n, M, w :
        /\ n = next_' /\ M = maxseen_' /\ w = Walk(recent, base_nblocks_ - Len(d) - 1, M)
  OBVIOUS
<1>2. n \in Nat /\ M \in Nat /\ seq \in Nat /\ seq <= M /\ ~ (n - 1 >= M) /\ ~ (seq <= n - 1)
  <2>1. n \in Nat /\ M \in Nat /\ seq \in 0 .. M /\ seq > n
    BY <1>1, ReceivedFactsNext
  <2> QED BY <2>1
<1>3. Seqno' = n - 1
  BY <1>1 DEF Seqno
<1>4. Len(d) \in {0, 1} /\ d \in Seq(Int \X Int) /\ (Len(d) = 1 => d # <<>>)
  BY <1>2, DsackFacts
<1>5. sack =
        IF Len(d) >= base_nblocks_ THEN [dsack |-> d, blocks |-> <<>>, stack |-> sf_]
        ELSE [dsack |-> d, blocks |-> <<recent>> \o w.blocks,
              stack |-> Pushed(recent, w.stack)]
  <2>1. base_nblocks_ - Len(d) - Len(<<recent>>) = base_nblocks_ - Len(d) - 1
    OBVIOUS
  <2>2. (IF seq <= n - 1 THEN <<>> ELSE <<recent>>) = <<recent>>
    BY <1>2
  <2>3. (IF seq <= n - 1 THEN w.stack ELSE Pushed(recent, w.stack)) = Pushed(recent, w.stack)
    BY <1>2
  <2>4. [[dsack |-> <<>>, blocks |-> <<>>, stack |-> sf_] EXCEPT !.dsack = d]
          = [dsack |-> d, blocks |-> <<>>, stack |-> sf_]
    OBVIOUS
  <2> QED BY <1>1, <1>2, <1>3, <2>1, <2>2, <2>3, <2>4 DEF Appended
<1>6. CASE Len(d) >= base_nblocks_
  <2>1. base_nblocks_ = 1 /\ d # <<>>
    <3>1. base_nblocks_ \in Nat /\ base_nblocks_ >= 1
      BY DEF HistoryFits
    <3>2. PICK l : l = Len(d)
      OBVIOUS
    <3>3. base_nblocks_ = 1 /\ l = 1
      BY <1>4, <1>6, <3>1, <3>2
    <3> QED BY <1>4, <3>2, <3>3
  <2> QED BY <1>5, <1>6, <2>1
<1>7. CASE ~ (Len(d) >= base_nblocks_)
  <2>1. Len(d) < base_nblocks_
    <3>1. base_nblocks_ \in Nat
      BY DEF HistoryFits
    <3> QED BY <1>4, <1>7, <3>1
  <2>2. sack = [dsack |-> d, blocks |-> <<recent>> \o w.blocks,
                stack |-> Pushed(recent, w.stack)]
    BY <1>5, <1>7, Zenon
  <2> QED BY <1>1, <2>1, <2>2
<1> QED BY <1>6, <1>7

(* What append_ack writes is well formed, the history keeps its size, and    *)
(* nothing enters it but the run around the segment, which is also the first *)
(* block when there is room for it.                                          *)
LEMMA AppendedFacts ==
  ASSUME AckerInv', HistoryFits, NEW seq \in Received', NEW sack, sack = Appended(seq)
  PROVE  /\ sack.dsack \in Seq(Int \X Int) /\ sack.blocks \in Seq(Int \X Int)
         /\ sack.stack \in Seq(Int \X Int) /\ Len(sack.stack) <= base_nblocks_
         /\ \A j \in 1 .. Len(sack.stack) :
              (\E i \in 1 .. Len(sf_) : sack.stack[j] = sf_[i]) \/ HeldRun(sack.stack[j])'
         /\ seq > next_' =>
              \/ sack.blocks # <<>> /\ seq \in Segments(sack.blocks[1])
              \/ sack.dsack # <<>> /\ base_nblocks_ = 1
<1>1. PICK d, recent, nb, len :
        /\ d = Dsack(seq) /\ recent = RecentBlock(seq)' /\ nb = base_nblocks_ /\ len = Len(d)
  OBVIOUS
<1>2. /\ nb \in Nat /\ nb >= 1 /\ sf_ \in Seq(Int \X Int) /\ Len(sf_) <= nb
  BY <1>1 DEF HistoryFits
<1>3. seq \in Nat /\ next_' \in Nat /\ maxseen_' \in Int /\ seq # next_'
  BY ReceivedFactsNext
<1>4. d \in Seq(Int \X Int) /\ len \in {0, 1}
  <2>1. seq \in Int
    BY <1>3
  <2>2. Dsack(seq) \in Seq(Int \X Int) /\ Len(Dsack(seq)) \in {0, 1}
    BY <2>1, DsackFacts
  <2> QED BY <1>1, <2>2
<1>5. <<>> \in Seq(Int \X Int) /\ Len(<<>>) = 0
  OBVIOUS
<1>6. CASE seq < next_'
  <2>1. ASSUME /\ sack.blocks = <<>> /\ sack.dsack \in {d, <<>>}
               /\ sack.stack = <<>> \/ sack.stack = sf_
        PROVE  /\ sack.dsack \in Seq(Int \X Int) /\ sack.blocks \in Seq(Int \X Int)
               /\ sack.stack \in Seq(Int \X Int) /\ Len(sack.stack) <= nb
               /\ \A j \in 1 .. Len(sack.stack) : \E i \in 1 .. Len(sf_) : sack.stack[j] = sf_[i]
    <3>1. sack.dsack \in Seq(Int \X Int) /\ sack.blocks \in Seq(Int \X Int)
      BY <1>4, <1>5, <2>1
    <3>2. CASE sack.stack = <<>>
      BY <1>2, <1>5, <3>1, <3>2
    <3>3. CASE sack.stack = sf_
      BY <1>2, <3>1, <3>3
    <3> QED BY <2>1, <3>2, <3>3
  <2>2. ASSUME NEW w,
               w = Walk(recent, nb - len, maxseen_'), len < nb,
               sack = [dsack |-> d, blocks |-> w.blocks, stack |-> w.stack]
        PROVE  /\ sack.dsack \in Seq(Int \X Int) /\ sack.blocks \in Seq(Int \X Int)
               /\ sack.stack \in Seq(Int \X Int) /\ Len(sack.stack) <= nb
               /\ \A j \in 1 .. Len(sack.stack) : \E i \in 1 .. Len(sf_) : sack.stack[j] = sf_[i]
    <3>1. PICK room : room = nb - len
      OBVIOUS
    <3>2. room \in Nat
      BY <1>2, <1>4, <2>2, <3>1
    <3>3. /\ w.blocks \in Seq(Int \X Int) /\ w.stack \in Seq(Int \X Int)
          /\ Len(w.stack) <= Len(sf_)
          /\ \A j \in 1 .. Len(w.stack) : \E i \in 1 .. Len(sf_) : w.stack[j] = sf_[i]
      <4>1. Walked(w, recent, room, maxseen_')
        BY <1>2, <1>3, <2>2, <3>1, <3>2, WalkFacts
      <4> QED BY <4>1 DEF Walked
    <3>4. sack.dsack = d /\ sack.blocks = w.blocks /\ sack.stack = w.stack
      BY <2>2
    <3>5. Len(w.stack) <= nb
      BY <1>2, <3>3
    <3> QED BY <1>4, <3>3, <3>4, <3>5
  <2>3. ~ (seq > next_')
    BY <1>3, <1>6
  <2>4. \/ /\ sack.blocks = <<>> /\ sack.dsack \in {d, <<>>}
           /\ sack.stack = <<>> \/ sack.stack = sf_
        \/ \E w : /\ w = Walk(recent, nb - len, maxseen_') /\ len < nb
                  /\ sack = [dsack |-> d, blocks |-> w.blocks, stack |-> w.stack]
    <3>1. seq \in Nat
      BY <1>3
    <3> QED BY <1>1, <1>6, <3>1, AppendedBelow
  <2>5. /\ sack.dsack \in Seq(Int \X Int) /\ sack.blocks \in Seq(Int \X Int)
        /\ sack.stack \in Seq(Int \X Int) /\ Len(sack.stack) <= nb
        /\ \A j \in 1 .. Len(sack.stack) : \E i \in 1 .. Len(sf_) : sack.stack[j] = sf_[i]
    BY <2>1, <2>2, <2>4, Zenon
  <2> QED BY <1>1, <2>3, <2>5, Zenon
<1>7. CASE seq > next_'
  <2>1. HeldRun(recent)' /\ seq \in Segments(recent)
    <3>1. HeldRun(RecentBlock(seq))' /\ (seq \in Segments(RecentBlock(seq)))'
      BY <1>7, RecentBlockIsRunNext
    <3> QED BY <1>1, <3>1 DEF Segments, HeldRun
  <2>2. recent \in Int \X Int
    BY <2>1 DEF HeldRun
  <2>3. CASE nb = 1 /\ d # <<>> /\ sack = [dsack |-> d, blocks |-> <<>>, stack |-> sf_]
    <3>1. sack.dsack = d /\ sack.blocks = <<>> /\ sack.stack = sf_
      BY <2>3
    <3>2. \A j \in 1 .. Len(sack.stack) : \E i \in 1 .. Len(sf_) : sack.stack[j] = sf_[i]
      BY <3>1
    <3>3. /\ sack.dsack \in Seq(Int \X Int) /\ sack.blocks \in Seq(Int \X Int)
          /\ sack.stack \in Seq(Int \X Int) /\ Len(sack.stack) <= base_nblocks_
      BY <1>1, <1>2, <1>4, <1>5, <3>1
    <3>4. sack.dsack # <<>> /\ base_nblocks_ = 1
      BY <1>1, <2>3, <3>1
    <3> QED BY <3>2, <3>3, <3>4, Zenon
  <2>4. ASSUME NEW w,
               w = Walk(recent, nb - len - 1, maxseen_'), len < nb,
               sack = [dsack |-> d, blocks |-> <<recent>> \o w.blocks,
                       stack |-> Pushed(recent, w.stack)]
        PROVE  /\ sack.dsack \in Seq(Int \X Int) /\ sack.blocks \in Seq(Int \X Int)
               /\ sack.stack \in Seq(Int \X Int) /\ Len(sack.stack) <= nb
               /\ \A j \in 1 .. Len(sack.stack) :
                    (\E i \in 1 .. Len(sf_) : sack.stack[j] = sf_[i]) \/ sack.stack[j] = recent
               /\ sack.blocks # <<>> /\ seq \in Segments(sack.blocks[1])
    <3>1. PICK room : room = nb - len - 1
      OBVIOUS
    <3>2. room \in Nat
      BY <1>2, <1>4, <2>4, <3>1
    <3>3. /\ w.blocks \in Seq(Int \X Int) /\ w.stack \in Seq(Int \X Int)
          /\ \A j \in 1 .. Len(w.stack) : \E i \in 1 .. Len(sf_) : w.stack[j] = sf_[i]
      <4>1. Walked(w, recent, room, maxseen_')
        BY <1>2, <1>3, <2>4, <3>1, <3>2, WalkFacts
      <4> QED BY <4>1 DEF Walked
    <3>4. PICK p, b : p = Pushed(recent, w.stack) /\ b = <<recent>> \o w.blocks
      OBVIOUS
    <3>5. /\ p \in Seq(Int \X Int)
          /\ Len(p) = IF Len(w.stack) + 1 <= nb THEN Len(w.stack) + 1 ELSE nb
          /\ p[1] = recent
          /\ \A j \in 2 .. Len(p) : p[j] = w.stack[j - 1]
      <4>1. base_nblocks_ \in Nat \ {0}
        BY DEF HistoryFits
      <4>2. OnTop(p, recent, w.stack)
        BY <2>2, <3>3, <3>4, <4>1, PushedFacts
      <4> QED BY <1>1, <4>2 DEF OnTop
    <3>6. Len(p) <= nb /\ Len(p) <= Len(w.stack) + 1
      BY <1>2, <3>3, <3>5
    <3>7. ASSUME NEW j \in 1 .. Len(p)
          PROVE  (\E i \in 1 .. Len(sf_) : p[j] = sf_[i]) \/ p[j] = recent
      <4>1. CASE j = 1
        BY <3>5, <4>1
      <4>2. CASE j # 1
        <5>1. j \in 2 .. Len(p) /\ j - 1 \in 1 .. Len(w.stack)
          BY <3>3, <3>5, <3>6, <3>7, <4>2
        <5> QED BY <3>3, <3>5, <5>1
      <4> QED BY <4>1, <4>2
    <3>8. b \in Seq(Int \X Int) /\ b # <<>> /\ b[1] = recent
      BY <2>2, <3>3, <3>4
    <3>9. sack.dsack = d /\ sack.blocks = b /\ sack.stack = p
      BY <2>4, <3>4
    <3> QED BY <1>4, <2>1, <3>5, <3>6, <3>7, <3>8, <3>9
  <2>5. \/ nb = 1 /\ d # <<>> /\ sack = [dsack |-> d, blocks |-> <<>>, stack |-> sf_]
        \/ \E w : /\ w = Walk(recent, nb - len - 1, maxseen_') /\ len < nb
                  /\ sack = [dsack |-> d, blocks |-> <<recent>> \o w.blocks,
                             stack |-> Pushed(recent, w.stack)]
    BY <1>1, <1>7, AppendedAbove
  <2>6. ASSUME NEW w,
               w = Walk(recent, nb - len - 1, maxseen_'), len < nb,
               sack = [dsack |-> d, blocks |-> <<recent>> \o w.blocks,
                       stack |-> Pushed(recent, w.stack)]
        PROVE  /\ sack.dsack \in Seq(Int \X Int) /\ sack.blocks \in Seq(Int \X Int)
               /\ sack.stack \in Seq(Int \X Int) /\ Len(sack.stack) <= base_nblocks_
               /\ \A j \in 1 .. Len(sack.stack) :
                    (\E i \in 1 .. Len(sf_) : sack.stack[j] = sf_[i]) \/ HeldRun(sack.stack[j])'
               /\ sack.blocks # <<>> /\ seq \in Segments(sack.blocks[1])
    <3>1. /\ sack.dsack \in Seq(Int \X Int) /\ sack.blocks \in Seq(Int \X Int)
          /\ sack.stack \in Seq(Int \X Int) /\ Len(sack.stack) <= nb
          /\ \A j \in 1 .. Len(sack.stack) :
               (\E i \in 1 .. Len(sf_) : sack.stack[j] = sf_[i]) \/ sack.stack[j] = recent
          /\ sack.blocks # <<>> /\ seq \in Segments(sack.blocks[1])
      BY <2>4, <2>6, Zenon
    <3>2. ASSUME NEW x, x = recent PROVE HeldRun(x)'
      BY <2>1, <3>2
    <3> QED BY <1>1, <3>1, <3>2, Zenon
  <2> QED BY <2>3, <2>5, <2>6, Zenon
<1> QED BY <1>3, <1>6, <1>7

(* What an ACK without a DSACK reports: the block around the segment, and    *)
(* blocks of the history that this one does not cover.                       *)
ReportedBlocks(blocks, seq, recent) ==
  /\ blocks \in Seq(Int \X Int)
  /\ \A j \in 1 .. Len(blocks) :
       \/ seq > next_' /\ blocks[j] = recent
       \/ \E i \in 1 .. Len(sf_) :
            /\ blocks[j] = sf_[i] /\ ~ Covers(recent, sf_[i])
            /\ seq < next_' => next_' <= maxseen_'
  /\ Distinct(sf_) => Distinct(blocks)

(* What it reports is the block around a segment above the cumulative ACK    *)
(* and, while something is missing, every block of the history that this one *)
(* does not cover, unless the ACK is full.                                   *)
ReportsUncovered(blocks, seq, recent) ==
  /\ seq > next_' => Reports(blocks, recent)
  /\ next_' <= maxseen_' =>
       \/ \A i \in 1 .. Len(sf_) : ~ Covers(recent, sf_[i]) => Reports(blocks, sf_[i])
       \/ seq > next_' /\ Len(blocks) = base_nblocks_

(* When there is no DSACK and no block of the history is out of the window,  *)
(* the walk ends early only when the ACK is full, and what it has not        *)
(* visited falls off: the history is what the ACK reports.                   *)
LEMMA AppendedFull ==
  ASSUME AckerInv', HistoryFits, NEW seq \in Received', NEW sack, sack = Appended(seq),
         Dsack(seq) = <<>>, \A i \in 1 .. Len(sf_) : InWindow(sf_[i], maxseen_'),
         NEW recent, recent = RecentBlock(seq)'
  PROVE  /\ ReportedBlocks(sack.blocks, seq, recent) /\ sack.stack = sack.blocks
         /\ ReportsUncovered(sack.blocks, seq, recent)
<1>1. PICK nb, N : nb = base_nblocks_ /\ N = Len(sf_)
  OBVIOUS
<1>2. nb \in Nat /\ nb >= 1 /\ sf_ \in Seq(Int \X Int) /\ N \in Nat /\ N <= nb
  BY <1>1 DEF HistoryFits
<1>3. seq \in Nat /\ next_' \in Nat /\ maxseen_' \in Int /\ seq # next_'
  BY ReceivedFactsNext
<1>4. PICK d : d = Dsack(seq)
  OBVIOUS
<1>5. d = <<>> /\ Len(d) = 0
  BY <1>4
<1>6. <<>> \in Seq(Int \X Int) /\ Len(<<>>) = 0
  OBVIOUS
<1>7. CASE seq < next_'
  <2>0. ~ (seq > next_')
    BY <1>3, <1>7
  <2>1. CASE sack.blocks = <<>> /\ sack.stack = <<>> /\ next_' > maxseen_'
    <3>1. ~ (next_' <= maxseen_')
      BY <1>3, <2>1
    <3> QED BY <1>6, <2>0, <2>1, <3>1 DEF ReportedBlocks, Distinct, ReportsUncovered
  <2>2. ASSUME NEW w, w = Walk(recent, nb, maxseen_'), next_' <= maxseen_' \/ sf_ = <<>>,
               sack.blocks = w.blocks, sack.stack = w.stack
        PROVE  /\ ReportedBlocks(sack.blocks, seq, recent) /\ sack.stack = sack.blocks
               /\ ReportsUncovered(sack.blocks, seq, recent)
    <3>1. Walked(w, recent, nb, maxseen_')
      BY <1>2, <1>3, <2>2, WalkFacts
    <3>2. /\ w.stack = w.blocks
          /\ \A i \in 1 .. N : ~ Covers(recent, sf_[i]) => Reports(w.blocks, sf_[i])
      BY <1>1, <1>2, <3>1 DEF Walked
    <3>3. N >= 1 => next_' <= maxseen_'
      BY <1>1, <1>6, <2>2
    <3>4. \A i \in 1 .. N : next_' <= maxseen_'
      BY <1>2, <3>3
    <3>5. ReportedBlocks(w.blocks, seq, recent)
      BY <1>1, <3>1, <3>4 DEF Walked, ReportedBlocks
    <3>6. ReportsUncovered(w.blocks, seq, recent)
      BY <1>1, <2>0, <3>2 DEF ReportsUncovered
    <3> QED BY <2>2, <3>2, <3>5, <3>6
  <2>3. nb - Len(d) = nb
    BY <1>2, <1>5
  <2>4. \/ sack.blocks = <<>> /\ sack.stack = <<>> /\ next_' > maxseen_'
        \/ \E w : /\ w = Walk(recent, nb, maxseen_') /\ (next_' <= maxseen_' \/ sf_ = <<>>)
                  /\ sack = [dsack |-> d, blocks |-> w.blocks, stack |-> w.stack]
    BY <1>1, <1>3, <1>4, <1>5, <1>7, <2>3, AppendedBelow
  <2>5. ASSUME NEW w, w = Walk(recent, nb, maxseen_'), next_' <= maxseen_' \/ sf_ = <<>>,
               sack = [dsack |-> d, blocks |-> w.blocks, stack |-> w.stack]
        PROVE  /\ ReportedBlocks(sack.blocks, seq, recent) /\ sack.stack = sack.blocks
               /\ ReportsUncovered(sack.blocks, seq, recent)
    <3>1. sack.blocks = w.blocks /\ sack.stack = w.stack
      BY <2>5
    <3> QED BY <2>2, <2>5, <3>1
  <2> QED BY <2>1, <2>4, <2>5, Zenon
<1>8. CASE seq > next_'
  <2>1. nb - Len(d) - 1 = nb - 1 /\ nb - 1 \in Nat
    BY <1>2, <1>5
  <2>2. PICK w : /\ w = Walk(recent, nb - 1, maxseen_')
                 /\ sack = [dsack |-> d, blocks |-> <<recent>> \o w.blocks,
                            stack |-> Pushed(recent, w.stack)]
    BY <1>1, <1>4, <1>5, <1>8, <2>1, AppendedAbove
  <2>3. Walked(w, recent, nb - 1, maxseen_')
    BY <1>2, <1>3, <2>1, <2>2, WalkFacts
  <2>4. PICK q, k, b, p :
          q = w.blocks /\ k = Len(q) /\ b = <<recent>> \o q /\ p = Pushed(recent, w.stack)
    OBVIOUS
  <2>5. /\ q \in Seq(Int \X Int) /\ k \in Nat /\ k <= nb - 1
        /\ w.stack \in Seq(Int \X Int) /\ k <= Len(w.stack)
        /\ \A j \in 1 .. k : w.stack[j] = q[j]
        /\ \A j \in 1 .. k : \E i \in 1 .. N : q[j] = sf_[i] /\ ~ Covers(recent, sf_[i])
        /\ Distinct(sf_) => Distinct(q)
        /\ \/ /\ w.stack = q
              /\ \A i \in 1 .. N : ~ Covers(recent, sf_[i]) => Reports(q, sf_[i])
           \/ k = nb - 1
    BY <1>1, <2>3, <2>4 DEF Walked
  <2>6. HeldRun(recent)'
    BY <1>8, RecentBlockIsRunNext
  <2>7. recent \in Int \X Int
    BY <2>6 DEF HeldRun
  <2>8. /\ b \in Seq(Int \X Int) /\ Len(b) = k + 1
        /\ b[1] = recent /\ \A j \in 2 .. k + 1 : b[j] = q[j - 1]
    BY <2>4, <2>5, <2>7
  <2>9. /\ p \in Seq(Int \X Int)
        /\ Len(p) = IF Len(w.stack) + 1 <= nb THEN Len(w.stack) + 1 ELSE nb
        /\ p[1] = recent
        /\ \A j \in 2 .. Len(p) : p[j] = w.stack[j - 1]
    <3>1. base_nblocks_ \in Nat \ {0}
      BY DEF HistoryFits
    <3>2. OnTop(p, recent, w.stack)
      BY <2>4, <2>5, <2>7, <3>1, PushedFacts
    <3> QED BY <1>1, <3>2 DEF OnTop
  <2>10. Len(p) = k + 1
    <3>1. CASE w.stack = q
      BY <1>2, <2>4, <2>5, <2>9, <3>1
    <3>2. CASE k = nb - 1
      <4>1. PICK l : l = Len(w.stack)
        OBVIOUS
      <4>2. l \in Nat /\ k <= l
        BY <2>5, <4>1
      <4>3. (IF l + 1 <= nb THEN l + 1 ELSE nb) = k + 1
        BY <1>2, <2>5, <3>2, <4>2
      <4> QED BY <2>9, <4>1, <4>3
    <3> QED BY <2>5, <3>1, <3>2
  <2>11. p = b
    <3>1. ASSUME NEW j \in 1 .. k + 1 PROVE p[j] = b[j]
      <4>1. CASE j = 1
        BY <2>8, <2>9, <4>1
      <4>2. CASE j # 1
        <5>1. j \in 2 .. k + 1 /\ j - 1 \in 1 .. k
          BY <2>5, <4>2
        <5> QED BY <2>5, <2>8, <2>9, <2>10, <5>1
      <4> QED BY <4>1, <4>2
    <3> QED BY <2>8, <2>9, <2>10, <3>1
  <2>12. ASSUME NEW j \in 2 .. k + 1
         PROVE  \E i \in 1 .. N : b[j] = sf_[i] /\ ~ Covers(recent, sf_[i])
    <3>1. j - 1 \in 1 .. k
      BY <2>5
    <3>2. b[j] = q[j - 1]
      BY <2>8
    <3>3. \E i \in 1 .. N : q[j - 1] = sf_[i] /\ ~ Covers(recent, sf_[i])
      BY <2>5, <3>1
    <3> QED BY Zenon, <3>2, <3>3
  <2>13. Covers(recent, recent)
    BY <2>7 DEF Covers
  <2>14. ASSUME Distinct(sf_) PROVE Distinct(b)
    <3>1. ASSUME NEW i \in 1 .. k + 1, NEW j \in 1 .. k + 1, b[i] = b[j] PROVE i = j
      <4>1. CASE i = 1 /\ j = 1
        BY <4>1
      <4>2. CASE i = 1 /\ j # 1
        <5>1. j \in 2 .. k + 1
          BY <2>5, <4>2
        <5> QED BY <2>8, <2>12, <2>13, <3>1, <4>2, <5>1
      <4>3. CASE i # 1 /\ j = 1
        <5>1. i \in 2 .. k + 1
          BY <2>5, <4>3
        <5> QED BY <2>8, <2>12, <2>13, <3>1, <4>3, <5>1
      <4>4. CASE i # 1 /\ j # 1
        <5>1. i \in 2 .. k + 1 /\ j \in 2 .. k + 1 /\ i - 1 \in 1 .. k /\ j - 1 \in 1 .. k
          BY <2>5, <4>4
        <5>2. q[i - 1] = q[j - 1]
          BY <2>8, <3>1, <5>1
        <5>3. i - 1 = j - 1
          BY <2>4, <2>5, <2>14, <5>1, <5>2 DEF Distinct
        <5> QED BY <5>1, <5>3
      <4> QED BY <4>1, <4>2, <4>3, <4>4
    <3> QED BY <2>8, <3>1 DEF Distinct
  <2>15. ASSUME NEW j \in 1 .. k + 1
         PROVE  b[j] = recent \/ \E i \in 1 .. N : b[j] = sf_[i] /\ ~ Covers(recent, sf_[i])
    <3>1. j = 1 \/ j \in 2 .. k + 1
      BY <2>5
    <3> QED BY <2>8, <2>12, <3>1
  <2>16. ~ (seq < next_')
    BY <1>3, <1>8
  <2>17. ReportedBlocks(b, seq, recent)
    BY <1>1, <1>8, <2>8, <2>14, <2>15, <2>16 DEF ReportedBlocks
  <2>18. sack.blocks = b /\ sack.stack = p
    BY <2>2, <2>4
  <2>19. 1 \in 1 .. k + 1
    BY <2>5
  <2>20. Reports(b, recent)
    BY <2>8, <2>19 DEF Reports
  <2>21. ASSUME NEW x, Reports(q, x) PROVE Reports(b, x)
    <3>1. PICK j \in 1 .. k : q[j] = x
      BY <2>4, <2>21 DEF Reports
    <3>2. j + 1 \in 2 .. k + 1 /\ j + 1 \in 1 .. k + 1 /\ (j + 1) - 1 = j
      BY <2>5
    <3>3. b[j + 1] = q[j]
      BY <2>8, <3>2
    <3> QED BY <2>8, <3>1, <3>2, <3>3 DEF Reports
  <2>22. \/ \A i \in 1 .. N : ~ Covers(recent, sf_[i]) => Reports(b, sf_[i])
         \/ Len(b) = nb
    <3>1. k = nb - 1 => k + 1 = nb
      BY <1>2, <2>5
    <3> QED BY <2>5, <2>8, <2>21, <3>1
  <2>23. ReportsUncovered(b, seq, recent)
    BY <1>1, <1>8, <2>20, <2>22 DEF ReportsUncovered
  <2> QED BY <2>11, <2>17, <2>18, <2>23
<1> QED BY <1>3, <1>7, <1>8

(* In every case the blocks are of the history or the one around the segment. *)
LEMMA AppendedBlocks ==
  ASSUME AckerInv', HistoryFits, NEW seq \in Received', NEW sack, sack = Appended(seq),
         NEW recent, recent = RecentBlock(seq)'
  PROVE  \A j \in 1 .. Len(sack.blocks) :
           (\E i \in 1 .. Len(sf_) : sack.blocks[j] = sf_[i])
             \/ (seq > next_' /\ sack.blocks[j] = recent)
<1>1. PICK d, nb, len : d = Dsack(seq) /\ nb = base_nblocks_ /\ len = Len(d)
  OBVIOUS
<1>2. nb \in Nat /\ nb >= 1 /\ sf_ \in Seq(Int \X Int)
  BY <1>1 DEF HistoryFits
<1>3. seq \in Nat /\ next_' \in Nat /\ maxseen_' \in Int /\ seq # next_'
  BY ReceivedFactsNext
<1>4. len \in {0, 1}
  <2>1. seq \in Int
    BY <1>3
  <2> QED BY <1>1, <2>1, DsackFacts
<1>5. 1 .. Len(<<>>) = {}
  OBVIOUS
<1>6. ASSUME NEW w, NEW room \in Nat, w = Walk(recent, room, maxseen_')
      PROVE  /\ w.blocks \in Seq(Int \X Int)
             /\ \A j \in 1 .. Len(w.blocks) : \E i \in 1 .. Len(sf_) : w.blocks[j] = sf_[i]
  <2>1. Walked(w, recent, room, maxseen_')
    BY <1>2, <1>3, <1>6, WalkFacts
  <2> QED BY <2>1 DEF Walked
<1>7. CASE seq < next_'
  <2>1. \/ sack.blocks = <<>>
        \/ \E w : w = Walk(recent, nb - len, maxseen_') /\ len < nb /\ sack.blocks = w.blocks
    BY <1>1, <1>3, <1>7, AppendedBelow
  <2>2. PICK room : room = nb - len
    OBVIOUS
  <2>3. len < nb => room \in Nat
    BY <1>2, <1>4, <2>2
  <2>4. CASE sack.blocks = <<>>
    BY <1>5, <2>4
  <2>5. ASSUME NEW w, w = Walk(recent, nb - len, maxseen_'), len < nb, sack.blocks = w.blocks
        PROVE  \A j \in 1 .. Len(sack.blocks) : \E i \in 1 .. Len(sf_) : sack.blocks[j] = sf_[i]
    <3>1. room \in Nat /\ w = Walk(recent, room, maxseen_')
      BY <2>2, <2>3, <2>5
    <3>2. \A j \in 1 .. Len(w.blocks) : \E i \in 1 .. Len(sf_) : w.blocks[j] = sf_[i]
      BY <1>6, <3>1
    <3> QED BY <2>5, <3>2
  <2> QED BY <2>1, <2>4, <2>5, Zenon
<1>8. CASE seq > next_'
  <2>1. \/ sack.blocks = <<>>
        \/ \E w : /\ w = Walk(recent, nb - len - 1, maxseen_') /\ len < nb
                  /\ sack.blocks = <<recent>> \o w.blocks
    BY <1>1, <1>8, AppendedAbove
  <2>2. PICK room : room = nb - len - 1
    OBVIOUS
  <2>3. len < nb => room \in Nat
    BY <1>2, <1>4, <2>2
  <2>4. CASE sack.blocks = <<>>
    BY <1>5, <2>4
  <2>5. ASSUME NEW w, w = Walk(recent, nb - len - 1, maxseen_'), len < nb,
               sack.blocks = <<recent>> \o w.blocks
        PROVE  \A j \in 1 .. Len(sack.blocks) :
                 (\E i \in 1 .. Len(sf_) : sack.blocks[j] = sf_[i]) \/ sack.blocks[j] = recent
    <3>1. PICK q : q = w.blocks
      OBVIOUS
    <3>2. /\ q \in Seq(Int \X Int)
          /\ \A j \in 1 .. Len(q) : \E i \in 1 .. Len(sf_) : q[j] = sf_[i]
      <4>1. room \in Nat /\ w = Walk(recent, room, maxseen_')
        BY <2>2, <2>3, <2>5
      <4>2. /\ w.blocks \in Seq(Int \X Int)
            /\ \A j \in 1 .. Len(w.blocks) : \E i \in 1 .. Len(sf_) : w.blocks[j] = sf_[i]
        BY <1>6, <4>1, Zenon
      <4> QED BY <3>1, <4>2
    <3>3. HeldRun(recent)'
      BY <1>8, RecentBlockIsRunNext
    <3>4. recent \in Int \X Int
      BY <3>3 DEF HeldRun
    <3>5. PICK b : b = <<recent>> \o q
      OBVIOUS
    <3>6. Len(b) = Len(q) + 1 /\ b[1] = recent /\ \A j \in 2 .. Len(b) : b[j] = q[j - 1]
      BY <3>2, <3>4, <3>5
    <3>7. ASSUME NEW j \in 1 .. Len(b)
          PROVE  (\E i \in 1 .. Len(sf_) : b[j] = sf_[i]) \/ b[j] = recent
      <4>1. CASE j = 1
        BY <3>6, <4>1
      <4>2. CASE j # 1
        <5>1. Len(q) \in Nat
          BY <3>2
        <5>2. j \in 2 .. Len(b) /\ j - 1 \in 1 .. Len(q)
          BY <3>6, <4>2, <5>1
        <5> QED BY <3>2, <3>6, <5>2
      <4> QED BY <4>1, <4>2
    <3> QED BY <2>5, <3>1, <3>5, <3>7
  <2> QED BY <1>8, <2>1, <2>4, <2>5, Zenon
<1> QED BY <1>3, <1>7, <1>8

(* The runs of the history that the recent block does not cover are still    *)
(* runs when append_ack reports them.                                        *)
LEMMA ReportedAreHeld ==
  ASSUME AckerInv, AckerInv', HistoryIsHeld, NEW seq \in Nat,
         Received' = Received \union {seq},
         seq \notin Received => \A i \in seq .. next_' - 1 : Seen(i)',
         NEW recent, recent = RecentBlock(seq)',
         NEW blocks, ReportedBlocks(blocks, seq, recent), NEW j \in 1 .. Len(blocks)
  PROVE  HeldRun(blocks[j])'
<1>1. seq \in Received'
  OBVIOUS
<1>2. CASE seq > next_' /\ blocks[j] = recent
  <2>1. HeldRun(recent)'
    BY <1>1, <1>2, RecentBlockIsRunNext
  <2> QED BY <1>2, <2>1
<1>3. ASSUME NEW i \in 1 .. Len(sf_), blocks[j] = sf_[i], ~ Covers(recent, sf_[i]),
             seq < next_' => next_' <= maxseen_'
      PROVE  HeldRun(blocks[j])'
  <2>1. PICK b : b = sf_[i]
    OBVIOUS
  <2>2. HeldRun(b) /\ ~ Covers(recent, b)
    BY <1>3, <2>1 DEF HistoryIsHeld
  <2>3. CASE seq \in Received
    <3>1. Received' = Received
      BY <2>3
    <3>2. HeldRun(b)'
      BY <2>2, <3>1, DuplicateKeepsRuns
    <3> QED BY <1>3, <2>1, <3>2
  <2>4. CASE seq \notin Received
    <3>1. seq < next_' => next_' <= maxseen_' /\ \A m \in seq .. next_' - 1 : Seen(m)'
      BY <1>3, <2>4
    <3>2. HeldRun(b)'
      BY <2>2, <3>1, UncoveredRunsStay
    <3> QED BY <1>3, <2>1, <3>2
  <2> QED BY <2>3, <2>4
<1> QED BY <1>2, <1>3 DEF ReportedBlocks

(* The runs of the history are in the window of the next segment.            *)
LEMMA HeldIsInWindow ==
  ASSUME AckerInv, AckerInv', Received \subseteq Received', NEW b, HeldRun(b)
  PROVE  InWindow(b, maxseen_')
<1>1. b \in Int \X Int /\ next_ < b[1] /\ b[1] < b[2] /\ b[1] \in Int /\ b[2] \in Int
  BY DEF HeldRun
<1>2. b[2] - 1 \in b[1] .. b[2] - 1
  BY <1>1
<1>3. b[2] - 1 \in Received
  BY <1>2 DEF HeldRun
<1>4. next_ \in Nat
  BY ReceivedFacts
<1>5. PICK M : M = maxseen_'
  OBVIOUS
<1>6. M \in Nat /\ b[2] - 1 \in 0 .. M
  BY <1>3, <1>5, ReceivedFactsNext
<1>7. InWindow(b, M)
  BY <1>1, <1>4, <1>6 DEF InWindow
<1> QED BY <1>5, <1>7

(* All blocks that append_ack writes or leaves in the history are runs of    *)
(* the buffer as it is now, if those of the history before were.  A DSACK    *)
(* ends the walk early, but then the segment had been received and every run *)
(* is as it was.                                                             *)
LEMMA AppendedHeld ==
  ASSUME AckerInv, AckerInv', HistoryFits, HistoryIsHeld, NEW seq \in Nat,
         Received' = Received \union {seq},
         is_dup_' => seq \in Received,
         seq \notin Received => \A i \in seq .. next_' - 1 : Seen(i)',
         NEW sack, sack = Appended(seq)
  PROVE  /\ \A j \in 1 .. Len(sack.blocks) : HeldRun(sack.blocks[j])'
         /\ \A j \in 1 .. Len(sack.stack) : HeldRun(sack.stack[j])'
         /\ ~ sinkConf.generate_dsacks_ /\ Distinct(sf_) =>
              Distinct(sack.blocks) /\ Distinct(sack.stack)
<1>1. PICK recent, d : recent = RecentBlock(seq)' /\ d = Dsack(seq)
  OBVIOUS
<1>2. seq \in Received' /\ Received \subseteq Received'
  OBVIOUS
<1>3. ASSUME NEW i \in 1 .. Len(sf_) PROVE HeldRun(sf_[i]) /\ InWindow(sf_[i], maxseen_')
  <2>1. HeldRun(sf_[i])
    BY DEF HistoryIsHeld
  <2>2. PICK b : b = sf_[i]
    OBVIOUS
  <2>3. InWindow(b, maxseen_')
    BY <1>2, <2>1, <2>2, HeldIsInWindow
  <2> QED BY <2>1, <2>2, <2>3
<1>4. CASE d = <<>>
  <2>1. ReportedBlocks(sack.blocks, seq, recent) /\ sack.stack = sack.blocks
    BY <1>1, <1>2, <1>3, <1>4, AppendedFull
  <2>2. PICK blocks : blocks = sack.blocks
    OBVIOUS
  <2>3. ReportedBlocks(blocks, seq, recent)
    BY <2>1, <2>2
  <2>4. \A j \in 1 .. Len(blocks) : HeldRun(blocks[j])'
    BY <1>1, <2>3, ReportedAreHeld
  <2>5. Distinct(sf_) => Distinct(blocks)
    BY <2>3 DEF ReportedBlocks
  <2> QED BY <2>1, <2>2, <2>4, <2>5
<1>5. CASE d # <<>>
  <2>1. sinkConf.generate_dsacks_ /\ is_dup_'
    BY <1>1, <1>5 DEF Dsack
  <2>2. seq \in Received /\ Received' = Received
    BY <2>1
  <2>3. ASSUME NEW b, HeldRun(b) PROVE HeldRun(b)'
    BY <2>2, <2>3, DuplicateKeepsRuns
  <2>4. ASSUME NEW i \in 1 .. Len(sf_), NEW b, b = sf_[i] PROVE HeldRun(b)'
    BY <1>3, <2>3, <2>4
  <2>5. \A j \in 1 .. Len(sack.stack) : HeldRun(sack.stack[j])'
    <3>1. \A j \in 1 .. Len(sack.stack) :
            (\E i \in 1 .. Len(sf_) : sack.stack[j] = sf_[i]) \/ HeldRun(sack.stack[j])'
      BY <1>2, AppendedFacts
    <3> QED BY <2>4, <3>1, Zenon
  <2>6. \A j \in 1 .. Len(sack.blocks) :
          (\E i \in 1 .. Len(sf_) : sack.blocks[j] = sf_[i])
            \/ (seq > next_' /\ sack.blocks[j] = recent)
    BY <1>1, <1>2, <1>5, AppendedBlocks
  <2>7. ASSUME NEW b, seq > next_', b = recent PROVE HeldRun(b)'
    BY <1>1, <1>2, <2>7, RecentBlockIsRunNext
  <2>8. \A j \in 1 .. Len(sack.blocks) : HeldRun(sack.blocks[j])'
    BY <2>4, <2>6, <2>7, Zenon
  <2> QED BY <2>1, <2>5, <2>8
<1> QED BY <1>4, <1>5

-------------------------------------------------------------------------------
(* The inductive invariant.                                                  *)

(* In a sink that is not reset, the history and the blocks of the last ACK   *)
(* are runs of the buffer; the ACK may be behind only while a segment is     *)
(* held.                                                                     *)
HistoryIsTrue ==
  /\ HistoryIsHeld
  /\ ~ sinkConf.generate_dsacks_ => Distinct(sf_)
  /\ ackpkt # None /\ ~ timer =>
       /\ ackpkt.seqno = next_ - 1
       /\ \A j \in 1 .. Len(ackpkt.blocks) : HeldRun(ackpkt.blocks[j])
       /\ ~ sinkConf.generate_dsacks_ => Distinct(ackpkt.blocks)

(* A held segment is the last one in order.                                  *)
HeldIsLast ==
  /\ timer <=> save_ # None
  /\ save_ # None => save_.seqno = next_ - 1

SinkInv ==
  /\ AckerInv
  /\ SinkTypeOK
  /\ HeldIsLast
  /\ FirstBlockIsTrigger
  /\ resets = 0 => HistoryIsTrue

(* What the settings allow.                                                  *)
LEMMA SettingsFacts ==
  ASSUME SinkTypeOK
  PROVE  /\ sinkConf \in AllSinks /\ sinkConf.input \subseteq Packets
         /\ base_nblocks_ \in 1 .. 3 /\ HistoryFits
<1>1. sinkConf \in AllSinks
  BY SinkAssumption DEF SinkTypeOK
<1>2. sinkConf.maxSackBlocks_ \subseteq 1 .. 3 /\ sinkConf.input \subseteq Packets
  BY <1>1 DEF AllSinks
<1>3. base_nblocks_ \in 1 .. 3
  BY <1>2 DEF SinkTypeOK
<1>4. sf_ \in Seq(Int \X Int)
  <2>1. Blocks \subseteq Int \X Int
    <3>1. \A s \in Seqs : s \in Int /\ s + 1 \in Int
      BY SeqsAssumption
    <3> QED BY <3>1 DEF Blocks
  <2> QED BY <2>1 DEF SinkTypeOK
<1> QED BY <1>1, <1>2, <1>3, <1>4 DEF HistoryFits, SinkTypeOK

(* A run is a block of segments that the sender may use.                     *)
LEMMA RunIsBlock == AckerInv => \A b : HeldRun(b) => b \in Blocks
<1> SUFFICES ASSUME AckerInv, NEW b, HeldRun(b) PROVE b \in Blocks
  OBVIOUS
<1>1. b \in Int \X Int /\ b[1] \in Int /\ b[2] \in Int /\ b[1] < b[2]
  BY DEF HeldRun
<1>2. b[1] \in b[1] .. b[2] - 1 /\ b[2] - 1 \in b[1] .. b[2] - 1
  BY <1>1
<1>3. b[1] \in Seqs /\ b[2] - 1 \in Seqs
  BY <1>2, ReceivedFacts DEF HeldRun
<1>4. b[2] = (b[2] - 1) + 1
  BY <1>1
<1> QED BY <1>1, <1>3, <1>4 DEF Blocks

LEMMA RunIsBlockNext == AckerInv' => (\A b : HeldRun(b) => b \in Blocks)'
BY RunIsBlock, PTL

(* An ACK is well formed and tells the truth, and so does the history after  *)
(* it.                                                                       *)
LEMMA AckFacts ==
  ASSUME SinkInv, AckerInv', NEW pkt \in Packets, Ack(pkt),
         UNCHANGED <<base_nblocks_, sinkConf>>,
         Received' = Received \union {pkt.seqno},
         is_dup_' => pkt.seqno \in Received,
         pkt.seqno \notin Received => \A i \in pkt.seqno .. next_' - 1 : Seen(i)'
  PROVE  /\ sf_' \in Seq(Blocks) /\ Len(sf_') <= base_nblocks_
         /\ ecn_unacked_' \in BOOLEAN /\ ackpkt' \in AckPackets
         /\ FirstBlockIsTrigger'
         /\ resets = 0 => HistoryIsTrue'
<1>1. PICK seq, sack : seq = pkt.seqno /\ sack = Appended(seq)
  OBVIOUS
<1>2. /\ ecn_unacked_' \in BOOLEAN
      /\ \E echo \in BOOLEAN :
           ackpkt' = [seqno |-> Seqno', trigger |-> seq, ecnecho |-> echo,
                      dsack |-> sack.dsack, blocks |-> sack.blocks]
      /\ sf_' = sack.stack
  BY <1>1 DEF Ack, SinkInv, SinkTypeOK
<1>3. seq \in Nat /\ seq \in Received'
  BY <1>1, SeqsAssumption DEF Packets
<1>4. HistoryFits /\ AckerInv /\ base_nblocks_ \in sinkConf.maxSackBlocks_
  BY SettingsFacts DEF SinkInv, SinkTypeOK
<1>5. /\ sack.dsack \in Seq(Int \X Int) /\ sack.blocks \in Seq(Int \X Int)
      /\ sack.stack \in Seq(Int \X Int) /\ Len(sack.stack) <= base_nblocks_
      /\ \A j \in 1 .. Len(sack.stack) :
           (\E i \in 1 .. Len(sf_) : sack.stack[j] = sf_[i]) \/ HeldRun(sack.stack[j])'
      /\ seq > next_' =>
           \/ sack.blocks # <<>> /\ seq \in Segments(sack.blocks[1])
           \/ sack.dsack # <<>> /\ base_nblocks_ = 1
  BY <1>1, <1>3, <1>4, AppendedFacts
<1>6. Seqno' = next_' - 1 /\ next_' \in Nat /\ next_' \notin Received'
  BY ReceivedFactsNext DEF Seqno
<1>7. ackpkt' \in AckPackets /\ ackpkt' # None
  <2>1. ackpkt' \in AckPackets
    BY <1>2, <1>3, <1>5, <1>6 DEF AckPackets
  <2> QED BY <2>1, NoneAssumption
<1>8. /\ ackpkt'.seqno = next_' - 1 /\ ackpkt'.trigger = seq
      /\ ackpkt'.dsack = sack.dsack /\ ackpkt'.blocks = sack.blocks
  BY <1>2, <1>6
<1>9. sf_' \in Seq(Blocks)
  <2>1. ASSUME NEW j \in 1 .. Len(sack.stack) PROVE sack.stack[j] \in Blocks
    <3>1. ASSUME NEW i \in 1 .. Len(sf_) PROVE sf_[i] \in Blocks
      BY DEF SinkInv, SinkTypeOK
    <3>2. \A b : HeldRun(b)' => b \in Blocks
      BY RunIsBlockNext DEF Blocks
    <3> QED BY <1>5, <3>1, <3>2, Zenon
  <2>2. PICK t : t = sack.stack
    OBVIOUS
  <2>3. t \in Seq(Int \X Int) /\ \A j \in 1 .. Len(t) : t[j] \in Blocks
    BY <1>5, <2>1, <2>2
  <2>4. t \in Seq(Blocks)
    BY <2>3, SeqNarrows
  <2> QED BY <1>2, <2>2, <2>4
<1>10. FirstBlockIsTrigger'
  <2>1. seq > next_' - 1 => seq > next_'
    <3>1. PICK n : n = next_'
      OBVIOUS
    <3>2. n \in Nat /\ seq # n
      BY <1>3, <1>6, <3>1
    <3>3. seq > n - 1 => seq > n
      BY <1>3, <3>2
    <3> QED BY <3>1, <3>3
  <2>2. sinkConf'.maxSackBlocks_ = sinkConf.maxSackBlocks_
    OBVIOUS
  <2> QED BY <1>4, <1>5, <1>8, <2>1, <2>2 DEF FirstBlockIsTrigger, Segments
<1>11. ASSUME resets = 0 PROVE HistoryIsTrue'
  <2>1. HistoryIsTrue
    BY <1>11 DEF SinkInv
  <2>2. /\ \A j \in 1 .. Len(sack.blocks) : HeldRun(sack.blocks[j])'
        /\ \A j \in 1 .. Len(sack.stack) : HeldRun(sack.stack[j])'
        /\ ~ sinkConf.generate_dsacks_ /\ Distinct(sf_) =>
             Distinct(sack.blocks) /\ Distinct(sack.stack)
    BY <1>1, <1>3, <1>4, <2>1, AppendedHeld DEF HistoryIsTrue
  <2>3. sinkConf' = sinkConf
    OBVIOUS
  <2>4. ASSUME NEW b, b = sf_' PROVE HistoryIsHeld' <=> \A i \in 1 .. Len(b) : HeldRun(b[i])'
    BY <2>4 DEF HistoryIsHeld, HeldRun
  <2>5. HistoryIsHeld'
    BY <1>2, <2>2, <2>4
  <2>6. (\A j \in 1 .. Len(ackpkt.blocks) : HeldRun(ackpkt.blocks[j]))'
    BY <1>8, <2>2 DEF HeldRun
  <2>7. ~ sinkConf.generate_dsacks_ => Distinct(sack.blocks) /\ Distinct(sack.stack)
    BY <2>1, <2>2 DEF HistoryIsTrue
  <2> QED BY <1>2, <1>8, <2>3, <2>5, <2>6, <2>7 DEF HistoryIsTrue, Distinct
<1> QED BY <1>2, <1>5, <1>7, <1>9, <1>10, <1>11

(* A segment whose ACK is delayed joins no run: it is the first missing one, *)
(* and the one after it is missing too; or it had been received.             *)
LEMMA DelayedRunsStay ==
  ASSUME AckerInv, AckerInv', NEW seq \in Nat, Received' = Received \union {seq},
         seq = next_' - 1, NEW b, HeldRun(b)
  PROVE  HeldRun(b)'
<1>1. /\ next_ \in Nat /\ next_ \notin Received /\ 0 .. next_ - 1 \subseteq Received
  BY ReceivedFacts
<1>2. PICK n, R : n = next_' /\ R = Received'
  OBVIOUS
<1>3. n \in Nat /\ n \notin R /\ 0 .. n - 1 \subseteq R /\ seq = n - 1 /\ R = Received \union {seq}
  BY <1>2, ReceivedFactsNext
<1>4. CASE seq \in Received
  <2>1. Received' = Received
    BY <1>4
  <2> QED BY <2>1, DuplicateKeepsRuns
<1>5. CASE seq \notin Received
  <2>1. seq \in Nat /\ 0 .. seq - 1 \subseteq Received
    <3>1. \A i \in 0 .. seq - 1 : i \in 0 .. n - 1 /\ i # seq
      BY <1>3
    <3> QED BY <1>3, <3>1
  <2>2. seq = next_
    BY <1>1, <1>5, <2>1, FirstMissing
  <2>3. n = next_ + 1
    BY <1>1, <1>3, <2>2
  <2>4. /\ b \in Int \X Int /\ b[1] \in Int /\ b[2] \in Int
        /\ next_ < b[1] /\ b[1] < b[2]
        /\ \A s \in b[1] .. b[2] - 1 : s \in R
        /\ b[1] - 1 \notin Received /\ b[2] \notin Received
    BY <1>2 DEF HeldRun
  <2>5. b[1] # n
    <3>1. b[1] \in b[1] .. b[2] - 1
      BY <2>4
    <3> QED BY <1>3, <2>4, <3>1
  <2>6. n < b[1] /\ b[1] - 1 # seq /\ b[2] # seq
    BY <1>1, <2>2, <2>3, <2>4, <2>5
  <2> QED BY <1>2, <2>4, <2>6 DEF HeldRun
<1> QED BY <1>4, <1>5

-------------------------------------------------------------------------------
(* The steps.                                                                *)

LEMMA InitSinkInv == SinkInit => SinkInv
<1> SUFFICES ASSUME SinkInit PROVE SinkInv
  OBVIOUS
<1>1. AckerInv
  BY InitAckerInv DEF SinkInit
<1>2. sinkConf \in AllSinks /\ sinkConf.maxResets \in Nat
  BY SinkAssumption DEF SinkInit, AllSinks
<1>3. sinkConf.maxSackBlocks_ \subseteq 1 .. 3 /\ base_nblocks_ \in 1 .. 3
  BY <1>2 DEF SinkInit, AllSinks
<1>4. <<>> \in Seq(Blocks) /\ Len(<<>>) = 0
  OBVIOUS
<1>5. SinkTypeOK
  <2>1. sf_ \in Seq(Blocks) /\ Len(sf_) <= base_nblocks_
    BY <1>3, <1>4 DEF SinkInit
  <2>2. resets \in 0 .. sinkConf.maxResets
    BY <1>2 DEF SinkInit
  <2> QED BY <1>1, <2>1, <2>2 DEF SinkInit, SinkTypeOK, AckerInv
<1>6. HistoryIsTrue
  BY <1>4 DEF SinkInit, HistoryIsTrue, HistoryIsHeld, Distinct
<1> QED BY <1>1, <1>5, <1>6 DEF SinkInit, SinkInv, HeldIsLast, FirstBlockIsTrigger

LEMMA RecvSinkInv ==
  ASSUME SinkInv, NEW pkt \in sinkConf.input, SinkRecv(pkt)
  PROVE  SinkInv' /\ (~ Delayed(pkt) => ackpkt' # None)
<1>1. PICK seq : seq = pkt.seqno
  OBVIOUS
<1>2. pkt \in Packets /\ seq \in Seqs /\ seq \in Nat /\ AckerInv /\ Update(seq)
  <2>1. sinkConf.input \subseteq Packets
    BY SettingsFacts DEF SinkInv
  <2> QED BY <1>1, <2>1, SeqsAssumption DEF Packets, SinkRecv, SinkInv
<1>3. /\ AckerInv' /\ Received' = Received \union {seq} /\ is_dup_' = (seq \in Received)
      /\ next_ <= next_' /\ \A i \in next_ .. next_' - 1 : Seen(i)'
  BY <1>2, UpdateFacts
<1>4. UNCHANGED <<base_nblocks_, resets, sinkConf>>
  BY DEF SinkRecv
<1>5. CASE Delayed(pkt)
  <2>1. save_' = pkt /\ timer' = TRUE /\ UNCHANGED <<sf_, ecn_unacked_, ackpkt>>
    BY <1>5 DEF SinkRecv
  <2>2. seq = next_' - 1
    BY <1>1, <1>5 DEF Delayed, Seqno
  <2>3. SinkTypeOK'
    BY <1>3, <1>4, <2>1 DEF SinkInv, SinkTypeOK, AckerInv
  <2>4. HeldIsLast'
    <3>1. pkt # None
      BY <1>2, NoneAssumption
    <3> QED BY <1>1, <2>1, <2>2, <3>1 DEF HeldIsLast
  <2>5. FirstBlockIsTrigger'
    BY <1>4, <2>1 DEF SinkInv, FirstBlockIsTrigger, Segments
  <2>6. ASSUME resets = 0 PROVE HistoryIsTrue'
    <3>1. HistoryIsTrue
      BY <2>6 DEF SinkInv
    <3>2. ASSUME NEW i \in 1 .. Len(sf_), NEW b, b = sf_[i] PROVE HeldRun(b)'
      <4>1. HeldRun(b)
        BY <3>1, <3>2 DEF HistoryIsTrue, HistoryIsHeld
      <4> QED BY <1>2, <1>3, <2>2, <4>1, DelayedRunsStay
    <3>3. HistoryIsHeld'
      BY <2>1, <3>2 DEF HistoryIsHeld, HeldRun
    <3> QED BY <1>4, <2>1, <3>1, <3>3 DEF HistoryIsTrue, Distinct
  <2> QED BY <1>3, <1>4, <1>5, <2>3, <2>4, <2>5, <2>6 DEF SinkInv
<1>6. CASE ~ Delayed(pkt)
  <2>1. Ack(pkt) /\ save_' = None /\ timer' = FALSE
    BY <1>6 DEF SinkRecv
  <2>2. ASSUME seq \notin Received PROVE \A i \in seq .. next_' - 1 : Seen(i)'
    BY <1>2, <1>3, <2>2, NewIsScanned
  <2>3. /\ sf_' \in Seq(Blocks) /\ Len(sf_') <= base_nblocks_
        /\ ecn_unacked_' \in BOOLEAN /\ ackpkt' \in AckPackets
        /\ FirstBlockIsTrigger'
        /\ resets = 0 => HistoryIsTrue'
    BY <1>1, <1>2, <1>3, <1>4, <2>1, <2>2, AckFacts
  <2>4. SinkTypeOK'
    BY <1>3, <1>4, <2>1, <2>3 DEF SinkInv, SinkTypeOK, AckerInv
  <2>5. HeldIsLast'
    BY <2>1 DEF HeldIsLast
  <2>6. ackpkt' # None
    BY <2>3, NoneAssumption
  <2> QED BY <1>3, <1>4, <2>3, <2>4, <2>5, <2>6 DEF SinkInv
<1> QED BY <1>5, <1>6

LEMMA TimeoutSinkInv ==
  ASSUME SinkInv, SinkTimeout
  PROVE  SinkInv' /\ ackpkt' # None
<1>1. UNCHANGED <<ackerVars, base_nblocks_, resets, sinkConf>>
  BY DEF SinkTimeout
<1>2. AckerInv /\ AckerInv'
  BY <1>1, StepAckerInv DEF SinkInv
<1>3. Received' = Received /\ next_' = next_
  BY <1>1 DEF Received, Seen, Slot, ackerVars
<1>4. save_ # None /\ save_ \in Packets /\ Ack(save_) /\ save_' = None /\ timer' = FALSE
  <2>1. sinkConf.input \subseteq Packets /\ save_ \in sinkConf.input \union {None}
    BY SettingsFacts DEF SinkInv, SinkTypeOK
  <2> QED BY <2>1 DEF SinkInv, HeldIsLast, SinkTimeout
<1>5. PICK seq : seq = save_.seqno
  OBVIOUS
<1>6. seq \in Nat /\ seq \in Received
  <2>1. seq = next_ - 1 /\ seq \in Nat
    BY <1>4, <1>5, SeqsAssumption DEF SinkInv, HeldIsLast, Packets
  <2>2. 0 .. next_ - 1 \subseteq Received /\ next_ \in Nat
    BY <1>2, ReceivedFacts
  <2> QED BY <2>1, <2>2
<1>7. /\ sf_' \in Seq(Blocks) /\ Len(sf_') <= base_nblocks_
      /\ ecn_unacked_' \in BOOLEAN /\ ackpkt' \in AckPackets
      /\ FirstBlockIsTrigger'
      /\ resets = 0 => HistoryIsTrue'
  <2>1. Received' = Received \union {save_.seqno}
    BY <1>3, <1>5, <1>6
  <2> QED BY <1>1, <1>2, <1>4, <1>5, <1>6, <2>1, AckFacts
<1>8. SinkTypeOK'
  BY <1>1, <1>2, <1>4, <1>7 DEF SinkInv, SinkTypeOK, AckerInv
<1>9. HeldIsLast'
  BY <1>4 DEF HeldIsLast
<1>10. ackpkt' # None
  BY <1>7, NoneAssumption
<1> QED BY <1>1, <1>2, <1>7, <1>8, <1>9, <1>10 DEF SinkInv

LEMMA ResetSinkInv ==
  ASSUME SinkInv, SinkReset
  PROVE  SinkInv'
<1>1. AckerInv'
  BY ResetAckerInv DEF SinkInv, SinkReset
<1>2. sinkConf \in AllSinks /\ sinkConf.maxResets \in Nat
  <2>1. sinkConf \in AllSinks
    BY SettingsFacts DEF SinkInv
  <2> QED BY <2>1 DEF AllSinks
<1>3. resets' \in 0 .. sinkConf.maxResets /\ resets' # 0
  BY <1>2 DEF SinkReset, SinkInv, SinkTypeOK
<1>4. SinkTypeOK'
  BY <1>1, <1>3 DEF SinkReset, SinkInv, SinkTypeOK, AckerInv
<1> QED BY <1>1, <1>3, <1>4 DEF SinkReset, SinkInv, HeldIsLast, FirstBlockIsTrigger

LEMMA SetMaxSackBlocksSinkInv ==
  ASSUME SinkInv, NEW n \in sinkConf.maxSackBlocks_, SetMaxSackBlocks(n)
  PROVE  SinkInv'
<1>1. /\ base_nblocks_' = n /\ sf_' = <<>>
      /\ UNCHANGED <<ackerVars, save_, timer, ecn_unacked_, ackpkt, resets, sinkConf>>
  BY DEF SetMaxSackBlocks
<1>2. AckerInv'
  BY <1>1, StepAckerInv DEF SinkInv
<1>3. Received' = Received /\ next_' = next_
  BY <1>1 DEF Received, Seen, Slot, ackerVars
<1>4. n \in 1 .. 3
  <2>1. sinkConf \in AllSinks
    BY SettingsFacts DEF SinkInv
  <2> QED BY <2>1 DEF AllSinks
<1>5. <<>> \in Seq(Blocks) /\ Len(<<>>) = 0
  OBVIOUS
<1>6. SinkTypeOK'
  BY <1>1, <1>2, <1>4, <1>5 DEF SinkInv, SinkTypeOK, AckerInv
<1>7. HeldIsLast' /\ FirstBlockIsTrigger'
  BY <1>1, <1>3 DEF SinkInv, HeldIsLast, FirstBlockIsTrigger, Segments
<1>8. ASSUME resets = 0 PROVE HistoryIsTrue'
  <2>1. HistoryIsTrue
    BY <1>8 DEF SinkInv
  <2>2. HistoryIsHeld' /\ (~ sinkConf.generate_dsacks_ => Distinct(sf_))'
    BY <1>1, <1>5 DEF HistoryIsHeld, Distinct
  <2> QED BY <1>1, <1>3, <2>1, <2>2 DEF HistoryIsTrue, HeldRun, Distinct
<1> QED BY <1>1, <1>2, <1>6, <1>7, <1>8 DEF SinkInv

LEMMA StepSinkInv == SinkInv /\ [SinkNext]_sinkVars => SinkInv'
<1> SUFFICES ASSUME SinkInv, [SinkNext]_sinkVars PROVE SinkInv'
  OBVIOUS
<1>1. ASSUME NEW pkt \in sinkConf.input, SinkRecv(pkt) PROVE SinkInv'
  BY <1>1, RecvSinkInv
<1>2. CASE SinkTimeout
  BY <1>2, TimeoutSinkInv
<1>3. CASE SinkReset
  BY <1>3, ResetSinkInv
<1>4. ASSUME NEW n \in sinkConf.maxSackBlocks_, SetMaxSackBlocks(n) PROVE SinkInv'
  BY <1>4, SetMaxSackBlocksSinkInv
<1>5. CASE UNCHANGED sinkVars
  <2>1. AckerInv'
    BY <1>5, StepAckerInv DEF SinkInv, sinkVars
  <2>2. Received' = Received /\ next_' = next_
    BY <1>5 DEF Received, Seen, Slot, ackerVars, sinkVars
  <2>3. SinkTypeOK' /\ HeldIsLast' /\ FirstBlockIsTrigger'
    BY <1>5, <2>1, <2>2 DEF SinkInv, SinkTypeOK, AckerInv, HeldIsLast, FirstBlockIsTrigger,
                            Segments, sinkVars
  <2>4. HistoryIsTrue => HistoryIsTrue'
    BY <1>5, <2>2 DEF HistoryIsTrue, HistoryIsHeld, HeldRun, Distinct, sinkVars
  <2> QED BY <1>5, <2>1, <2>3, <2>4 DEF SinkInv, sinkVars
<1> QED BY <1>1, <1>2, <1>3, <1>4, <1>5 DEF SinkNext

LEMMA SinkInvariant == SinkSpec => []SinkInv
BY InitSinkInv, StepSinkInv, PTL DEF SinkSpec

-------------------------------------------------------------------------------
(* The history is complete.                                                  *)

(* The sinks that AllHeldIsReported is about.                                *)
RoomForAll ==
  /\ ~ sinkConf.generate_dsacks_
  /\ Cardinality(sinkConf.maxSackBlocks_) = 1
  /\ \A s \in Seqs : s <= 2 * base_nblocks_

(* q has every run.                                                          *)
Complete(q) == \A b \in Blocks : HeldRun(b) => Reports(q, b)

(* In such a sink, while it is not reset, no run is missing from the history *)
(* or from an ACK that is not behind.                                        *)
HistoryIsComplete ==
  RoomForAll => Complete(sf_) /\ (AckIsCurrent => Complete(ackpkt.blocks))

CompleteInv == SinkInv /\ (resets = 0 => HistoryIsComplete)

(* An ACK that is full has every run: the next run would be above the last   *)
(* segment.                                                                  *)
LEMMA FullIsComplete ==
  AckerInv /\ base_nblocks_ \in 1 .. 3 /\ (\A s \in Seqs : s <= 2 * base_nblocks_) =>
    \A q \in Seq(Int \X Int) :
      Len(q) = base_nblocks_ /\ Distinct(q) /\ (\A j \in 1 .. Len(q) : HeldRun(q[j])) =>
        \A b : HeldRun(b) => Reports(q, b)
<1> SUFFICES ASSUME AckerInv, base_nblocks_ \in 1 .. 3,
                    \A s \in Seqs : s <= 2 * base_nblocks_,
                    NEW q \in Seq(Int \X Int), Len(q) = base_nblocks_, Distinct(q),
                    \A j \in 1 .. Len(q) : HeldRun(q[j]), NEW b, HeldRun(b),
                    \A j \in 1 .. base_nblocks_ : q[j] # b
             PROVE  FALSE
  BY DEF Reports
<1>1. next_ \in Nat /\ Received \subseteq Seqs
  BY ReceivedFacts
<1>2. ASSUME NEW a, HeldRun(a) PROVE a[1] \in 1 .. 2 * base_nblocks_
  <2>1. a[1] \in Int /\ a[2] \in Int /\ next_ < a[1] /\ a[1] < a[2]
    BY <1>2 DEF HeldRun
  <2>2. a[1] \in Received
    BY <1>2, <2>1 DEF HeldRun
  <2> QED BY <1>1, <2>1, <2>2
<1>3. ASSUME NEW a, HeldRun(a), NEW c, HeldRun(c), a # c
      PROVE  a[1] + 2 <= c[1] \/ c[1] + 2 <= a[1]
  <2>0. ASSUME NEW r, HeldRun(r)
        PROVE  /\ r[1] \in Int /\ r[2] \in Int /\ r[1] < r[2]
               /\ r[1] \in Received /\ r[1] - 1 \notin Received
    <3>1. /\ r[1] \in Int /\ r[2] \in Int /\ r[1] < r[2] /\ r[1] - 1 \notin Received
          /\ \A s \in r[1] .. r[2] - 1 : s \in Received
      BY <2>0 DEF HeldRun
    <3> QED BY <3>1
  <2>1. /\ a[1] \in Int /\ a[2] \in Int /\ a[1] < a[2]
        /\ c[1] \in Int /\ c[2] \in Int /\ c[1] < c[2]
        /\ a[1] \in Received /\ c[1] \in Received
        /\ a[1] - 1 \notin Received /\ c[1] - 1 \notin Received
    BY <1>3, <2>0
  <2>2. a[1] # c[1]
    <3>1. a[1] = c[1] => a[1] \in Segments(a) /\ a[1] \in Segments(c)
      BY <2>1 DEF Segments
    <3> QED BY <1>1, <1>3, <2>1, <3>1, RunsAreMaximal
  <2>3. a[1] + 1 = c[1] => c[1] - 1 = a[1]
    BY <2>1
  <2>4. c[1] + 1 = a[1] => a[1] - 1 = c[1]
    BY <2>1
  <2>5. PICK x \in Int, y \in Int : x = a[1] /\ y = c[1]
    BY <2>1
  <2>6. x # y /\ x + 1 # y /\ y + 1 # x
    BY <2>1, <2>2, <2>3, <2>4, <2>5
  <2>7. x + 2 <= y \/ y + 2 <= x
    BY <2>6
  <2> QED BY <2>5, <2>7
<1>4. \A i, j \in 1 .. base_nblocks_ : i # j => q[i] # q[j]
  BY DEF Distinct
<1>5. b[1] \in 1 .. 2 * base_nblocks_
  BY <1>2
<1>6. \A j \in 1 .. base_nblocks_ :
        /\ q[j][1] \in 1 .. 2 * base_nblocks_
        /\ q[j][1] + 2 <= b[1] \/ b[1] + 2 <= q[j][1]
  BY <1>2, <1>3
<1>7. \A i, j \in 1 .. base_nblocks_ :
        i # j => q[i][1] + 2 <= q[j][1] \/ q[j][1] + 2 <= q[i][1]
  BY <1>3, <1>4
<1>8. PICK x, x1, x2, x3 : x = b[1] /\ x1 = q[1][1] /\ x2 = q[2][1] /\ x3 = q[3][1]
  OBVIOUS
<1>9. CASE base_nblocks_ = 1
  <2>1. /\ x \in 1 .. 2 /\ x1 \in 1 .. 2
        /\ x1 + 2 <= x \/ x + 2 <= x1
    BY <1>5, <1>6, <1>8, <1>9
  <2> QED BY <2>1
<1>10. CASE base_nblocks_ = 2
  <2>1. /\ x \in 1 .. 4 /\ x1 \in 1 .. 4 /\ x2 \in 1 .. 4
        /\ x1 + 2 <= x \/ x + 2 <= x1
        /\ x2 + 2 <= x \/ x + 2 <= x2
    BY <1>5, <1>6, <1>8, <1>10
  <2>2. x1 + 2 <= x2 \/ x2 + 2 <= x1
    BY <1>7, <1>8, <1>10
  <2> QED BY <2>1, <2>2
<1>11. CASE base_nblocks_ = 3
  <2>1. /\ x \in 1 .. 6 /\ x1 \in 1 .. 6 /\ x2 \in 1 .. 6 /\ x3 \in 1 .. 6
        /\ x1 + 2 <= x \/ x + 2 <= x1
        /\ x2 + 2 <= x \/ x + 2 <= x2
        /\ x3 + 2 <= x \/ x + 2 <= x3
    BY <1>5, <1>6, <1>8, <1>11
  <2>2. /\ x1 + 2 <= x2 \/ x2 + 2 <= x1
        /\ x1 + 2 <= x3 \/ x3 + 2 <= x1
        /\ x2 + 2 <= x3 \/ x3 + 2 <= x2
    BY <1>7, <1>8, <1>11
  <2> QED BY <2>1, <2>2
<1> QED BY <1>9, <1>10, <1>11

LEMMA FullIsCompleteNext ==
  (AckerInv /\ base_nblocks_ \in 1 .. 3 /\ \A s \in Seqs : s <= 2 * base_nblocks_)' =>
    (\A q \in Seq(Int \X Int) :
       Len(q) = base_nblocks_ /\ Distinct(q) /\ (\A j \in 1 .. Len(q) : HeldRun(q[j])) =>
         \A b : HeldRun(b) => Reports(q, b))'
BY FullIsComplete, PTL

(* A run without the segment that has arrived was a run before.              *)
LEMMA RunWasThere ==
  ASSUME AckerInv, AckerInv', NEW seq \in Nat, Received' = Received \union {seq},
         next_ <= next_', NEW b, HeldRun(b)', seq \notin Segments(b)
  PROVE  HeldRun(b)
<1>1. PICK n, R : n = next_' /\ R = Received'
  OBVIOUS
<1>2. next_ \in Nat /\ n \in Nat /\ next_ <= n /\ R = Received \union {seq}
  BY <1>1, ReceivedFacts, ReceivedFactsNext
<1>3. /\ b \in Int \X Int /\ b[1] \in Int /\ b[2] \in Int
      /\ n < b[1] /\ b[1] < b[2]
      /\ \A s \in b[1] .. b[2] - 1 : s \in R
      /\ b[1] - 1 \notin R /\ b[2] \notin R
  BY <1>1 DEF HeldRun
<1>4. \A s \in b[1] .. b[2] - 1 : s \in Received
  BY <1>2, <1>3 DEF Segments
<1>5. next_ < b[1] /\ b[1] - 1 \notin Received /\ b[2] \notin Received
  BY <1>2, <1>3
<1> QED BY <1>3, <1>4, <1>5 DEF HeldRun

(* When there is no DSACK an ACK has every run: the one around the segment   *)
(* comes first, and every other was in the history and is not covered.       *)
LEMMA AppendedComplete ==
  ASSUME AckerInv, AckerInv', HistoryFits, HistoryIsHeld, Distinct(sf_), Complete(sf_),
         base_nblocks_ \in 1 .. 3, base_nblocks_' = base_nblocks_,
         \A s \in Seqs : s <= 2 * base_nblocks_,
         NEW seq \in Nat, Received' = Received \union {seq}, next_ <= next_',
         seq \notin Received => \A i \in seq .. next_' - 1 : Seen(i)',
         Dsack(seq) = <<>>, NEW sack, sack = Appended(seq), NEW b, HeldRun(b)'
  PROVE  Reports(sack.blocks, b) /\ Reports(sack.stack, b)
<1>1. PICK recent, q, n, M :
        recent = RecentBlock(seq)' /\ q = sack.blocks /\ n = next_' /\ M = maxseen_'
  OBVIOUS
<1>2. seq \in Received' /\ Received \subseteq Received'
  OBVIOUS
<1>3. ASSUME NEW i \in 1 .. Len(sf_) PROVE InWindow(sf_[i], maxseen_')
  <2>1. PICK r : r = sf_[i] /\ HeldRun(r)
    BY DEF HistoryIsHeld
  <2>2. InWindow(r, maxseen_')
    BY <1>2, <2>1, HeldIsInWindow
  <2> QED BY <2>1, <2>2
<1>4. /\ ReportedBlocks(q, seq, recent) /\ sack.stack = q
      /\ ReportsUncovered(q, seq, recent)
  BY <1>1, <1>2, <1>3, AppendedFull
<1>5. /\ n \in Nat /\ M \in Nat /\ seq # n
      /\ Received' \subseteq 0 .. M /\ n \notin Received'
  BY <1>1, <1>2, ReceivedFactsNext
<1>6. /\ b \in Int \X Int /\ b[1] \in Int /\ b[2] \in Int
      /\ n < b[1] /\ b[1] < b[2]
      /\ \A s \in b[1] .. b[2] - 1 : s \in Received'
  BY <1>1 DEF HeldRun
<1>7. n <= M
  <2>1. b[1] \in 0 .. M
    BY <1>5, <1>6
  <2> QED BY <1>5, <1>6, <2>1
<1>8. seq > n => HeldRun(recent)' /\ seq \in Segments(recent)
  BY <1>1, <1>2, RecentBlockIsRunNext DEF Segments
<1>9. ASSUME NEW s \in Int, HeldRun(recent)', s \in Segments(recent), s \in Segments(b)
      PROVE  recent = b
  BY <1>9, RunsAreMaximalNext DEF Segments
<1>10. CASE seq \in Segments(b)
  <2>1. seq > n
    BY <1>5, <1>6, <1>10 DEF Segments
  <2>2. recent = b
    BY <1>8, <1>9, <1>10, <2>1
  <2> QED BY <1>1, <1>4, <2>1, <2>2 DEF ReportsUncovered
<1>11. CASE seq \notin Segments(b)
  <2>1. HeldRun(b)
    BY <1>2, <1>11, RunWasThere
  <2>2. PICK i \in 1 .. Len(sf_) : sf_[i] = b
    BY <2>1, RunIsBlock DEF Complete, Reports
  <2>3. ~ Covers(recent, b)
    <3>1. CASE seq < n
      <4>1. recent \in Int \X Int /\ recent[2] <= n
        BY <1>1, <1>7, <3>1, RecentBlockBelowNext
      <4>2. recent[2] \in Int
        BY <4>1
      <4> QED BY <1>5, <1>6, <4>1, <4>2 DEF Covers
    <3>2. CASE seq > n
      <4>1. /\ HeldRun(recent)' /\ seq \in Segments(recent)
            /\ recent[1] \in Int /\ recent[2] \in Int
        BY <1>8, <3>2 DEF HeldRun
      <4>2. Covers(recent, b) => b[1] \in Segments(recent) /\ b[1] \in Segments(b)
        BY <1>6, <4>1 DEF Covers, Segments
      <4> QED BY <1>6, <1>9, <1>11, <4>1, <4>2
    <3> QED BY <1>5, <3>1, <3>2
  <2>4. CASE \A m \in 1 .. Len(sf_) : ~ Covers(recent, sf_[m]) => Reports(q, sf_[m])
    BY <1>1, <1>4, <2>2, <2>3, <2>4
  <2>5. CASE Len(q) = base_nblocks_
    <3>1. ASSUME NEW j \in 1 .. Len(q) PROVE HeldRun(q[j])'
      BY <1>1, <1>4, ReportedAreHeld
    <3>2. q \in Seq(Int \X Int) /\ Distinct(q)
      BY <1>4 DEF ReportedBlocks
    <3>3. Len(q) = base_nblocks_'
      BY <2>5
    <3>4. Reports(q, b)
      BY <3>1, <3>2, <3>3, FullIsCompleteNext DEF Distinct, Reports
    <3> QED BY <1>1, <1>4, <3>4
  <2> QED BY <1>1, <1>4, <1>7, <2>4, <2>5 DEF ReportsUncovered
<1> QED BY <1>10, <1>11

(* When the script has one size to give, the history is not lost.            *)
LEMMA OneSizeStays ==
  ASSUME CompleteInv, Cardinality(sinkConf.maxSackBlocks_) = 1,
         NEW n \in sinkConf.maxSackBlocks_, SetMaxSackBlocks(n)
  PROVE  FALSE
<1>1. sinkConf.maxSackBlocks_ \subseteq 1 .. 3 /\ base_nblocks_ \in sinkConf.maxSackBlocks_
  <2>1. sinkConf \in AllSinks
    BY SettingsFacts DEF CompleteInv, SinkInv
  <2> QED BY <2>1 DEF AllSinks, CompleteInv, SinkInv, SinkTypeOK
<1>2. IsFiniteSet(sinkConf.maxSackBlocks_)
  <2>1. IsFiniteSet(1 .. 3)
    <3>1. PICK lo, hi : lo = 1 /\ hi = 3
      OBVIOUS
    <3>2. lo \in Int /\ hi \in Int
      BY <3>1
    <3>3. IsFiniteSet(lo .. hi)
      BY <3>2, FS_Interval
    <3> QED BY <3>1, <3>3
  <2> QED BY <1>1, <2>1, FS_Subset
<1>3. PICK x : sinkConf.maxSackBlocks_ = {x}
  BY <1>2, FS_Singleton
<1>4. n = base_nblocks_
  BY <1>1, <1>3
<1> QED BY <1>4 DEF SetMaxSackBlocks

(* An ACK for a segment that has been received keeps the history complete.   *)
LEMMA AckIsComplete ==
  ASSUME CompleteInv, resets = 0, AckerInv', NEW pkt \in Packets, Ack(pkt), SinkInv',
         UNCHANGED <<base_nblocks_, sinkConf>>,
         Received' = Received \union {pkt.seqno}, next_ <= next_',
         pkt.seqno \notin Received => \A i \in pkt.seqno .. next_' - 1 : Seen(i)'
  PROVE  HistoryIsComplete'
<1> SUFFICES ASSUME RoomForAll' PROVE Complete(sf_)' /\ Complete(ackpkt.blocks)'
  BY DEF HistoryIsComplete
<1>1. PICK seq, sack : seq = pkt.seqno /\ sack = Appended(seq)
  OBVIOUS
<1>2. sf_' = sack.stack /\ ackpkt'.blocks = sack.blocks
  BY <1>1 DEF Ack
<1>3. RoomForAll
  BY DEF RoomForAll
<1>4. SinkInv /\ AckerInv /\ HistoryFits /\ base_nblocks_ \in 1 .. 3
  BY SettingsFacts DEF CompleteInv, SinkInv
<1>5. HistoryIsHeld /\ Distinct(sf_) /\ Complete(sf_)
  BY <1>3, <1>4 DEF CompleteInv, SinkInv, HistoryIsTrue, HistoryIsComplete, RoomForAll
<1>6. seq \in Nat
  BY <1>1, SeqsAssumption DEF Packets
<1>7. Dsack(seq) = <<>>
  BY <1>3, Zenon DEF Dsack, RoomForAll
<1>8. ASSUME NEW b, HeldRun(b)' PROVE Reports(sack.blocks, b) /\ Reports(sack.stack, b)
  <2>1. \A s \in Seqs : s <= 2 * base_nblocks_
    BY <1>3 DEF RoomForAll
  <2> QED BY <1>1, <1>4, <1>5, <1>6, <1>7, <1>8, <2>1, AppendedComplete
<1> QED BY <1>2, <1>8 DEF Complete, Reports, HeldRun, Blocks

LEMMA InitCompleteInv == SinkInit => CompleteInv
<1> SUFFICES ASSUME SinkInit PROVE CompleteInv
  OBVIOUS
<1>1. SinkInv /\ AckerInv
  BY InitSinkInv DEF SinkInv
<1>2. ASSUME NEW b, HeldRun(b) PROVE FALSE
  <2>1. Received \subseteq 0 .. maxseen_ /\ next_ \notin Received
    BY <1>1, ReceivedFacts
  <2>2. next_ = 0 /\ maxseen_ = 0
    BY DEF SinkInit, AckerInit
  <2>3. Received = {}
    BY <2>1, <2>2
  <2> QED BY <1>2, <2>3 DEF HeldRun
<1>3. ackpkt = None
  BY DEF SinkInit
<1> QED BY <1>1, <1>2, <1>3 DEF CompleteInv, HistoryIsComplete, Complete, AckIsCurrent

LEMMA StepCompleteInv == CompleteInv /\ [SinkNext]_sinkVars => CompleteInv'
<1> SUFFICES ASSUME CompleteInv, [SinkNext]_sinkVars PROVE CompleteInv'
  OBVIOUS
<1>0. SinkInv /\ SinkInv' /\ AckerInv /\ AckerInv'
  BY StepSinkInv DEF CompleteInv, SinkInv
<1> SUFFICES ASSUME resets' = 0 PROVE HistoryIsComplete'
  BY <1>0 DEF CompleteInv
<1>1. ASSUME NEW pkt \in sinkConf.input, SinkRecv(pkt) PROVE HistoryIsComplete'
  <2>1. PICK seq : seq = pkt.seqno
    OBVIOUS
  <2>2. pkt \in Packets /\ seq \in Seqs /\ seq \in Nat /\ Update(seq) /\ resets = 0
    <3>1. sinkConf.input \subseteq Packets
      BY <1>0, SettingsFacts DEF SinkInv
    <3> QED BY <1>1, <2>1, <3>1, SeqsAssumption DEF Packets, SinkRecv
  <2>3. /\ Received' = Received \union {seq}
        /\ next_ <= next_' /\ \A i \in next_ .. next_' - 1 : Seen(i)'
    BY <1>0, <2>2, UpdateFacts
  <2>4. UNCHANGED <<base_nblocks_, sinkConf>>
    BY <1>1 DEF SinkRecv
  <2>5. CASE Delayed(pkt)
    <3>1. timer' = TRUE /\ sf_' = sf_
      BY <1>1, <2>5 DEF SinkRecv
    <3>2. ASSUME RoomForAll', NEW b \in Blocks, HeldRun(b)' PROVE Reports(sf_, b)
      <4>1. RoomForAll
        BY <2>4, <3>2 DEF RoomForAll
      <4>2. next_' \in Nat /\ seq = next_' - 1
        BY <1>0, <2>1, <2>5, ReceivedFactsNext DEF Delayed, Seqno
      <4>3. next_' < b[1] /\ b[1] \in Int /\ b[2] \in Int
        BY <3>2 DEF HeldRun
      <4>4. seq \notin Segments(b)
        BY <2>2, <4>2, <4>3 DEF Segments
      <4>5. HeldRun(b)
        BY <1>0, <2>2, <2>3, <3>2, <4>4, RunWasThere
      <4> QED BY <2>2, <4>1, <4>5 DEF CompleteInv, HistoryIsComplete, Complete
    <3>3. RoomForAll' => Complete(sf_)'
      BY <3>1, <3>2 DEF Complete, Reports, HeldRun, Blocks
    <3> QED BY <3>1, <3>3 DEF HistoryIsComplete, AckIsCurrent
  <2>6. CASE ~ Delayed(pkt)
    <3>1. Ack(pkt)
      BY <1>1, <2>6 DEF SinkRecv
    <3>2. ASSUME seq \notin Received PROVE \A i \in seq .. next_' - 1 : Seen(i)'
      BY <1>0, <2>2, <2>3, <3>2, NewIsScanned
    <3> QED BY <1>0, <2>1, <2>2, <2>3, <2>4, <3>1, <3>2, AckIsComplete
  <2> QED BY <2>5, <2>6
<1>2. CASE SinkTimeout
  <2>1. UNCHANGED <<ackerVars, base_nblocks_, resets, sinkConf>>
    BY <1>2 DEF SinkTimeout
  <2>2. Received' = Received /\ next_' = next_
    BY <2>1 DEF Received, Seen, Slot, ackerVars
  <2>3. save_ \in Packets /\ Ack(save_)
    <3>1. sinkConf.input \subseteq Packets /\ save_ \in sinkConf.input \union {None}
      BY <1>0, SettingsFacts DEF SinkInv, SinkTypeOK
    <3> QED BY <1>0, <1>2, <3>1 DEF SinkInv, HeldIsLast, SinkTimeout
  <2>4. save_.seqno \in Received /\ next_ \in Nat
    <3>1. save_.seqno = next_ - 1 /\ save_.seqno \in Nat
      BY <1>0, <1>2, <2>3, SeqsAssumption DEF SinkInv, HeldIsLast, Packets, SinkTimeout
    <3>2. 0 .. next_ - 1 \subseteq Received /\ next_ \in Nat
      BY <1>0, ReceivedFacts
    <3> QED BY <3>1, <3>2
  <2>5. Received' = Received \union {save_.seqno} /\ next_ <= next_'
    BY <2>2, <2>4
  <2> QED BY <1>0, <2>1, <2>3, <2>4, <2>5, AckIsComplete
<1>3. CASE SinkReset
  <2>1. resets \in Nat
    BY <1>0 DEF SinkInv, SinkTypeOK
  <2> QED BY <1>3, <2>1 DEF SinkReset
<1>4. ASSUME NEW n \in sinkConf.maxSackBlocks_, SetMaxSackBlocks(n) PROVE HistoryIsComplete'
  <2>1. Cardinality(sinkConf.maxSackBlocks_) # 1 /\ sinkConf' = sinkConf
    BY <1>4, OneSizeStays DEF SetMaxSackBlocks
  <2> QED BY <2>1 DEF HistoryIsComplete, RoomForAll
<1>5. CASE UNCHANGED sinkVars
  <2>1. Received' = Received /\ next_' = next_
    BY <1>5 DEF Received, Seen, Slot, ackerVars, sinkVars
  <2>2. HistoryIsComplete
    BY <1>5 DEF CompleteInv, sinkVars
  <2> QED BY <1>5, <2>1, <2>2 DEF HistoryIsComplete, RoomForAll, Complete, HeldRun, AckIsCurrent,
                                  Reports, Blocks, sinkVars
<1> QED BY <1>1, <1>2, <1>3, <1>4, <1>5 DEF SinkNext

LEMMA CompleteInvariant == SinkSpec => []CompleteInv
BY InitCompleteInv, StepCompleteInv, PTL DEF SinkSpec

-------------------------------------------------------------------------------
(* The theorems.                                                             *)

(* The sink's variables keep their types: the history never holds more       *)
(* blocks than fit in an ACK (SackStack::push), and every block of it names  *)
(* segments that the sender may use.                                         *)
THEOREM SinkIsTyped == SinkSpec => []SinkTypeOK
<1>1. SinkInv => SinkTypeOK
  BY DEF SinkInv
<1> QED BY <1>1, SinkInvariant, PTL

(* Every SACK block of an ACK names exactly what the sink holds, whatever    *)
(* the order of arrival, the size of the history and the delays              *)
(* (Sacker::append_ack).                                                     *)
THEOREM SinkReportsWhatItHolds == SinkSpec => []BlocksAreSound
<1>1. ASSUME SinkInv, AckIsCurrent, resets = 0, NEW i \in DOMAIN ackpkt.blocks,
             NEW b, b = ackpkt.blocks[i]
      PROVE  Sound(b)
  <2>1. ackpkt # None /\ ~ timer /\ HistoryIsTrue /\ AckerInv
    BY <1>1 DEF AckIsCurrent, SinkInv
  <2>2. ackpkt.blocks \in Seq(Int \X Int)
    BY <1>1, <2>1 DEF SinkInv, SinkTypeOK, AckPackets
  <2>3. HeldRun(b) /\ ackpkt.seqno = next_ - 1
    <3>1. i \in 1 .. Len(ackpkt.blocks)
      BY <1>1, <2>2
    <3> QED BY <1>1, <2>1, <3>1 DEF HistoryIsTrue
  <2>4. /\ \A s \in next_ .. maxseen_ + 1 : Seen(s) <=> s \in Received
        /\ next_ \in Nat /\ maxseen_ \in Nat /\ Received \subseteq 0 .. maxseen_
    BY <2>1, ReceivedFacts
  <2>5. /\ b[1] \in Int /\ b[2] \in Int /\ next_ < b[1] /\ b[1] < b[2]
        /\ \A s \in b[1] .. b[2] - 1 : s \in Received
        /\ b[1] - 1 \notin Received /\ b[2] \notin Received
    BY <2>3 DEF HeldRun
  <2>6. \A s \in b[1] .. b[2] - 1 : s \in next_ .. maxseen_ /\ s \in Received
    BY <2>4, <2>5
  <2>7. b[1] \in b[1] .. b[2] - 1
    BY <2>5
  <2>8. b[1] - 1 \in next_ .. maxseen_ + 1
    BY <2>4, <2>5, <2>6, <2>7
  <2>9. b[2] <= maxseen_ => b[2] \in next_ .. maxseen_ + 1
    BY <2>4, <2>5
  <2>10. /\ b[1] > ackpkt.seqno + 1
         /\ Segments(b) # {}
         /\ \A s \in Segments(b) : Seen(s) /\ s <= maxseen_
    BY <2>3, <2>4, <2>5, <2>6, <2>7 DEF Segments
  <2>11. ~ Seen(b[1] - 1) /\ (b[2] <= maxseen_ => ~ Seen(b[2]))
    BY <2>4, <2>5, <2>8, <2>9
  <2> QED BY <2>10, <2>11 DEF Sound
<1>2. SinkInv => BlocksAreSound
  BY <1>1 DEF BlocksAreSound, BlocksSound
<1> QED BY <1>2, SinkInvariant, PTL

(* The segment that triggers an ACK is in the first block of it, unless the  *)
(* cumulative ACK covers it (Sacker::append_ack).                            *)
THEOREM SinkReportsTrigger == SinkSpec => []FirstBlockIsTrigger
<1>1. SinkInv => FirstBlockIsTrigger
  BY DEF SinkInv
<1> QED BY <1>1, SinkInvariant, PTL

(* No segment is in two blocks of an ACK (Sacker::append_ack).               *)
THEOREM SinkBlocksAreDisjoint == SinkSpec => []BlocksAreDisjoint
<1>1. ASSUME SinkInv, AckIsCurrent, ~ sinkConf.generate_dsacks_, resets = 0,
             NEW i \in DOMAIN ackpkt.blocks, NEW j \in DOMAIN ackpkt.blocks, i # j
      PROVE  Segments(ackpkt.blocks[i]) \intersect Segments(ackpkt.blocks[j]) = {}
  <2>1. ackpkt # None /\ ~ timer /\ HistoryIsTrue /\ AckerInv
    BY <1>1 DEF AckIsCurrent, SinkInv
  <2>2. ackpkt.blocks \in Seq(Int \X Int)
    BY <1>1, <2>1 DEF SinkInv, SinkTypeOK, AckPackets
  <2>3. PICK a, b : a = ackpkt.blocks[i] /\ b = ackpkt.blocks[j]
    OBVIOUS
  <2>4. HeldRun(a) /\ HeldRun(b) /\ a # b
    <3>1. i \in 1 .. Len(ackpkt.blocks) /\ j \in 1 .. Len(ackpkt.blocks)
      <4>1. DOMAIN ackpkt.blocks = 1 .. Len(ackpkt.blocks)
        BY <2>2
      <4> QED BY <4>1
    <3>2. HeldRun(a) /\ HeldRun(b)
      BY <2>1, <2>3, <3>1 DEF HistoryIsTrue
    <3>3. Distinct(ackpkt.blocks)
      BY <1>1, <2>1 DEF HistoryIsTrue
    <3> QED BY <1>1, <2>3, <3>1, <3>2, <3>3 DEF Distinct
  <2>5. next_ \in Int
    BY <2>1, ReceivedFacts
  <2>6. \A s \in Segments(a) : s \in Int
    BY <2>4 DEF Segments, HeldRun
  <2>7. Segments(a) \intersect Segments(b) = {}
    BY <2>4, <2>5, <2>6, RunsAreMaximal
  <2> QED BY <2>3, <2>7
<1>2. SinkInv => BlocksAreDisjoint
  BY <1>1 DEF BlocksAreDisjoint
<1> QED BY <1>2, SinkInvariant, PTL

(* A sink without DSACK that keeps its history and has room for every run    *)
(* the sender can make reports all that it holds, whatever the order of      *)
(* arrival: no run is lost by the walk down the history or by push()         *)
(* (Sacker::append_ack).                                                     *)
THEOREM SinkReportsAllItHolds == SinkSpec => []AllHeldIsReported
<1>1. ASSUME CompleteInv, AckIsCurrent, resets = 0, RoomForAll, NEW s \in Held
      PROVE  \E i \in DOMAIN ackpkt.blocks : s \in Segments(ackpkt.blocks[i])
  <2>1. AckerInv /\ SinkTypeOK /\ Complete(ackpkt.blocks) /\ ackpkt # None
    BY <1>1 DEF CompleteInv, SinkInv, HistoryIsComplete, AckIsCurrent
  <2>2. /\ \A i \in next_ .. maxseen_ + 1 : Seen(i) <=> i \in Received
        /\ next_ \in Nat /\ maxseen_ \in Nat /\ next_ \notin Received
    BY <2>1, ReceivedFacts
  <2>3. s \in Received /\ s > next_
    BY <1>1, <2>2 DEF Held
  <2>4. PICK b : HeldRun(b) /\ s \in Segments(b)
    BY <2>1, <2>3, RecentBlockIsRun
  <2>5. b \in Blocks
    BY <2>1, <2>4, RunIsBlock
  <2>6. PICK j \in 1 .. Len(ackpkt.blocks) : ackpkt.blocks[j] = b
    BY <2>1, <2>4, <2>5 DEF Complete, Reports
  <2>7. DOMAIN ackpkt.blocks = 1 .. Len(ackpkt.blocks)
    BY <2>1 DEF SinkTypeOK, AckPackets
  <2> QED BY <2>4, <2>6, <2>7
<1>2. CompleteInv => AllHeldIsReported
  BY <1>1 DEF AllHeldIsReported, RoomForAll
<1> QED BY <1>2, CompleteInvariant, PTL

(* The mark of a segment whose ACK was delayed is echoed by the ACK that     *)
(* answers it, whatever the segment that triggers it says (TcpSink::ack).    *)
THEOREM SinkEchoesHeldMark == SinkSpec => HeldMarkIsEchoed
<1> DEFINE A == save_ # None /\ save_' = None /\ resets' = resets /\ save_.ect /\ save_.ce
                  => ackpkt' # None /\ ackpkt'.ecnecho
<1>1. ASSUME SinkInv, SinkInv', SinkNext, save_ # None, save_' = None, resets' = resets,
             save_.ect, save_.ce
      PROVE  ackpkt' # None /\ ackpkt'.ecnecho
  <2>1. ASSUME NEW pkt, Ack(pkt) PROVE ackpkt'.ecnecho
    <3>1. save_ \in Acked(pkt)
      BY <1>1 DEF Acked
    <3> QED BY <1>1, <2>1, <3>1 DEF Ack
  <2>2. ASSUME NEW pkt \in sinkConf.input, SinkRecv(pkt)
        PROVE  ackpkt' # None /\ ackpkt'.ecnecho
    <3>1. pkt # None
      BY <1>1, <2>2, SettingsFacts, NoneAssumption DEF SinkInv
    <3>2. ~ Delayed(pkt) /\ Ack(pkt)
      BY <1>1, <2>2, <3>1 DEF SinkRecv
    <3> QED BY <1>1, <2>1, <2>2, <3>2, RecvSinkInv
  <2>3. CASE SinkTimeout
    <3>1. Ack(save_)
      BY <1>1, <2>3 DEF SinkTimeout
    <3> QED BY <1>1, <2>1, <2>3, <3>1, TimeoutSinkInv
  <2>4. CASE SinkReset
    <3>1. resets \in Int
      BY <1>1 DEF SinkInv, SinkTypeOK
    <3> QED BY <1>1, <2>4, <3>1 DEF SinkReset
  <2>5. ASSUME NEW n, SetMaxSackBlocks(n) PROVE FALSE
    BY <1>1, <2>5 DEF SetMaxSackBlocks
  <2> QED BY <1>1, <2>2, <2>3, <2>4, <2>5 DEF SinkNext
<1>2. SinkInv /\ SinkInv' /\ [SinkNext]_sinkVars => [A]_sinkVars
  BY <1>1
<1> QED BY <1>2, SinkInvariant, PTL DEF SinkSpec, HeldMarkIsEchoed
===============================================================================
