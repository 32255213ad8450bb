---------------------------- MODULE MultiPathProofs -----------------------------
(***************************************************************************)
(* Proofs about the multipath classifier (module MultiPath), for every     *)
(* number of slots and links, every setting and every set of headers.      *)
(*                                                                         *)
(* The scans end at a link because the last slot in use always has one,    *)
(* and because a scan that gives up has been round all the slots.  Paths   *)
(* are kept because a scan has one end, which the slots and the header     *)
(* determine: the history is described by the slots as they are now.       *)
(***************************************************************************)
EXTENDS MultiPath, FiniteSetTheorems, TLAPS

(* A wrapped slot is in use or lies before one that is.                    *)
LEMMA WrapInRange ==
  ASSUME TypeOK, maxslot_ >= 0, NEW k \in Nat
  PROVE  Wrap(k) \in 0 .. maxslot_ /\ Wrap(k) \in Slots
BY SlotsAssumption DEF Wrap, TypeOK, IsLastSlot, Slots

(* A slot up to the last one is its own wrapping.                          *)
LEMMA WrapIdentity ==
  ASSUME TypeOK, maxslot_ >= 0, NEW k \in 0 .. maxslot_
  PROVE  Wrap(k) = k
BY SlotsAssumption DEF Wrap, TypeOK, IsLastSlot, Slots

(* A scan stays in the array.                                              *)
LEMMA ScanInRange ==
  ASSUME TypeOK, maxslot_ >= 0, NEW start \in Slots, NEW k \in Steps
  PROVE  Scan(start)[k] \in Slots
<1>1. k \in Nat /\ start + k \in Nat
  BY DEF Steps, TypeOK, IsLastSlot, Slots
<1> QED BY <1>1, WrapInRange DEF Scan

(* A scan that returns to its start has been round all the slots.          *)
LEMMA RoundTrip ==
  ASSUME TypeOK, maxslot_ >= 0, NEW start \in Nat, NEW k \in Nat,
         Wrap(start + k + 1) = start
  PROVE  start <= maxslot_ /\ k >= maxslot_
<1> DEFINE n == maxslot_ + 1
           q == (start + k + 1) \div n
<1>1. n \in Nat \ {0}
  BY DEF TypeOK, IsLastSlot, Slots
<1>2. (start + k + 1) % n = start
  BY DEF Wrap
<1>3. start < n
  BY <1>1, <1>2
<1>4. q \in Int /\ start + k + 1 = (n * q) + start
  BY <1>1, <1>2
<1> HIDE DEF n, q
<1>5. k + 1 = n * q
  BY <1>1, <1>4
<1>6. q >= 1
  BY <1>1, <1>4, <1>5
<1>7. n * q >= n
  BY <1>1, <1>4, <1>6
<1>8. k + 1 >= n
  BY <1>5, <1>7
<1> QED BY <1>3, <1>8 DEF n, TypeOK, IsLastSlot, Slots

-------------------------------------------------------------------------------
(* Type correctness.                                                       *)

(* An empty slot has a place among the empty ones.                         *)
LEMMA RankPositive ==
  ASSUME NEW s \in Slots, slot_[s] = None
  PROVE  Rank(s) \in Nat \ {0}
<1> DEFINE T == {t \in 0 .. s : slot_[t] = None}
<1>1. IsFiniteSet(0 .. s)
  BY FS_Interval DEF Slots
<1>2. IsFiniteSet(T)
  BY <1>1, FS_Subset
<1>3. s \in T
  BY DEF Slots
<1>4. Cardinality(T) \in Nat /\ Cardinality(T) # 0
  BY <1>2, <1>3, FS_CardinalityType, FS_EmptySet
<1> QED BY <1>4 DEF Rank

(* A classified packet leaves the state well typed.                        *)
LEMMA ForwardType ==
  ASSUME TypeOK, NEW pkt \in Packets, NEW link \in Links \union {None},
         Forward(pkt, link), ns_' \in Slots
  PROVE  TypeOK'
BY DEF TypeOK, Forward, IsLastSlot

(* A scan that stays in the array ends in it.                               *)
LEMMA FoundInRange ==
  ASSUME TypeOK, NEW scan \in [Steps -> Slots], NEW givesUp, NEW cl \in Found(scan, givesUp)
  PROVE  cl \in Slots /\ slot_[cl] \in Links \union {None}
BY DEF Found, TypeOK

(* A scan is a function into the slots.                                     *)
LEMMA ScanType ==
  ASSUME TypeOK, maxslot_ >= 0, NEW start \in Slots
  PROVE  Scan(start) \in [Steps -> Slots]
BY ScanInRange DEF Scan

(* A packet is forwarded to a link or dropped, and the state stays well     *)
(* typed.                                                                   *)
LEMMA ClassifyType ==
  ASSUME TypeOK, NEW pkt \in Packets, Classify(pkt)
  PROVE  TypeOK' /\ \E link \in Links \union {None} : Forward(pkt, link)
<1>1. /\ pkt.linkID \in Slots /\ pkt.linkID + 1 \in Slots
      /\ maxslot_ >= 0
  BY SlotsAssumption, PacketsAssumption DEF Classify, CanClassify, Slots
<1>0. maxslot_ \in Slots
  BY <1>1 DEF TypeOK, IsLastSlot
<1>2. \A s \in Slots : Scan(s) \in [Steps -> Slots]
  BY <1>1, ScanType
<1>3. \A s \in Slots : s \in Nat /\ Wrap(s + 1) \in Slots
  BY <1>1, WrapInRange DEF Slots
<1>4. CASE Selective(pkt)
  <2>1. PICK cl \in Found(Scan(pkt.linkID),
                     GivesUp(pkt.linkID, IF pkt.linkID = 0 THEN maxslot_ ELSE pkt.linkID - 1)) :
          /\ ns_' = IF slot_[pkt.linkID] # None THEN pkt.linkID ELSE Wrap(cl + 1)
          /\ Forward(pkt, slot_[cl])
    BY <1>4 DEF Selective
  <2>2. cl \in Slots /\ slot_[cl] \in Links \union {None}
    BY <1>1, <1>2, FoundInRange
  <2> QED BY <1>1, <1>0, <1>3, <2>1, <2>2, ForwardType
<1>5. CASE RoundRobin(pkt)
  <2>1. PICK cl \in Found(Scan(ns_), GivesUp(ns_, ns_)) :
          ns_' = Wrap(cl + 1) /\ Forward(pkt, slot_[cl])
    BY <1>5 DEF RoundRobin
  <2>2. cl \in Slots /\ slot_[cl] \in Links \union {None}
    BY <1>2, FoundInRange DEF TypeOK
  <2> QED BY <1>3, <2>1, <2>2, ForwardType
<1>6. CASE FlowcellFullFailure(pkt)
  <2> DEFINE scan == [Scan(pkt.linkID) EXCEPT ![1] = pkt.linkID + 1]
  <2>1. PICK cl \in Found(scan, GivesUp(pkt.linkID, pkt.linkID) \ {0}) :
          /\ ns_' = IF cl = pkt.linkID THEN pkt.linkID + 1 ELSE Wrap(cl + 1)
          /\ Forward(pkt, slot_[cl])
    BY <1>6 DEF FlowcellFullFailure
  <2>2. scan \in [Steps -> Slots]
    BY <1>1, <1>2
  <2>3. cl \in Slots /\ slot_[cl] \in Links \union {None}
    BY <2>2, FoundInRange
  <2> QED BY <1>1, <1>3, <2>1, <2>3, ForwardType
<1>7. CASE Flowcell(pkt)
  <2>1. PICK cl \in Found(Scan(pkt.linkID), {}) : Forward(pkt, slot_[cl])
    BY <1>7 DEF Flowcell
  <2>2. cl \in Slots /\ slot_[cl] \in Links \union {None}
    BY <1>1, <1>2, FoundInRange
  <2> QED BY <1>1, <1>7, <2>1, <2>2, ForwardType DEF Flowcell
<1>8. CASE Ecmp(pkt)
  <2>1. PICK ttl \in TTLs :
          \E cl \in Found(Scan(Wrap(HashString[<<pkt.fid, ttl>>])), {}) : Forward(pkt, slot_[cl])
    BY <1>8, PacketsAssumption DEF Ecmp
  <2>2. PICK cl \in Found(Scan(Wrap(HashString[<<pkt.fid, ttl>>])), {}) : Forward(pkt, slot_[cl])
    BY <2>1
  <2>3. Wrap(HashString[<<pkt.fid, ttl>>]) \in Slots
    BY <1>1, PacketsAssumption, WrapInRange
  <2>4. cl \in Slots /\ slot_[cl] \in Links \union {None}
    BY <1>2, <2>3, FoundInRange
  <2>5. ns_' \in Slots
    BY <1>8 DEF Ecmp, TypeOK
  <2> QED BY <2>2, <2>4, <2>5, ForwardType
<1>9. CASE NoScheme(pkt)
  <2>1. PICK link \in Links \union {None} : Forward(pkt, link)
    BY <1>9 DEF NoScheme
  <2>2. ns_' \in Slots
    BY <1>9 DEF NoScheme, TypeOK
  <2> QED BY <2>1, <2>2, ForwardType
<1> QED BY <1>4, <1>5, <1>6, <1>7, <1>8, <1>9 DEF Classify

(* Every step keeps the types.                                              *)
LEMMA StepType == TypeOK /\ [Next]_vars => TypeOK'
<1> SUFFICES ASSUME TypeOK, [Next]_vars PROVE TypeOK'
  OBVIOUS
<1>1. ASSUME NEW ifs \in IfLists, AddRoutes(ifs) PROVE TypeOK'
  <2>1. PICK n \in 1 .. Cardinality(Links) : ifs \in [1 .. n -> Links]
    BY <1>1 DEF IfLists
  <2>2. n \in Nat /\ Len(ifs) = n
    BY <2>1, SlotsAssumption, FS_CardinalityType
  <2>3. slot_' \in [Slots -> Links \union {None}]
    BY <1>1, <2>1, <2>2, RankPositive DEF AddRoutes, TypeOK
  <2> QED BY <1>1, <2>3 DEF AddRoutes, TypeOK, IsLastSlot
<1>2. ASSUME NEW ifs \in SUBSET Links, DeleteRoutes(ifs) PROVE TypeOK'
  BY <1>2 DEF DeleteRoutes, TypeOK, IsLastSlot
<1>3. ASSUME NEW pkt \in Packets, Classify(pkt) PROVE TypeOK'
  BY <1>3, ClassifyType
<1>4. CASE UNCHANGED vars
  BY <1>4 DEF vars, TypeOK, IsLastSlot
<1> QED BY <1>1, <1>2, <1>3, <1>4 DEF Next

(* The classifier's state is well typed, and its last slot in use has a    *)
(* link, however routes come and go.                                       *)
THEOREM MultiPathTypeOK == Spec => []TypeOK
<1>1. Init => TypeOK
  BY SlotsAssumption, FS_CardinalityType DEF Init, TypeOK, IsLastSlot, Slots
<1> QED BY <1>1, StepType, PTL DEF Spec

-------------------------------------------------------------------------------
(* The scans end at a link.                                                *)

(* A scan that takes the slots from start in order, and gives up only when *)
(* it has come back to start, ends at a link.                              *)
LEMMA ScanFindsLink ==
  ASSUME TypeOK, maxslot_ >= 0, NEW start \in Slots,
         NEW scan, \A i \in Steps : start + i <= maxslot_ => scan[i] = start + i,
         NEW givesUp \in SUBSET GivesUp(start, start), NEW cl \in Found(scan, givesUp)
  PROVE  slot_[cl] # None
<1>1. PICK k \in Steps :
        /\ cl = scan[k]
        /\ slot_[scan[k]] # None \/ k \in givesUp
        /\ \A h \in 0 .. k - 1 : slot_[scan[h]] = None
  BY DEF Found
<1>2. start \in Nat /\ k \in Nat /\ maxslot_ \in Nat
  BY DEF Steps, Slots, TypeOK, IsLastSlot
<1>3. CASE k \in givesUp
  <2>1. start <= maxslot_ /\ k >= maxslot_
    BY <1>2, <1>3, RoundTrip DEF GivesUp
  <2>2. maxslot_ - start \in Steps /\ start + (maxslot_ - start) = maxslot_
    BY <1>2, <2>1 DEF Steps
  <2>3. slot_[scan[maxslot_ - start]] # None
    BY <1>2, <2>2 DEF TypeOK, IsLastSlot
  <2>4. maxslot_ - start = k
    BY <1>1, <1>2, <2>1, <2>3
  <2> QED BY <1>1, <2>3, <2>4
<1> QED BY <1>1, <1>3

(* The scan of each scheme takes the slots from its start in order.        *)
LEMMA ScanInOrder ==
  ASSUME TypeOK, maxslot_ >= 0, NEW start \in Slots, NEW i \in Steps, start + i <= maxslot_
  PROVE  Scan(start)[i] = start + i
BY WrapIdentity DEF Scan, Steps, Slots

(* A packet of a scheme gets a link, unless its path has been selected.    *)
LEMMA ClassifyForwards ==
  ASSUME TypeOK, NEW pkt \in Packets, Classify(pkt), HasScheme(pkt), ~ IsSelected(pkt)
  PROVE  \E link \in Links : Forward(pkt, link)
<1>1. /\ maxslot_ >= 0
      /\ pkt.linkID \in Slots /\ pkt.linkID + 1 \in Slots
  BY SlotsAssumption, PacketsAssumption DEF Classify, CanClassify, Slots
<1>0. ns_ \in Slots /\ \A cl \in Slots : slot_[cl] \in Links \union {None}
  BY DEF TypeOK
<1>2. \A start \in Slots : \A givesUp : \A cl \in Found(Scan(start), givesUp) :
        slot_[cl] \in Links \union {None}
  BY <1>1, <1>0, ScanType DEF Found
<1>3. \A start \in Slots : \A givesUp \in SUBSET GivesUp(start, start) :
        \A cl \in Found(Scan(start), givesUp) : slot_[cl] \in Links
  BY <1>1, <1>2, ScanInOrder, ScanFindsLink
<1>4. ~ Selective(pkt)
  BY DEF Selective
<1>5. CASE RoundRobin(pkt)
  BY <1>3, <1>5, <1>0 DEF RoundRobin
<1>6. CASE FlowcellFullFailure(pkt)
  <2> DEFINE scan == [Scan(pkt.linkID) EXCEPT ![1] = pkt.linkID + 1]
  <2>1. PICK cl \in Found(scan, GivesUp(pkt.linkID, pkt.linkID) \ {0}) : Forward(pkt, slot_[cl])
    BY <1>6 DEF FlowcellFullFailure
  <2>2. scan \in [Steps -> Slots]
    BY <1>1, ScanType
  <2>3. \A i \in Steps : pkt.linkID + i <= maxslot_ => scan[i] = pkt.linkID + i
    BY <1>1, <2>2, ScanInOrder DEF Scan
  <2>4. slot_[cl] # None
    BY <1>1, <2>3, ScanFindsLink
  <2>5. slot_[cl] \in Links \union {None}
    BY <2>2, FoundInRange
  <2> QED BY <2>1, <2>4, <2>5
<1>7. CASE Flowcell(pkt)
  BY <1>1, <1>3, <1>7 DEF Flowcell
<1>8. CASE Ecmp(pkt)
  <2>1. \A ttl \in TTLs : Wrap(HashString[<<pkt.fid, ttl>>]) \in Slots
    BY <1>1, PacketsAssumption, WrapInRange
  <2>2. PICK ttl \in TTLs :
          \E cl \in Found(Scan(Wrap(HashString[<<pkt.fid, ttl>>])), {}) : Forward(pkt, slot_[cl])
    BY <1>8, PacketsAssumption DEF Ecmp
  <2> QED BY <1>3, <2>1, <2>2
<1>9. ~ NoScheme(pkt)
  BY DEF NoScheme, HasScheme, IsFlowcell
<1> QED BY <1>4, <1>5, <1>6, <1>7, <1>8, <1>9 DEF Classify

(* Every packet of a scheme leaves by a link whenever there is one, unless *)
(* the sender has selected its path, however routes come and go.           *)
THEOREM MultiPathTakesLink == Spec => []LiveLinkIsTaken
<1>1. Init => LiveLinkIsTaken
  BY DEF Init, LiveLinkIsTaken
<1>2. TypeOK /\ LiveLinkIsTaken /\ [Next]_vars => LiveLinkIsTaken'
  <2> SUFFICES ASSUME TypeOK, LiveLinkIsTaken, [Next]_vars PROVE LiveLinkIsTaken'
    OBVIOUS
  <2>1. ASSUME NEW ifs \in IfLists, AddRoutes(ifs) PROVE LiveLinkIsTaken'
    BY <2>1 DEF AddRoutes, LiveLinkIsTaken
  <2>2. ASSUME NEW ifs \in SUBSET Links, DeleteRoutes(ifs) PROVE LiveLinkIsTaken'
    BY <2>2 DEF DeleteRoutes, LiveLinkIsTaken
  <2>3. ASSUME NEW pkt \in Packets, Classify(pkt) PROVE LiveLinkIsTaken'
    <3>1. PICK link \in Links \union {None} :
            /\ Forward(pkt, link)
            /\ HasScheme(pkt) /\ ~ IsSelected(pkt) => link # None
      BY <2>3, ClassifyForwards, ClassifyType, SlotsAssumption
    <3>2. /\ log \in Seq([pkt : Packets, link : Links \union {None}])
          /\ log' = Append(log, [pkt |-> pkt, link |-> link])
          /\ conf' = conf
      BY <3>1 DEF Forward, TypeOK
    <3>3. \A i \in DOMAIN log' :
            \/ i \in DOMAIN log /\ log'[i] = log[i]
            \/ log'[i].pkt = pkt /\ log'[i].link = link
      BY <3>2
    <3> QED BY <3>1, <3>2, <3>3 DEF LiveLinkIsTaken, HasScheme, IsSelected, IsFlowcell, IsHashed
  <2>4. CASE UNCHANGED vars
    BY <2>4 DEF vars, LiveLinkIsTaken, HasScheme, IsSelected, IsFlowcell, IsHashed
  <2> QED BY <2>1, <2>2, <2>3, <2>4 DEF Next
<1> QED BY <1>1, <1>2, MultiPathTypeOK, PTL DEF Spec

-------------------------------------------------------------------------------
(* Paths are kept.                                                         *)

(* The end of the scan for a pinned packet.                                *)
Path(pkt) ==
  LET linkID == pkt.linkID IN
  IF IsSelected(pkt)
  THEN Found(Scan(linkID), GivesUp(linkID, IF linkID = 0 THEN maxslot_ ELSE linkID - 1))
  ELSE IF ~ IsFlowcell THEN Found(Scan(Wrap(HashString[<<pkt.fid, pkt.ttl>>])), {})
  ELSE IF conf.failureCase_ = 2
  THEN Found([Scan(linkID) EXCEPT ![1] = linkID + 1], GivesUp(linkID, linkID) \ {0})
  ELSE Found(Scan(linkID), {})

(* The history is what the slots, as they are, would say again.            *)
LogIsPath ==
  \A i \in DOMAIN log :
    IsPinned(log[i].pkt) => \E cl \in Path(log[i].pkt) : log[i].link = slot_[cl]

(* A scan has at most one end.                                             *)
LEMMA FoundIsOne ==
  ASSUME TypeOK, NEW scan, NEW givesUp,
         NEW c1 \in Found(scan, givesUp), NEW c2 \in Found(scan, givesUp)
  PROVE  c1 = c2
<1> DEFINE Ends(k) == /\ slot_[scan[k]] # None \/ k \in givesUp
                      /\ \A h \in 0 .. k - 1 : slot_[scan[h]] = None /\ h \notin givesUp
<1>1. PICK k1 \in Steps : c1 = scan[k1] /\ Ends(k1)
  BY DEF Found
<1>2. PICK k2 \in Steps : c2 = scan[k2] /\ Ends(k2)
  BY DEF Found
<1>3. k1 \in Nat /\ k2 \in Nat
  BY DEF Steps, TypeOK, IsLastSlot, Slots
<1>4. ~ k1 < k2
  BY <1>1, <1>2, <1>3
<1>5. ~ k2 < k1
  BY <1>1, <1>2, <1>3
<1> QED BY <1>1, <1>2, <1>3, <1>4, <1>5

(* So a pinned packet has at most one.                                     *)
LEMMA PathIsOne ==
  ASSUME TypeOK, NEW pkt, NEW c1 \in Path(pkt), NEW c2 \in Path(pkt)
  PROVE  c1 = c2
<1> HIDE DEF TypeOK, Found
<1> QED BY FoundIsOne DEF Path

(* A pinned packet leaves by the end of its scan.                          *)
LEMMA ClassifyTakesPath ==
  ASSUME TypeOK, NEW pkt \in Packets, Classify(pkt), IsPinned(pkt)
  PROVE  \E cl \in Path(pkt) : Forward(pkt, slot_[cl])
<1>2. CASE Selective(pkt)
  BY <1>2 DEF Selective, Path
<1>3. ~ RoundRobin(pkt)
  BY DEF RoundRobin, IsPinned, IsFlowcell, IsHashed
<1>4. CASE FlowcellFullFailure(pkt)
  BY <1>4 DEF FlowcellFullFailure, Path, IsFlowcell, IsSelected
<1>5. CASE Flowcell(pkt)
  BY <1>5 DEF Flowcell, Path, IsFlowcell, IsSelected
<1>6. CASE Ecmp(pkt)
  <2>1. HasTTL(pkt)
    BY <1>6 DEF Ecmp, IsHashed, IsPinned, IsSelected, IsFlowcell
  <2>2. \E cl \in Found(Scan(Wrap(HashString[<<pkt.fid, pkt.ttl>>])), {}) :
          Forward(pkt, slot_[cl])
    BY <1>6, <2>1 DEF Ecmp
  <2> QED BY <1>6, <2>2 DEF Path, Ecmp, IsHashed, IsFlowcell, IsSelected
<1>7. ~ NoScheme(pkt)
  BY DEF NoScheme, IsPinned, IsSelected, IsFlowcell
<1> QED BY <1>2, <1>3, <1>4, <1>5, <1>6, <1>7 DEF Classify

(* Packets change no path.                                                 *)
LEMMA PathStays ==
  ASSUME slot_' = slot_, maxslot_' = maxslot_, conf' = conf, NEW pkt
  PROVE  Path(pkt)' = Path(pkt) /\ IsPinned(pkt)' = IsPinned(pkt)
BY DEF Path, Found, Scan, GivesUp, Steps, Wrap, IsPinned, IsSelected, IsFlowcell, IsHashed,
       HasTTL

(* A step adds a packet to the history that took its path, or empties it.  *)
LEMMA StepLogIsPath ==
  ASSUME TypeOK, LogIsPath, [Next]_vars
  PROVE  LogIsPath'
<1>1. ASSUME NEW ifs \in IfLists, AddRoutes(ifs) PROVE LogIsPath'
  BY <1>1 DEF AddRoutes, LogIsPath
<1>2. ASSUME NEW ifs \in SUBSET Links, DeleteRoutes(ifs) PROVE LogIsPath'
  BY <1>2 DEF DeleteRoutes, LogIsPath
<1>3. ASSUME NEW pkt \in Packets, Classify(pkt) PROVE LogIsPath'
  <2>1. PICK link \in Links \union {None} :
          /\ Forward(pkt, link)
          /\ IsPinned(pkt) => \E cl \in Path(pkt) : link = slot_[cl]
    <3>1. CASE IsPinned(pkt)
      <4>1. PICK cl \in Path(pkt) : Forward(pkt, slot_[cl])
        BY <1>3, <3>1, ClassifyTakesPath
      <4>2. PICK link \in Links \union {None} : Forward(pkt, link)
        BY <1>3, ClassifyType
      <4>3. link = slot_[cl]
        <5>1. log' = Append(log, [pkt |-> pkt, link |-> link])
          BY <4>2 DEF Forward
        <5>2. log' = Append(log, [pkt |-> pkt, link |-> slot_[cl]])
          BY <4>1 DEF Forward
        <5> QED BY <5>1, <5>2 DEF TypeOK
      <4> QED BY <4>1, <4>2, <4>3
    <3>2. CASE ~ IsPinned(pkt)
      BY <1>3, <3>2, ClassifyType
    <3> QED BY <3>1, <3>2
  <2>2. slot_' = slot_ /\ maxslot_' = maxslot_ /\ conf' = conf
    BY <2>1 DEF Forward
  <2>3. \A i \in DOMAIN log' :
          \/ i \in DOMAIN log /\ log'[i] = log[i]
          \/ log'[i].pkt = pkt /\ log'[i].link = link
    BY <2>1 DEF Forward, TypeOK
  <2>4. ASSUME NEW i \in DOMAIN log', NEW p, p = log'[i].pkt, IsPinned(p)
        PROVE  \E cl \in Path(p) : log'[i].link = slot_[cl]
    BY <2>1, <2>3, <2>4 DEF LogIsPath
  <2>5. ASSUME NEW i \in DOMAIN log', NEW p, p = log'[i].pkt, IsPinned(p)'
        PROVE  \E cl \in Path(p)' : log'[i].link = slot_'[cl]
    BY <2>2, <2>4, <2>5, PathStays
  <2> QED BY <2>5 DEF LogIsPath
<1>4. CASE UNCHANGED vars
  <2>1. slot_' = slot_ /\ maxslot_' = maxslot_ /\ conf' = conf /\ log' = log
    BY <1>4 DEF vars
  <2> QED BY <2>1, PathStays DEF LogIsPath
<1> QED BY <1>1, <1>2, <1>3, <1>4 DEF Next

(* While the routes stay, the packets of a flowcell, those with a selected *)
(* path and those hashed with their ttl keep their path, whatever other    *)
(* packets do to the classifier in between.                                *)
THEOREM MultiPathKeepsPath == Spec => []SamePathIsKept
<1>1. Init => LogIsPath
  BY DEF Init, LogIsPath
<1>2. TypeOK /\ LogIsPath /\ [Next]_vars => LogIsPath'
  BY StepLogIsPath
<1>3. TypeOK /\ LogIsPath => SamePathIsKept
  <2> SUFFICES ASSUME TypeOK, LogIsPath, NEW i \in DOMAIN log, NEW j \in DOMAIN log,
                      log[i].pkt = log[j].pkt, IsPinned(log[i].pkt)
               PROVE  log[i].link = log[j].link
    BY DEF SamePathIsKept
  <2>1. PICK c1 \in Path(log[i].pkt) : log[i].link = slot_[c1]
    BY DEF LogIsPath
  <2>2. PICK c2 \in Path(log[i].pkt) : log[j].link = slot_[c2]
    BY DEF LogIsPath
  <2> QED BY <2>1, <2>2, PathIsOne
<1> QED BY <1>1, <1>2, <1>3, MultiPathTypeOK, PTL DEF Spec

-------------------------------------------------------------------------------
(* Round robin is even.                                                    *)

(* No two slots have one link.                                             *)
SlotsDiffer ==
  \A s, t \in Slots : slot_[s] = slot_[t] /\ slot_[s] # None => s = t

IsSprayed == conf.packetSpraying_ /\ ~ conf.selectiveSpraying_

(* How many slots the next scan takes before this one.                     *)
Turn(s) == IF s >= ns_ THEN s - ns_ ELSE (s - ns_) + (maxslot_ + 1)

(* A packet has sent the scan back into the slots in use, and a link whose *)
(* turn is later has had as many packets as one whose turn is earlier, or  *)
(* one more.                                                               *)
TurnsAreEven ==
  IsSprayed =>
    /\ log # <<>> => ns_ <= maxslot_
    /\ \A s, t \in Slots :
         slot_[s] # None /\ slot_[t] # None /\ Turn(s) < Turn(t) =>
           SentOn(slot_[s]) <= SentOn(slot_[t]) /\ SentOn(slot_[t]) <= SentOn(slot_[s]) + 1

EvenInv == SlotsDiffer /\ TurnsAreEven

(* The lists of add-routes have no link twice.                             *)
LEMMA IfsDiffer ==
  ASSUME NEW ifs \in IfLists
  PROVE  /\ Len(ifs) \in Nat /\ DOMAIN ifs = 1 .. Len(ifs)
         /\ \A i \in DOMAIN ifs : ifs[i] \in Links
         /\ \A i, j \in DOMAIN ifs : ifs[i] = ifs[j] => i = j
<1>1. PICK n \in 1 .. Cardinality(Links) :
        ifs \in [1 .. n -> Links] /\ Cardinality({ifs[i] : i \in 1 .. n}) = n
  BY DEF IfLists
<1>2. n \in Nat /\ Len(ifs) = n /\ DOMAIN ifs = 1 .. n
  BY <1>1, SlotsAssumption, FS_CardinalityType
<1> DEFINE T == {ifs[i] : i \in 1 .. n}
<1>3. IsFiniteSet(1 .. n) /\ Cardinality(1 .. n) = n
  BY <1>2, FS_Interval
<1>4. ifs \in Surjection(1 .. n, T)
  BY <1>1 DEF Surjection
<1>5. ifs \in Injection(1 .. n, T)
  <2>1. Cardinality(1 .. n) = Cardinality(T)
    BY <1>1, <1>3
  <2> HIDE DEF T
  <2> QED BY <1>3, <1>4, <2>1, FS_SurjSameCardinalityImpliesInj
<1>6. \A i, j \in 1 .. n : ifs[i] = ifs[j] => i = j
  BY <1>2, <1>5 DEF Injection, IsInjective
<1> QED BY <1>1, <1>2, <1>6

(* Empty slots have places of their own.                                   *)
LEMMA RanksDiffer ==
  ASSUME NEW s \in Slots, NEW t \in Slots, s < t, slot_[t] = None
  PROVE  Rank(s) < Rank(t)
<1> DEFINE S == {h \in 0 .. s : slot_[h] = None}
           T == {h \in 0 .. t : slot_[h] = None}
<1>1. IsFiniteSet(0 .. t)
  BY FS_Interval DEF Slots
<1>2. IsFiniteSet(T)
  BY <1>1, FS_Subset
<1>3. S \in SUBSET T /\ t \in T /\ t \notin S
  BY DEF Slots
<1>4. IsFiniteSet(S) /\ Cardinality(S) <= Cardinality(T) /\ Cardinality(S) # Cardinality(T)
  <2> HIDE DEF S, T
  <2> QED BY <1>2, <1>3, FS_Subset
<1>5. Cardinality(S) \in Nat /\ Cardinality(T) \in Nat
  BY <1>2, <1>4, FS_CardinalityType
<1>6. Cardinality(S) < Cardinality(T)
  <2> HIDE DEF S, T
  <2> QED BY <1>4, <1>5
<1> QED BY <1>6 DEF Rank

(* Routing never puts one link in two slots.                               *)
LEMMA StepSlotsDiffer ==
  ASSUME TypeOK, SlotsDiffer, [Next]_vars
  PROVE  SlotsDiffer'
<1>1. ASSUME NEW ifs \in IfLists, AddRoutes(ifs) PROVE SlotsDiffer'
  <2> SUFFICES ASSUME NEW s \in Slots, NEW t \in Slots, s < t,
                      slot_'[s] = slot_'[t], slot_'[s] # None
               PROVE  FALSE
    BY SlotsAssumption DEF SlotsDiffer, Slots
  <2> DEFINE Fills(h) == slot_[h] = None /\ Rank(h) <= Len(ifs)
  <2>1. \A h \in Slots : slot_'[h] = IF Fills(h) THEN ifs[Rank(h)] ELSE slot_[h]
    BY <1>1 DEF AddRoutes
  <2>2. \A h \in Slots : Fills(h) => Rank(h) \in DOMAIN ifs
    BY IfsDiffer, RankPositive
  <2>3. \A h \in Slots : slot_[h] # None => slot_[h] \in Installed
    BY DEF Installed
  <2>4. \A i \in DOMAIN ifs : ifs[i] \notin Installed
    BY <1>1 DEF AddRoutes
  <2>5. CASE Fills(s) /\ Fills(t)
    <3>1. Rank(s) < Rank(t)
      BY <2>5, RanksDiffer
    <3>2. Rank(s) \in Nat /\ Rank(t) \in Nat
      BY <2>5, RankPositive
    <3>3. ifs[Rank(s)] = ifs[Rank(t)]
      BY <2>1, <2>5
    <3>4. Rank(s) = Rank(t)
      BY <2>2, <2>5, <3>3, IfsDiffer
    <3> QED BY <3>1, <3>2, <3>4
  <2>6. CASE ~ Fills(s) /\ Fills(t)
    BY <2>1, <2>2, <2>3, <2>4, <2>6
  <2>7. CASE Fills(s) /\ ~ Fills(t)
    <3>1. slot_'[t] = slot_[t] /\ slot_'[s] = ifs[Rank(s)]
      BY <2>1, <2>7
    <3> QED BY <2>2, <2>3, <2>4, <2>7, <3>1
  <2>8. CASE ~ Fills(s) /\ ~ Fills(t)
    <3>1. slot_[s] = slot_[t] /\ slot_[s] # None
      BY <2>1, <2>8
    <3>2. s = t
      BY <3>1 DEF SlotsDiffer
    <3> QED BY <3>2 DEF Slots
  <2> HIDE DEF Fills
  <2> QED BY <2>5, <2>6, <2>7, <2>8
<1>2. ASSUME NEW ifs \in SUBSET Links, DeleteRoutes(ifs) PROVE SlotsDiffer'
  BY <1>2 DEF DeleteRoutes, SlotsDiffer
<1>3. ASSUME NEW pkt \in Packets, Classify(pkt) PROVE SlotsDiffer'
  BY <1>3, ClassifyType DEF Forward, SlotsDiffer
<1>4. CASE UNCHANGED vars
  BY <1>4 DEF vars, SlotsDiffer
<1> QED BY <1>1, <1>2, <1>3, <1>4 DEF Next

(* Before a packet has passed, no link has had one.                        *)
LEMMA NoneSent ==
  ASSUME log = <<>>, NEW link
  PROVE  SentOn(link) = 0
<1>1. {i \in DOMAIN log : log[i].link = link} = {}
  OBVIOUS
<1> QED BY <1>1, FS_EmptySet DEF SentOn

(* The packets of a link are counted.                                      *)
LEMMA SentIsNat ==
  ASSUME TypeOK, NEW link
  PROVE  SentOn(link) \in Nat
<1>1. Len(log) \in Nat /\ DOMAIN log = 1 .. Len(log)
  BY DEF TypeOK
<1>2. IsFiniteSet(1 .. Len(log))
  BY <1>1, FS_Interval
<1>3. IsFiniteSet({i \in DOMAIN log : log[i].link = link})
  BY <1>1, <1>2, FS_Subset
<1> QED BY <1>3, FS_CardinalityType DEF SentOn

(* A packet counts for its link alone.                                     *)
LEMMA OneSent ==
  ASSUME TypeOK, NEW pkt \in Packets, NEW to \in Links, Forward(pkt, to), NEW link
  PROVE  /\ SentOn(link) \in Nat
         /\ SentOn(link)' = IF link = to THEN SentOn(link) + 1 ELSE SentOn(link)
<1> DEFINE n == Len(log)
           S == {i \in DOMAIN log : log[i].link = link}
           T == {i \in DOMAIN log' : log'[i].link = link}
<1>1. n \in Nat /\ DOMAIN log = 1 .. n
  BY DEF TypeOK
<1>2. log' = Append(log, [pkt |-> pkt, link |-> to])
  BY DEF Forward
<1>3. DOMAIN log' = 1 .. (n + 1) /\ log'[n + 1].link = to /\ \A i \in 1 .. n : log'[i] = log[i]
  BY <1>1, <1>2 DEF TypeOK
<1>4. IsFiniteSet(S)
  <2>1. IsFiniteSet(1 .. n)
    BY <1>1, FS_Interval
  <2> QED BY <1>1, <2>1, FS_Subset
<1>5. T = IF link = to THEN S \union {n + 1} ELSE S
  BY <1>1, <1>3
<1>6. n + 1 \notin S
  BY <1>1
<1>7. Cardinality(S) \in Nat
  BY <1>4, FS_CardinalityType
<1>8. Cardinality(T) = IF link = to THEN Cardinality(S) + 1 ELSE Cardinality(S)
  <2> HIDE DEF S, T
  <2> QED BY <1>4, <1>5, <1>6, FS_AddElement
<1> QED BY <1>7, <1>8 DEF SentOn

(* One round of the slots, wrapped.                                        *)
LEMMA WrapOnce ==
  ASSUME TypeOK, maxslot_ >= 0, NEW x \in 0 .. (2 * maxslot_) + 1
  PROVE  Wrap(x) = IF x <= maxslot_ THEN x ELSE x - (maxslot_ + 1)
<1> DEFINE n == maxslot_ + 1
           q == x \div n
           r == x % n
<1>1. n \in Nat \ {0} /\ maxslot_ = n - 1 /\ x \in Nat
  BY DEF TypeOK, IsLastSlot, Slots
<1>3. Wrap(x) = r
  BY DEF Wrap
<1> HIDE DEF n
<1>2. q \in Int /\ r \in 0 .. n - 1 /\ x = (n * q) + r
  BY <1>1
<1> HIDE DEF q, r
<1>4. x < 2 * n
  BY <1>1
<1>5. q < 2
  <2> SUFFICES ASSUME q >= 2 PROVE FALSE
    BY <1>2
  <2>1. n * q >= n * 2
    BY <1>1, <1>2
  <2> QED BY <1>1, <1>2, <1>4, <2>1
<1>6. q >= 0
  <2> SUFFICES ASSUME q <= -1 PROVE FALSE
    BY <1>2
  <2>1. n * q <= n * (-1)
    BY <1>1, <1>2
  <2> QED BY <1>1, <1>2, <2>1
<1>7. q = 0 \/ q = 1
  BY <1>2, <1>5, <1>6
<1>8. CASE q = 0
  BY <1>1, <1>2, <1>3, <1>8
<1>9. CASE q = 1
  BY <1>1, <1>2, <1>3, <1>9
<1> QED BY <1>7, <1>8, <1>9

(* A scan that starts at a slot in use ends at the link whose turn it is.  *)
LEMMA FirstInTurn ==
  ASSUME TypeOK, maxslot_ >= 0, ns_ <= maxslot_,
         NEW cl \in Found(Scan(ns_), GivesUp(ns_, ns_)), NEW s \in Slots, slot_[s] # None
  PROVE  cl \in 0 .. maxslot_ /\ Turn(cl) <= Turn(s)
<1>1. PICK k \in Steps :
        /\ cl = Scan(ns_)[k]
        /\ \A h \in 0 .. k - 1 : slot_[Scan(ns_)[h]] = None
  BY DEF Found
<1>2. /\ ns_ \in Nat /\ k \in Nat /\ maxslot_ \in Nat /\ s \in 0 .. maxslot_
  BY DEF Steps, Slots, TypeOK, IsLastSlot
<1>3. \A h \in 0 .. maxslot_ :
        Scan(ns_)[h] = IF ns_ + h <= maxslot_ THEN ns_ + h ELSE ns_ + h - (maxslot_ + 1)
  <2> SUFFICES ASSUME NEW h \in 0 .. maxslot_
               PROVE  Scan(ns_)[h]
                        = IF ns_ + h <= maxslot_ THEN ns_ + h ELSE ns_ + h - (maxslot_ + 1)
    OBVIOUS
  <2>1. Wrap(ns_ + h) = IF ns_ + h <= maxslot_ THEN ns_ + h ELSE ns_ + h - (maxslot_ + 1)
    <3>1. ns_ + h \in 0 .. (2 * maxslot_) + 1
      BY <1>2
    <3> QED BY <1>2, <3>1, WrapOnce
  <2>2. Scan(ns_)[h] = IF h = 0 THEN ns_ ELSE Wrap(ns_ + h)
    BY <1>2 DEF Scan, Steps
  <2> QED BY <1>2, <2>1, <2>2
<1>4. Turn(s) \in 0 .. maxslot_ /\ Scan(ns_)[Turn(s)] = s
  BY <1>2, <1>3 DEF Turn
<1>5. k <= Turn(s)
  BY <1>1, <1>2, <1>4
<1>6. k \in 0 .. maxslot_
  BY <1>2, <1>4, <1>5
<1>7. cl \in 0 .. maxslot_ /\ Turn(cl) = k
  BY <1>1, <1>2, <1>3, <1>6 DEF Turn
<1> QED BY <1>5, <1>7

(* The turn of a link that has had its packet comes last, and the others   *)
(* keep their order.                                                       *)
LEMMA TurnsRotate ==
  ASSUME TypeOK, maxslot_ >= 0, NEW cl \in 0 .. maxslot_,
         maxslot_' = maxslot_, ns_' = Wrap(cl + 1)
  PROVE  /\ ns_' \in 0 .. maxslot_
         /\ Turn(cl)' = maxslot_
         /\ \A s \in 0 .. maxslot_ : Turn(s)' \in 0 .. maxslot_
         /\ \A s \in 0 .. maxslot_ : ns_ <= maxslot_ /\ Turn(cl) < Turn(s) =>
              Turn(s)' = Turn(s) - Turn(cl) - 1
<1>1. maxslot_ \in Nat /\ ns_ \in Nat
  BY DEF TypeOK, IsLastSlot, Slots
<1>2. ns_' = IF cl + 1 <= maxslot_ THEN cl + 1 ELSE cl + 1 - (maxslot_ + 1)
  <2>1. cl + 1 \in 0 .. (2 * maxslot_) + 1
    BY <1>1
  <2> QED BY <1>1, <2>1, WrapOnce
<1> QED BY <1>1, <1>2 DEF Turn

(* Slots in use have turns of their own.                                   *)
LEMMA TurnsDiffer ==
  ASSUME TypeOK, maxslot_ >= 0, NEW s \in 0 .. maxslot_, NEW t \in 0 .. maxslot_, s # t
  PROVE  Turn(s) < Turn(t) \/ Turn(t) < Turn(s)
BY DEF Turn, TypeOK, IsLastSlot, Slots

(* Under round robin a packet goes where the scan from ns_ ends.           *)
LEMMA SprayIsRoundRobin ==
  ASSUME IsSprayed, NEW pkt \in Packets, Classify(pkt)
  PROVE  RoundRobin(pkt) /\ maxslot_ >= 0
BY DEF IsSprayed, Classify, CanClassify, Selective, IsSelected, FlowcellFullFailure, Flowcell,
       IsFlowcell, Ecmp, IsHashed, NoScheme

(* A packet takes the link whose turn it is, which the counts say is owed  *)
(* one.                                                                    *)
LEMMA RoundRobinIsEven ==
  ASSUME TypeOK, EvenInv, IsSprayed, NEW pkt \in Packets, Classify(pkt)
  PROVE  TurnsAreEven'
<1>1. maxslot_ >= 0 /\ ns_ \in Slots /\ maxslot_ \in Nat
  BY SprayIsRoundRobin DEF TypeOK, IsLastSlot, Slots
<1>2. PICK cl \in Found(Scan(ns_), GivesUp(ns_, ns_)) :
        ns_' = Wrap(cl + 1) /\ Forward(pkt, slot_[cl])
  BY SprayIsRoundRobin DEF RoundRobin
<1>3. cl \in Slots /\ slot_[cl] \in Links
  <2>1. cl \in Slots /\ slot_[cl] \in Links \union {None}
    BY <1>1, ScanType, FoundInRange
  <2>2. slot_[cl] # None
    BY <1>1, ScanInOrder, ScanFindsLink
  <2> QED BY <2>1, <2>2
<1>4. \A s \in Slots : slot_[s] # None => s \in 0 .. maxslot_
  BY DEF TypeOK, IsLastSlot, Slots
<1>5. cl \in 0 .. maxslot_
  BY <1>3, <1>4, SlotsAssumption
<1>6. slot_' = slot_ /\ maxslot_' = maxslot_ /\ conf' = conf
  BY <1>2 DEF Forward
<1>7. /\ ns_' \in 0 .. maxslot_
      /\ Turn(cl)' = maxslot_
      /\ \A s \in 0 .. maxslot_ : Turn(s)' \in 0 .. maxslot_
      /\ \A s \in 0 .. maxslot_ : ns_ <= maxslot_ /\ Turn(cl) < Turn(s) =>
           Turn(s)' = Turn(s) - Turn(cl) - 1
  BY <1>1, <1>2, <1>5, <1>6, TurnsRotate
<1>8. \A link : /\ SentOn(link) \in Nat
                /\ SentOn(link)' = IF link = slot_[cl] THEN SentOn(link) + 1 ELSE SentOn(link)
  BY <1>2, <1>3, OneSent
<1>11. ASSUME NEW h \in Slots
       PROVE  /\ SentOn(slot_[h]) \in Nat
              /\ SentOn(slot_[h])'
                   = IF slot_[h] = slot_[cl] THEN SentOn(slot_[h]) + 1 ELSE SentOn(slot_[h])
  <2>1. PICK a : a = slot_[h]
    OBVIOUS
  <2>2. SentOn(slot_[h])' = SentOn(a)'
    BY <1>6, <2>1 DEF SentOn
  <2>3. SentOn(slot_[h]) = SentOn(a)
    BY <2>1
  <2>4. /\ SentOn(a) \in Nat
        /\ SentOn(a)' = IF a = slot_[cl] THEN SentOn(a) + 1 ELSE SentOn(a)
    BY <1>8
  <2> QED BY <2>1, <2>2, <2>3, <2>4
<1>9. ASSUME NEW s \in Slots, NEW t \in Slots, slot_[s] # None, slot_[t] # None,
             Turn(s)' < Turn(t)'
      PROVE  /\ SentOn(slot_[s])' <= SentOn(slot_[t])'
             /\ SentOn(slot_[t])' <= SentOn(slot_[s])' + 1
  <2>1. s \in 0 .. maxslot_ /\ t \in 0 .. maxslot_
    BY <1>4, <1>9
  <2>2. s # cl
    <3> SUFFICES ASSUME s = cl PROVE FALSE
      OBVIOUS
    <3>1. Turn(t)' \in 0 .. maxslot_ /\ Turn(s)' = maxslot_
      BY <1>7, <2>1
    <3> QED BY <1>1, <1>9, <3>1
  <2>3. SentOn(slot_[s])' = SentOn(slot_[s]) /\ SentOn(slot_[s]) \in Nat
    <3>1. slot_[s] # slot_[cl]
      BY <1>3, <1>9, <2>2 DEF EvenInv, SlotsDiffer
    <3> QED BY <1>11, <3>1
  <2>4. /\ SentOn(slot_[t]) \in Nat
        /\ SentOn(slot_[t])' = IF t = cl THEN SentOn(slot_[t]) + 1 ELSE SentOn(slot_[t])
    <3>1. t # cl => slot_[t] # slot_[cl]
      BY <1>3, <1>9 DEF EvenInv, SlotsDiffer
    <3> QED BY <1>11, <3>1
  <2>5. CASE log = <<>>
    <3>1. SentOn(slot_[s]) = 0 /\ SentOn(slot_[t]) = 0
      BY <2>5, NoneSent
    <3> QED BY <2>3, <2>4, <3>1
  <2>6. CASE log # <<>>
    <3>1. ns_ <= maxslot_
      BY <2>6 DEF EvenInv, TurnsAreEven
    <3>2. Turn(cl) < Turn(s) /\ (t # cl => Turn(cl) < Turn(t))
      <4>1. Turn(cl) <= Turn(s) /\ Turn(cl) <= Turn(t)
        BY <1>1, <1>9, <3>1, FirstInTurn
      <4>2. Turn(cl) \in Int /\ Turn(s) \in Int /\ Turn(t) \in Int
        BY <1>1, <1>5, <2>1 DEF Turn, Slots
      <4>3. Turn(s) < Turn(cl) \/ Turn(cl) < Turn(s)
        BY <1>1, <1>5, <2>1, <2>2, TurnsDiffer
      <4>4. t # cl => Turn(t) < Turn(cl) \/ Turn(cl) < Turn(t)
        BY <1>1, <1>5, <2>1, TurnsDiffer
      <4> QED BY <4>1, <4>2, <4>3, <4>4
    <3>3. \A a, b \in Slots : slot_[a] # None /\ slot_[b] # None /\ Turn(a) < Turn(b) =>
            SentOn(slot_[a]) <= SentOn(slot_[b]) /\ SentOn(slot_[b]) <= SentOn(slot_[a]) + 1
      BY DEF EvenInv, TurnsAreEven
    <3>4. CASE t = cl
      <4>1. SentOn(slot_[cl]) <= SentOn(slot_[s]) /\ SentOn(slot_[s]) <= SentOn(slot_[cl]) + 1
        BY <1>3, <1>9, <3>2, <3>3, SlotsAssumption
      <4>2. SentOn(slot_[t])' = SentOn(slot_[cl]) + 1 /\ SentOn(slot_[cl]) \in Nat
        BY <2>4, <3>4
      <4> QED BY <2>3, <4>1, <4>2
    <3>5. CASE t # cl
      <4>1. Turn(s)' = Turn(s) - Turn(cl) - 1 /\ Turn(t)' = Turn(t) - Turn(cl) - 1
        BY <1>7, <2>1, <3>1, <3>2, <3>5
      <4>2. Turn(cl) \in Int /\ Turn(s) \in Int /\ Turn(t) \in Int
        BY <1>1, <1>5, <2>1 DEF Turn, Slots
      <4>3. Turn(s) < Turn(t)
        BY <1>9, <4>1, <4>2
      <4>4. SentOn(slot_[s]) <= SentOn(slot_[t]) /\ SentOn(slot_[t]) <= SentOn(slot_[s]) + 1
        BY <1>9, <3>3, <4>3
      <4> QED BY <2>3, <2>4, <3>5, <4>4
    <3> QED BY <3>4, <3>5
  <2> QED BY <2>5, <2>6
<1>10. ns_' <= maxslot_'
  BY <1>1, <1>6, <1>7
<1> QED BY <1>6, <1>9, <1>10 DEF TurnsAreEven

(* A change of the routes empties the history; every link starts anew.     *)
LEMMA EmptyLogIsEven == log = <<>> => TurnsAreEven
<1> SUFFICES ASSUME log = <<>> PROVE TurnsAreEven
  OBVIOUS
<1>1. \A link : SentOn(link) = 0
  BY NoneSent
<1> QED BY <1>1 DEF TurnsAreEven

(* Every step keeps the turns even.                                        *)
LEMMA StepTurnsAreEven ==
  ASSUME TypeOK, EvenInv, [Next]_vars
  PROVE  TurnsAreEven'
<1>1. ASSUME log' = <<>> PROVE TurnsAreEven'
  <2>1. {i \in DOMAIN log' : FALSE} = {}
    OBVIOUS
  <2>2. \A link : SentOn(link)' = 0
    BY <1>1, FS_EmptySet DEF SentOn
  <2> QED BY <1>1, <2>2 DEF TurnsAreEven
<1>2. ASSUME NEW ifs \in IfLists, AddRoutes(ifs) PROVE TurnsAreEven'
  BY <1>1, <1>2 DEF AddRoutes
<1>3. ASSUME NEW ifs \in SUBSET Links, DeleteRoutes(ifs) PROVE TurnsAreEven'
  BY <1>1, <1>3 DEF DeleteRoutes
<1>4. ASSUME NEW pkt \in Packets, Classify(pkt) PROVE TurnsAreEven'
  <2>1. CASE IsSprayed
    BY <1>4, <2>1, RoundRobinIsEven
  <2>2. CASE ~ IsSprayed
    <3>1. conf' = conf
      BY <1>4, ClassifyType DEF Forward
    <3> QED BY <2>2, <3>1 DEF TurnsAreEven, IsSprayed
  <2> QED BY <2>1, <2>2
<1>5. CASE UNCHANGED vars
  BY <1>5 DEF vars, EvenInv, TurnsAreEven, IsSprayed, Turn, SentOn
<1> QED BY <1>2, <1>3, <1>4, <1>5 DEF Next

(* While the routes stay, no link that is up has had two packets more than *)
(* another under round robin, also when the routes left ns_ on an empty    *)
(* slot or beyond the last.                                                *)
THEOREM MultiPathSprayIsEven == Spec => []SprayIsEven
<1>1. Init => EvenInv
  <2>1. Init => SlotsDiffer
    BY DEF Init, SlotsDiffer
  <2>2. Init => TurnsAreEven
    BY EmptyLogIsEven DEF Init
  <2> QED BY <2>1, <2>2 DEF EvenInv
<1>2. TypeOK /\ EvenInv /\ [Next]_vars => EvenInv'
  BY StepSlotsDiffer, StepTurnsAreEven DEF EvenInv
<1>3. TypeOK /\ EvenInv => SprayIsEven
  <2> SUFFICES ASSUME TypeOK, EvenInv, IsSprayed, NEW a \in Installed, NEW b \in Installed
               PROVE  SentOn(a) <= SentOn(b) + 1
    BY DEF SprayIsEven, IsSprayed
  <2>1. PICK s \in Slots : a = slot_[s] /\ slot_[s] # None
    BY DEF Installed
  <2>2. PICK t \in Slots : b = slot_[t] /\ slot_[t] # None
    BY DEF Installed
  <2>3. s \in 0 .. maxslot_ /\ t \in 0 .. maxslot_ /\ maxslot_ >= 0
    BY <2>1, <2>2 DEF TypeOK, IsLastSlot, Slots
  <2>4. SentOn(a) \in Nat /\ SentOn(b) \in Nat
    BY SentIsNat
  <2>5. CASE s = t
    BY <2>1, <2>2, <2>4, <2>5
  <2>6. CASE s # t
    <3>1. Turn(s) < Turn(t) \/ Turn(t) < Turn(s)
      BY <2>3, <2>6, TurnsDiffer
    <3>2. \/ SentOn(a) <= SentOn(b)
          \/ SentOn(a) <= SentOn(b) + 1
      BY <2>1, <2>2, <3>1 DEF EvenInv, TurnsAreEven
    <3> QED BY <2>4, <3>2
  <2> QED BY <2>5, <2>6
<1> QED BY <1>1, <1>2, <1>3, MultiPathTypeOK, PTL DEF Spec
===============================================================================
