------------------------------- MODULE MultiPath --------------------------------
(***************************************************************************)
(* The switch side of the load balancing: a MultiPathForwarder, the        *)
(* classifier that picks the next hop of a packet among the links to its   *)
(* destination (classifier/classifier-mpath.cc).                           *)
(*                                                                         *)
(* The links sit in the slots of an array.  Routing clears and fills slots *)
(* while packets pass (add-routes and delete-routes of ns-node.tcl), so    *)
(* the slot a packet or the classifier itself remembers may be empty when  *)
(* it is used, and may even lie beyond the last slot; every scheme then    *)
(* scans for another one.                                                  *)
(*                                                                         *)
(* K_ is 0, the leaf-spine topology.                                       *)
(***************************************************************************)
EXTENDS Integers, Sequences, FiniteSets

CONSTANTS
  Links,       \* the links to the destination
  NSlot,       \* the slots of the array
  None,        \* an empty slot, or no link
  Schemes,     \* the settings a classifier can have
  Packets,     \* the headers of packets
  TTLs,        \* values of a time to live, or of the memory where one is missing
  HashString,  \* HashString[<<fid, ttl>>]: the hash of the header with this time to live
  MaxLog       \* bound: packets between two changes of the routes

Slots == 0 .. NSlot - 1

ASSUME SlotsAssumption ==
  /\ IsFiniteSet(Links) /\ None \notin Links
  /\ NSlot \in Nat /\ Cardinality(Links) < NSlot /\ MaxLog \in Nat
ASSUME SchemesAssumption ==
  Schemes \subseteq [packetSpraying_ : BOOLEAN, selectiveSpraying_ : BOOLEAN,
                     flowcellSpraying_ : BOOLEAN, perflow_ : 0 .. 2, failureCase_ : 0 .. 2]
ASSUME PacketsAssumption ==
  \A pkt \in Packets :
    /\ pkt.linkID \in 0 .. NSlot - 2
    /\ pkt.failureDetected \in BOOLEAN /\ pkt.isElephant \in BOOLEAN
    /\ pkt.tcp \in BOOLEAN /\ pkt.ttl \in TTLs
    /\ \A ttl \in TTLs : HashString[<<pkt.fid, ttl>>] \in Nat

VARIABLES
  slot_,      \* the link in each slot
  maxslot_,   \* the last slot in use, -1 if there is none
  ns_,        \* the slot to try next
  conf,       \* the settings of this classifier: never change
  log         \* history: the packets since the last change of the routes, with their links

vars == <<slot_, maxslot_, ns_, conf, log>>

Init ==
  /\ slot_ = [s \in Slots |-> None]
  /\ maxslot_ = -1
  /\ ns_ = 0
  /\ conf \in Schemes
  /\ log = <<>>

-------------------------------------------------------------------------------
(* The routes.                                                             *)

(* What install and clear keep in maxslot_.                                *)
IsLastSlot(m, slots) ==
  /\ m \in Slots \union {-1}
  /\ m >= 0 => slots[m] # None
  /\ \A s \in Slots : slots[s] # None => s <= m

Installed == {slot_[s] : s \in Slots} \ {None}

(* The place of an empty slot among the empty ones, which installNext      *)
(* fills from the left.                                                    *)
Rank(s) == Cardinality({t \in 0 .. s : slot_[t] = None})

(* add-routes: a list of links comes up.                                   *)
AddRoutes(ifs) ==
  /\ \A i \in DOMAIN ifs : ifs[i] \notin Installed
  /\ slot_' = [s \in Slots |->
                 IF slot_[s] = None /\ Rank(s) <= Len(ifs) THEN ifs[Rank(s)] ELSE slot_[s]]
  /\ IsLastSlot(maxslot_', slot_')
  /\ log' = <<>>
  /\ UNCHANGED <<ns_, conf>>

(* Mutant: maxslot_ stays.                                                 *)
DeleteKeepsLast(ifs) ==
  /\ slot_' = [s \in Slots |-> IF slot_[s] \in ifs THEN None ELSE slot_[s]]
  /\ log' = <<>>
  /\ UNCHANGED <<maxslot_, ns_, conf>>

(* delete-routes: the slots of these links are cleared.  ns_ stays.        *)
DeleteRoutes(ifs) ==
  /\ slot_' = [s \in Slots |-> IF slot_[s] \in ifs THEN None ELSE slot_[s]]
  /\ IsLastSlot(maxslot_', slot_')
  /\ log' = <<>>
  /\ UNCHANGED <<ns_, conf>>

-------------------------------------------------------------------------------
(* classify(): the scan of the slots.                                      *)

Wrap(s) == s % (maxslot_ + 1)

(* The slots that a loop examines, from start on: start itself may lie     *)
(* beyond the last slot.                                                   *)
Steps == 0 .. maxslot_ + 2
Scan(start) == [k \in Steps |-> IF k = 0 THEN start ELSE Wrap(start + k)]

(* Mutant: one slot early.                                                 *)
GivesUpEarly(start, fail) == {k \in Steps : Wrap(start + k + 2) = fail}

(* The steps after which a loop gives up, the next slot being fail.        *)
GivesUp(start, fail) == {k \in Steps : Wrap(start + k + 1) = fail}

(* The slot at which a loop ends: the first that has a link, or the one at *)
(* which it gives up.                                                      *)
Found(scan, givesUp) ==
  {scan[k] : k \in {i \in Steps :
     /\ slot_[scan[i]] # None \/ i \in givesUp
     /\ \A h \in 0 .. i - 1 : slot_[scan[h]] = None /\ h \notin givesUp}}

(* The packet leaves by this slot; an empty one drops it.                  *)
Forward(pkt, link) ==
  /\ log' = Append(log, [pkt |-> pkt, link |-> link])
  /\ UNCHANGED <<slot_, maxslot_, conf>>

(* Without any link every scheme would divide by zero.                     *)
CanClassify == maxslot_ >= 0 /\ Len(log) < MaxLog

(* The slot of a detected failure's packet comes from the sender.          *)
IsSelected(pkt) == conf.packetSpraying_ /\ conf.selectiveSpraying_ /\ pkt.failureDetected

Selective(pkt) ==
  /\ IsSelected(pkt)
  /\ \E cl \in Found(Scan(pkt.linkID),
                     GivesUp(pkt.linkID, IF pkt.linkID = 0 THEN maxslot_ ELSE pkt.linkID - 1)) :
       /\ ns_' = IF slot_[pkt.linkID] # None THEN pkt.linkID ELSE Wrap(cl + 1)
       /\ Forward(pkt, slot_[cl])

(* Mutant: the skipped slots are tried again.                              *)
RoundRobinByOne(pkt) ==
  /\ conf.packetSpraying_ /\ ~ IsSelected(pkt)
  /\ \E cl \in Found(Scan(ns_), GivesUp(ns_, ns_)) :
       /\ ns_' = Wrap(ns_ + 1)
       /\ Forward(pkt, slot_[cl])

(* Round robin packet spraying (RPS).                                      *)
RoundRobin(pkt) ==
  /\ conf.packetSpraying_ /\ ~ IsSelected(pkt)
  /\ \E cl \in Found(Scan(ns_), GivesUp(ns_, ns_)) :
       /\ ns_' = Wrap(cl + 1)
       /\ Forward(pkt, slot_[cl])

IsFlowcell == ~ conf.packetSpraying_ /\ conf.flowcellSpraying_

(* The second slot of the scan is not wrapped, nor is ns_ after the first. *)
FlowcellFullFailure(pkt) ==
  LET linkID == pkt.linkID
      scan   == [Scan(linkID) EXCEPT ![1] = linkID + 1]
  IN
  /\ IsFlowcell /\ conf.failureCase_ = 2
  /\ \E cl \in Found(scan, GivesUp(linkID, linkID) \ {0}) :
       /\ ns_' = IF cl = linkID THEN linkID + 1 ELSE Wrap(cl + 1)
       /\ Forward(pkt, slot_[cl])

(* Mutant: from the remembered slot.                                       *)
FlowcellFromNs(pkt) ==
  /\ IsFlowcell /\ conf.failureCase_ # 2
  /\ \E cl \in Found(Scan(ns_), {}) :
       /\ ns_' = Wrap(cl + 1)
       /\ Forward(pkt, slot_[cl])

Flowcell(pkt) ==
  /\ IsFlowcell /\ conf.failureCase_ # 2
  /\ \E cl \in Found(Scan(pkt.linkID), {}) : Forward(pkt, slot_[cl])
  /\ ns_' = pkt.linkID

IsHashed(pkt) ==
  /\ ~ conf.packetSpraying_ /\ ~ conf.flowcellSpraying_
  /\ conf.perflow_ # 0 \/ ~ pkt.isElephant

HasTTL(pkt) == conf.perflow_ = 2 /\ pkt.tcp

(* Equal cost multipath: the slot is a hash of the header.  The ttl field  *)
(* of the hashed record is set for FlowBender's TCP packets only and holds *)
(* anything for others.                                                    *)
Ecmp(pkt) ==
  /\ IsHashed(pkt)
  /\ \E ttl \in IF HasTTL(pkt) THEN {pkt.ttl} ELSE TTLs :
       \E cl \in Found(Scan(Wrap(HashString[<<pkt.fid, ttl>>])), {}) : Forward(pkt, slot_[cl])
  /\ UNCHANGED ns_

(* An elephant without a scheme: the slot is not initialized.              *)
NoScheme(pkt) ==
  /\ ~ conf.packetSpraying_ /\ ~ conf.flowcellSpraying_ /\ ~ IsHashed(pkt)
  /\ \E link \in Links \union {None} : Forward(pkt, link)
  /\ UNCHANGED ns_

Classify(pkt) ==
  /\ CanClassify
  /\ \/ Selective(pkt) \/ RoundRobin(pkt)
     \/ FlowcellFullFailure(pkt) \/ Flowcell(pkt)
     \/ Ecmp(pkt) \/ NoScheme(pkt)

(* The lists that add-routes can be given.                                 *)
IfLists == UNION {{ifs \in [1 .. n -> Links] : Cardinality({ifs[i] : i \in 1 .. n}) = n} :
                    n \in 1 .. Cardinality(Links)}

Next ==
  \/ \E ifs \in IfLists : AddRoutes(ifs)
  \/ \E ifs \in SUBSET Links \ {{}} : DeleteRoutes(ifs)
  \/ \E pkt \in Packets : Classify(pkt)

Spec == Init /\ [][Next]_vars

-------------------------------------------------------------------------------
(* Properties.                                                             *)

TypeOK ==
  /\ slot_ \in [Slots -> Links \union {None}]
  /\ IsLastSlot(maxslot_, slot_)
  /\ ns_ \in Slots
  /\ conf \in Schemes
  /\ log \in Seq([pkt : Packets, link : Links \union {None}])

(* Every packet of a load balancing scheme leaves by a link while there is *)
(* one, whatever became of the slot it asks for or the classifier          *)
(* remembers: the scans "prevent mapping to fully failed link".            *)
HasScheme(pkt) == conf.packetSpraying_ \/ IsFlowcell \/ IsHashed(pkt)

LiveLinkIsTaken ==
  \A i \in DOMAIN log :
    HasScheme(log[i].pkt) /\ ~ IsSelected(log[i].pkt) => log[i].link # None

(* The same for packets whose path the sender has selected.                *)
SelectedTakesLink ==
  \A i \in DOMAIN log : IsSelected(log[i].pkt) => log[i].link # None

(* The header alone decides the path of a packet.                          *)
IsPinned(pkt) == IsSelected(pkt) \/ IsFlowcell \/ (IsHashed(pkt) /\ HasTTL(pkt))

(* The packets of a flowcell, those a sender has selected a path for, and  *)
(* those that are hashed with all the fields set are not reordered: while  *)
(* the routes stay equal headers take equal links.                         *)
SamePathIsKept ==
  \A i, j \in DOMAIN log :
    log[i].pkt = log[j].pkt /\ IsPinned(log[i].pkt) => log[i].link = log[j].link

(* Round robin spreads the packets evenly over the links that are up, from *)
(* any point, also one that a change of the routes has left on an empty    *)
(* slot.                                                                   *)
SentOn(link) == Cardinality({i \in DOMAIN log : log[i].link = link})

SprayIsEven ==
  conf.packetSpraying_ /\ ~ conf.selectiveSpraying_ =>
    \A a, b \in Installed : SentOn(a) <= SentOn(b) + 1
===============================================================================
