----------------------------- MODULE PathSelection -----------------------------
(***************************************************************************)
(* The uplink a TCP sender picks for each packet under every scheme but    *)
(* SAPS among several failures (which is module Svt): TcpAgent::output and *)
(* isSpineFailed (tcp/tcp.cc) for UFCS/UPS (failureAware_ clear), the      *)
(* weighted round robins WFCS/WPS, the probabilistic WFCS-P/WPS-P, and     *)
(* SPS, SPPS and HPO with a single failure, with the failure of the run    *)
(* static or detected by the clock (realisticFailure_).                    *)
(*                                                                         *)
(* The classification of failedLinks is modelled in Svt, whose             *)
(* CountersAreRight says what its counters are at the end: here they are   *)
(* the sizes of the sets of spines.                                        *)
(***************************************************************************)
EXTENDS Integers, Sequences, FiniteSets, FiniteSetsExt

CONSTANTS
  numUplinks,
  Leaves, srcLeaf_, destLeaf_,
  Flows,                \* the settings of the flows to consider
  dynamicMappingThreshold_, dynamicMappingThresholdGL2GL_,
  flowcellSizePkts_,
  PktBytes,             \* bytes of a data packet
  MaxSyns,              \* bound: times the SYN is sent
  MaxPkts               \* bound: packets of the flow

Uplinks == 0 .. numUplinks - 1

(* A failed link; a failureRatio of 100 is a full failure.                 *)
Failures == [leaf : Leaves, spine : Uplinks, failureRatio : 1 .. 100]

(* What the script gives the agent of a flow, and whether the failure has  *)
(* been detected before it starts.                                         *)
FlowSettings ==
  [failureAware_ : BOOLEAN, roundRobin_ : BOOLEAN, selectiveSpraying_ : BOOLEAN,
   realisticFailure_ : BOOLEAN, failureCase_ : 0 .. 2, failureRatio_ : 1 .. 100,
   failedLinks : Seq(Failures), poorPathFlow_ : BOOLEAN, DA_Flow_ : BOOLEAN,
   dynamicMapping_ : BOOLEAN, healthyPathOnly_ : BOOLEAN, DA_sprayOnly_ : BOOLEAN,
   startsDetected : BOOLEAN]

ASSUME UplinksAssumption == numUplinks \in Nat \ {0, 1}
ASSUME SizesAssumption ==
  /\ dynamicMappingThreshold_ \in Nat /\ dynamicMappingThresholdGL2GL_ \in Nat
  /\ flowcellSizePkts_ \in Nat \ {0} /\ PktBytes \in Nat
  /\ MaxSyns \in Nat /\ MaxPkts \in Nat
(* A flow that knows of a failure has at least one, and none is of Svt.    *)
ASSUME FlowsAssumption ==
  \A f \in Flows :
    /\ f \in FlowSettings
    /\ f.failureAware_ => f.failedLinks # <<>>
    /\ f.startsDetected => f.realisticFailure_ /\ f.failureCase_ # 0
    /\ ~ (/\ f.failureAware_ /\ f.roundRobin_ /\ f.selectiveSpraying_
          /\ f.realisticFailure_ /\ Len(f.failedLinks) > 1)

VARIABLES
  pc,                   \* "first", "send", or "crashed": a division by zero
  flow,                 \* the settings of this flow: they never change
  linkID_,              \* the uplink of the current flowcell
  ndatapack_, ndatabytes_,
  poorPathFlow_,
  rfactor,              \* flowcells on the healthy links for a turn of the others
  flowCellMod_,         \* the packet at which that turn comes
  toggleWeakSpines_,    \* weak links that have had this turn
  uplinkWeights, totalUplinkWeights,
  detection,            \* of the failure: "before", "detected", "over"
  sinceWeak             \* history: flowcells since one started on a weak link

weighting == <<rfactor, uplinkWeights, totalUplinkWeights>>
turns == <<flowCellMod_, toggleWeakSpines_>>
vars == <<pc, flow, linkID_, ndatapack_, ndatabytes_, poorPathFlow_, weighting, turns,
          detection, sinceWeak>>

-------------------------------------------------------------------------------
(* What the list of failures says to this flow.                            *)

Direct(f) == f.leaf \in {srcLeaf_, destLeaf_}

(* fromFailedLeaf_ || toFailedLeaf_: a link of one of its leaves failed.   *)
FromOrToFailedLeaf == \E i \in DOMAIN flow.failedLinks : Direct(flow.failedLinks[i])

FailuresOf(spine) ==
  {i \in DOMAIN flow.failedLinks :
     Direct(flow.failedLinks[i]) /\ flow.failedLinks[i].spine = spine}

DirectSpines == {s \in Uplinks : FailuresOf(s) # {}}
DeadSpines ==
  {s \in Uplinks : \E i \in FailuresOf(s) : flow.failedLinks[i].failureRatio = 100}

numDirectFailures_ == IF Len(flow.failedLinks) > 1 THEN Cardinality(DirectSpines) ELSE 0
numDirectPartialFailurePaths == Cardinality(DirectSpines \ DeadSpines)

(* The ratio of the first failure of the list between the leaves and the   *)
(* spine, 1 if there is none.                                              *)
uplinkFailureRatio(spine) ==
  IF FailuresOf(spine) = {} THEN 1 ELSE flow.failedLinks[Min(FailuresOf(spine))].failureRatio

(* Mutant: no failure is full.                                             *)
isSpineFailedOrNot(spine) == IF FailuresOf(spine) = {} THEN 0 ELSE 1

(* 0 for not failed, 1 for partial, 2 for full failure.                    *)
isSpineFailed(spine) ==
  IF FailuresOf(spine) = {} THEN 0
  ELSE IF uplinkFailureRatio(spine) = 100 THEN 2
  ELSE 1

(* The spine of failedLinks[0].                                            *)
FailedSpine == flow.failedLinks[1].spine

Next1(link) == (link + 1) % numUplinks

(* Mutant: no wrap.                                                        *)
LinkUnwrapped(k) == linkID_ + k

Link(k) == (linkID_ + k) % numUplinks

-------------------------------------------------------------------------------
(* The first packet.                                                       *)

Init ==
  /\ pc = "first"
  /\ flow \in Flows
  /\ linkID_ = numUplinks - 1
  /\ ndatapack_ = 0 /\ ndatabytes_ = 0
  /\ poorPathFlow_ = flow.poorPathFlow_
  /\ rfactor = 0 /\ flowCellMod_ = 0 /\ toggleWeakSpines_ = 0
  /\ uplinkWeights = [i \in Uplinks |-> 0] /\ totalUplinkWeights = 0
  /\ detection = IF flow.startsDetected THEN "detected" ELSE "before"
  /\ sinceWeak = 0

WeighsSpines == flow.failureAware_ /\ ~ flow.roundRobin_

(* uplinkWeights of the probabilistic schemes.                             *)
Weight(spine) ==
  IF ~ FromOrToFailedLeaf THEN 10
  ELSE IF uplinkFailureRatio(spine) = 100 THEN 0
  ELSE 10 \div uplinkFailureRatio(spine)

(* The weights of the links up to each one, together.                      *)
WeightUpTo(weights) ==
  LET upTo[i \in Uplinks] == weights[i] + (IF i = 0 THEN 0 ELSE upTo[i - 1])
  IN upTo

(* Where a selectively sprayed flow starts: marked flows on the failed     *)
(* spine, the others next to it.                                           *)
FirstLink ==
  IF ~ (flow.failureAware_ /\ flow.roundRobin_ /\ flow.selectiveSpraying_)
     \/ Len(flow.failedLinks) > 1
  THEN numUplinks - 1
  ELSE IF poorPathFlow_ THEN FailedSpine
  ELSE IF FromOrToFailedLeaf /\ flow.DA_Flow_ THEN numUplinks - 1
  ELSE Next1(FailedSpine)

(* Mutant: every listed failure is taken from the healthy links.           *)
RfactorOfAll ==
  IF ~ flow.failureAware_ THEN numUplinks - 1
  ELSE IF ~ flow.roundRobin_ \/ flow.selectiveSpraying_ THEN 0
  ELSE IF ~ FromOrToFailedLeaf THEN numUplinks - 1
  ELSE (numUplinks - Len(flow.failedLinks)) * flow.failureRatio_

Rfactor ==
  IF ~ flow.failureAware_ THEN numUplinks - 1
  ELSE IF ~ flow.roundRobin_ \/ flow.selectiveSpraying_ THEN 0
  ELSE IF ~ FromOrToFailedLeaf THEN numUplinks - 1
  ELSE IF Len(flow.failedLinks) > 1
  THEN (numUplinks - numDirectFailures_) * flow.failureRatio_
  ELSE (numUplinks - 1) * flow.failureRatio_

FirstPacket ==
  /\ pc = "first"
  /\ pc' = "send"
  /\ linkID_' = FirstLink
  /\ uplinkWeights' = [i \in Uplinks |-> IF WeighsSpines THEN Weight(i) ELSE 0]
  /\ totalUplinkWeights' = WeightUpTo(uplinkWeights')[numUplinks - 1]
  /\ rfactor' = Rfactor
  /\ flowCellMod_' = flowcellSizePkts_ * rfactor'
  /\ UNCHANGED <<flow, ndatapack_, ndatabytes_, poorPathFlow_, toggleWeakSpines_,
                 detection, sinceWeak>>

-------------------------------------------------------------------------------
(* A packet.                                                               *)

(* The flow acts on the failure: failureDetected_, or a static one.        *)
KnowsFailure ==
  flow.failureAware_ /\ (flow.realisticFailure_ => detection = "detected")

StartsFlowcell == ndatapack_ % flowcellSizePkts_ = 0

CanSend == pc = "send" /\ ndatapack_ < MaxPkts

(* Bytes count only against the thresholds: more than both is as good.     *)
MaxBytes == Max({dynamicMappingThreshold_, dynamicMappingThresholdGL2GL_}) + 1
Capped(n) == Min({n, MaxBytes})

(* The SYN, and it alone, carries no data.                                 *)
DataBytes == IF ndatabytes_ = 0 /\ ndatapack_ < MaxSyns THEN {0, PktBytes} ELSE {PktBytes}

(* The packet goes out on linkID_'.                                        *)
Sent ==
  /\ ndatapack_' = ndatapack_ + 1
  /\ \E databytes \in DataBytes : ndatabytes_' = Capped(ndatabytes_ + databytes)
  /\ sinceWeak' = IF ~ StartsFlowcell THEN sinceWeak
                  ELSE IF linkID_' \in DirectSpines THEN 0
                  ELSE sinceWeak + 1
  /\ UNCHANGED <<pc, flow, weighting, detection>>

(* ndatapack_ % flowCellMod_ with flowCellMod_ 0.                          *)
Crash ==
  /\ pc' = "crashed"
  /\ UNCHANGED <<flow, linkID_, ndatapack_, ndatabytes_, poorPathFlow_, weighting, turns,
                 detection, sinceWeak>>

(* UFCS and UPS, and what the others do while no failure is detected.      *)
SendUnaware ==
  /\ CanSend
  /\ ~ KnowsFailure
  /\ linkID_' = IF StartsFlowcell THEN Link(1) ELSE linkID_
  /\ Sent
  /\ UNCHANGED <<poorPathFlow_, turns>>

SkipFailed(link) == IF link = FailedSpine THEN Next1(link) ELSE link

(* The turn of the weak links, once every rfactor flowcells.               *)
AtTurn == ndatapack_ % flowCellMod_ = 0

(* Mutant: the flowcells on the weak links themselves are not counted.     *)
NextTurnEarly(weakPaths) == flowCellMod_ + flowcellSizePkts_ * rfactor

NextTurn(weakPaths) ==
  flowCellMod_ + flowcellSizePkts_ * weakPaths + flowcellSizePkts_ * rfactor

-------------------------------------------------------------------------------
(* SPS, SPPS and HPO with a single failure that has been detected.         *)

Selective ==
  /\ KnowsFailure
  /\ flow.realisticFailure_ /\ flow.roundRobin_ /\ flow.selectiveSpraying_

PoorPathThreshold ==
  IF flow.failureCase_ = 1 /\ FromOrToFailedLeaf
  THEN dynamicMappingThreshold_
  ELSE dynamicMappingThresholdGL2GL_

LeavesPoorPath == flow.dynamicMapping_ /\ ndatabytes_ > PoorPathThreshold

(* A marked flow, at any packet; with a full failure it leaves from the    *)
(* failed spine, wherever it was.                                          *)
SendPoor ==
  /\ CanSend
  /\ Selective /\ poorPathFlow_
  /\ linkID_' = IF ~ LeavesPoorPath THEN FailedSpine
                ELSE IF flow.failureCase_ = 2 THEN SkipFailed(Next1(FailedSpine))
                ELSE SkipFailed(Link(1))
  /\ poorPathFlow_' = ~ LeavesPoorPath
  /\ Sent
  /\ UNCHANGED turns

(* The flows that keep off the failed spine: not those of HPO and SAPS-DAU *)
(* between two good leaves.                                                *)
KeepsOff == FromOrToFailedLeaf \/ ~ (flow.healthyPathOnly_ \/ flow.DA_sprayOnly_)

SendSelective ==
  /\ CanSend
  /\ Selective /\ ~ poorPathFlow_
  /\ linkID_' = IF ~ StartsFlowcell \/ (flow.failureCase_ = 1 /\ ndatapack_ = 0) THEN linkID_
                ELSE IF KeepsOff THEN SkipFailed(Link(1))
                ELSE Link(1)
  /\ Sent
  /\ UNCHANGED <<poorPathFlow_, turns>>

-------------------------------------------------------------------------------
(* WFCS and WPS with a failure that has been detected.                     *)

Weighted ==
  /\ KnowsFailure
  /\ flow.realisticFailure_ /\ flow.roundRobin_ /\ ~ flow.selectiveSpraying_

SendWeightedRest ==
  /\ CanSend
  /\ Weighted /\ ~ StartsFlowcell
  /\ UNCHANGED <<linkID_, poorPathFlow_, turns>>
  /\ Sent

(* Several failures: at most numUplinks links are tried, for a weak link   *)
(* in their turn and for a healthy one otherwise; the link after the last  *)
(* one tried is taken untried.                                             *)
SeveralFailures == flow.failureCase_ = 1 /\ Len(flow.failedLinks) > 1

TurnOfWeak == (AtTurn /\ ndatapack_ > 0) \/ toggleWeakSpines_ > 0

SendWeightedSeveral ==
  /\ CanSend
  /\ Weighted /\ StartsFlowcell /\ SeveralFailures
  /\ numDirectFailures_ > 0
  /\ flowCellMod_ # 0
  /\ LET wanted == {k \in 1 .. numUplinks :
                      isSpineFailed(Link(k)) = IF TurnOfWeak THEN 1 ELSE 0}
         toggled == toggleWeakSpines_ + 1
     IN /\ linkID_' = IF wanted = {} THEN Link(numUplinks + 1) ELSE Link(Min(wanted))
        /\ IF ~ TurnOfWeak \/ wanted = {} THEN UNCHANGED turns
           ELSE IF toggled >= numDirectPartialFailurePaths
           THEN /\ toggleWeakSpines_' = 0
                /\ flowCellMod_' = NextTurn(numDirectPartialFailurePaths)
           ELSE toggleWeakSpines_' = toggled /\ UNCHANGED flowCellMod_
  /\ Sent
  /\ UNCHANGED poorPathFlow_

(* Every uplink has failed for these leaves: rfactor is 0.  The turn is    *)
(* asked for only if some failure is partial.                              *)
SendWeightedNone ==
  /\ CanSend
  /\ Weighted /\ StartsFlowcell /\ SeveralFailures
  /\ numDirectFailures_ > 0
  /\ flowCellMod_ = 0
  /\ IF \E spine \in Uplinks : isSpineFailed(spine) # 2
     THEN Crash
     ELSE linkID_' = Link(numUplinks + 1) /\ Sent /\ UNCHANGED <<poorPathFlow_, turns>>

(* Several failures, none of them between these leaves.                    *)
SendWeightedFar ==
  /\ CanSend
  /\ Weighted /\ StartsFlowcell /\ SeveralFailures
  /\ numDirectFailures_ = 0
  /\ linkID_' = Link(1)
  /\ Sent
  /\ UNCHANGED <<poorPathFlow_, turns>>

(* A single failure: the next link, the failed one only in its turn.       *)
SendWeightedSingle ==
  /\ CanSend
  /\ Weighted /\ StartsFlowcell
  /\ flow.failureCase_ = 1 /\ Len(flow.failedLinks) = 1
  /\ IF Link(1) # FailedSpine \/ ~ FromOrToFailedLeaf
     THEN linkID_' = Link(1) /\ UNCHANGED turns
     ELSE IF ~ AtTurn \/ flow.failedLinks[1].failureRatio = 100
     THEN linkID_' = Link(2) /\ UNCHANGED turns
     ELSE linkID_' = Link(1) /\ flowCellMod_' = NextTurn(1) /\ UNCHANGED toggleWeakSpines_
  /\ Sent
  /\ UNCHANGED poorPathFlow_

(* A full failure: only the first of the list is known.                    *)
SendWeightedFull ==
  /\ CanSend
  /\ Weighted /\ StartsFlowcell
  /\ flow.failureCase_ = 2
  /\ linkID_' = IF FromOrToFailedLeaf THEN SkipFailed(Link(1)) ELSE Link(1)
  /\ Sent
  /\ UNCHANGED <<poorPathFlow_, turns>>

-------------------------------------------------------------------------------
(* Deterministic spraying over a static failure (realisticFailure_ clear). *)

Static == KnowsFailure /\ ~ flow.realisticFailure_ /\ flow.roundRobin_

(* A marked flow stays where it started.                                   *)
StaysPut == flow.selectiveSpraying_ /\ poorPathFlow_ /\ FromOrToFailedLeaf
NeverFailed == flow.selectiveSpraying_ /\ ~ poorPathFlow_ /\ FromOrToFailedLeaf

SendStatic ==
  /\ CanSend
  /\ Static
  /\ IF StaysPut \/ ~ StartsFlowcell
     THEN UNCHANGED <<linkID_, turns>> /\ Sent
     ELSE IF Link(1) # FailedSpine
     THEN linkID_' = Link(1) /\ UNCHANGED turns /\ Sent
     ELSE IF NeverFailed
     THEN linkID_' = Link(2) /\ UNCHANGED turns /\ Sent
     ELSE IF flowCellMod_ = 0 THEN Crash
     ELSE IF ~ AtTurn
     THEN linkID_' = Link(2) /\ UNCHANGED turns /\ Sent
     ELSE /\ linkID_' = Link(1)
          /\ flowCellMod_' = NextTurn(1)
          /\ UNCHANGED toggleWeakSpines_
          /\ Sent
  /\ UNCHANGED poorPathFlow_

-------------------------------------------------------------------------------
(* WFCS-P and WPS-P.                                                       *)

(* Random::integer(k) of ns-2.                                             *)
Random(k) == IF k > 0 THEN 0 .. k - 1 ELSE {0}

(* The link whose share of the weights holds the number drawn; any link if *)
(* none does.                                                              *)
Drawn(randomNumber) ==
  LET holding == {i \in Uplinks : randomNumber < WeightUpTo(uplinkWeights)[i]}
  IN IF holding = {} THEN Random(numUplinks) ELSE {Min(holding)}

SendProbabilistic ==
  /\ CanSend
  /\ KnowsFailure /\ ~ flow.roundRobin_
  /\ IF StartsFlowcell
     THEN \E randomNumber \in Random(totalUplinkWeights) : linkID_' \in Drawn(randomNumber)
     ELSE UNCHANGED linkID_
  /\ Sent
  /\ UNCHANGED <<poorPathFlow_, turns>>

(* The clock passes failureStartTime_ + failureDetectionDelay_, and later  *)
(* the same after the failure has been repaired.                           *)
Detect ==
  /\ flow.realisticFailure_ /\ flow.failureCase_ # 0
  /\ \/ detection = "before" /\ detection' = "detected"
     \/ detection = "detected" /\ detection' = "over"
  /\ UNCHANGED <<pc, flow, linkID_, ndatapack_, ndatabytes_, poorPathFlow_, weighting, turns,
                 sinceWeak>>

Next ==
  \/ FirstPacket
  \/ SendUnaware
  \/ SendPoor \/ SendSelective
  \/ SendWeightedRest \/ SendWeightedSeveral \/ SendWeightedNone \/ SendWeightedFar
  \/ SendWeightedSingle \/ SendWeightedFull
  \/ SendStatic
  \/ SendProbabilistic
  \/ Detect

Spec == Init /\ [][Next]_vars

-------------------------------------------------------------------------------
(* Properties.                                                             *)

TypeOK ==
  /\ pc \in {"first", "send", "crashed"}
  /\ flow \in Flows
  /\ linkID_ \in Uplinks
  /\ ndatapack_ \in 0 .. MaxPkts /\ ndatabytes_ \in 0 .. MaxBytes
  /\ poorPathFlow_ \in BOOLEAN
  /\ rfactor \in Nat /\ flowCellMod_ \in Nat
  /\ toggleWeakSpines_ \in 0 .. numUplinks
  /\ uplinkWeights \in [Uplinks -> Nat] /\ totalUplinkWeights \in Nat
  /\ detection \in {"before", "detected", "over"}
  /\ sinceWeak \in Nat

(* Only two kinds of flow can divide by a flowCellMod_ of zero: one that   *)
(* is selectively sprayed between good leaves over a static failure, whose *)
(* rfactor is never set, and a weighted one that has lost every uplink     *)
(* (the % in output(), with flowCellMod_ from the first packet and from    *)
(* the turns since).                                                       *)
CrashIsNamed ==
  pc = "crashed" =>
    \/ flow.selectiveSpraying_ /\ ~ flow.realisticFailure_ /\ ~ FromOrToFailedLeaf
    \/ DirectSpines = Uplinks

NewFlowcell == StartsFlowcell /\ ndatapack_' = ndatapack_ + 1

(* The schemes that look every spine up in the list of failures.  The      *)
(* other round robins know the first failure of the list alone.            *)
LooksUpSpines == ~ flow.roundRobin_ \/ (Weighted /\ SeveralFailures)

(* A partial failure listed first hides a worse one of its spine.          *)
HidesFullFailure(spine) == uplinkFailureRatio(spine) # 100

(* No link is left of the kind that is looked for: a weak one in the turn  *)
(* of the weak links, a healthy one, or one that has a weight.             *)
NoneToTake ==
  IF flow.roundRobin_
  THEN DirectSpines = Uplinks \/ (TurnOfWeak /\ DirectSpines \subseteq DeadSpines)
  ELSE totalUplinkWeights = 0

(* The flows marked for the failed spine: poor ones until they leave it,   *)
(* and DA flows, which are not kept off it, with their first packet.       *)
Marked ==
  flow.selectiveSpraying_ /\ (poorPathFlow_' \/ (flow.DA_Flow_ /\ ndatapack_ = 0))

(* Once the failure is known a flowcell starts on a spine that this pair   *)
(* of leaves has lost only in these cases.  Under a scheme that looks up   *)
(* spines, a partial failure listed before it hides the full one, or there *)
(* is no link to take and one is taken untried.  Under the others, the     *)
(* flow is marked for it, or the lost spine is not that of the first       *)
(* failure listed, which is the only one seen; or the weighted round robin *)
(* over a static failure, which never asks whether the failure is full,    *)
(* has come to its turn.  And a selectively sprayed flow starts a flowcell *)
(* on the link of a detected failure, full or not, only if it is marked    *)
(* for it (output() and isSpineFailed).                                    *)
DeadSpineUseIsNamed ==
  [][NewFlowcell /\ KnowsFailure =>
       /\ linkID_' \in DeadSpines =>
            IF LooksUpSpines
            THEN HidesFullFailure(linkID_') \/ NoneToTake
            ELSE \/ Marked
                 \/ linkID_' # FailedSpine
                 \/ Static /\ ~ flow.selectiveSpraying_ /\ AtTurn
       /\ Selective /\ linkID_' \in DirectSpines => Marked]_vars

(* No failure of the list hides a worse one of its spine behind it.        *)
WorstIsFirst == \A spine \in DeadSpines : ~ HidesFullFailure(spine)

(* WFCS and WPS flows whose weak links have turns that come round: the     *)
(* failure was known from the first packet, some direct failure is         *)
(* partial, none is hidden, and there is a healthy uplink.                 *)
Aligned ==
  /\ Weighted /\ flow.startsDetected /\ flow.failureCase_ = 1
  /\ WorstIsFirst /\ FromOrToFailedLeaf /\ ~ DirectSpines \subseteq DeadSpines
  /\ Len(flow.failedLinks) > 1 => DirectSpines # Uplinks

(* A single failed link that is neither the first nor the last one.        *)
InTheMiddle == Len(flow.failedLinks) = 1 /\ FailedSpine \notin {0, numUplinks - 1}

(* The share of a weak link under WFCS and WPS, in the flows of Aligned.   *)
(* Its turn comes after rfactor flowcells on healthy links, never before   *)
(* (but for the first flowcell of the flow) and never later (but for the   *)
(* first turn, if the flow started there), whatever number of weak links   *)
(* share the turn.  A single weak link in the middle has no share at all:  *)
(* the round robin never stands before it when its turn comes              *)
(* (flowCellMod_ and toggleWeakSpines_ in output()).                       *)
WeakShareIsExact ==
  [][NewFlowcell /\ Aligned =>
       IF linkID_' \in DirectSpines
       THEN /\ ~ InTheMiddle
            /\ ndatapack_ = 0 \/ toggleWeakSpines_ > 0 \/ sinceWeak >= rfactor
       ELSE /\ toggleWeakSpines_ = 0
            /\ \/ InTheMiddle
               \/ sinceWeak < rfactor * (IF FailedSpine = 0 /\ Len(flow.failedLinks) = 1
                                         THEN 2 ELSE 1)]_vars
===============================================================================
