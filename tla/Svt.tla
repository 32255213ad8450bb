--------------------------------- MODULE Svt ----------------------------------
(***************************************************************************)
(* The spine selection of a SAPS sender among several link failures: the   *)
(* part of TcpAgent::output and nextValidLink (tcp/tcp.cc) that runs when  *)
(* failureAware_, roundRobin_, selectiveSpraying_ and realisticFailure_    *)
(* are set and numFailures_ > 1 (SAPS, SAPS-DAU and HPO).                  *)
(*                                                                         *)
(* At the first packet the flow sorts the spines into tables, its SVTs, by *)
(* the failures of the fabric, counting each table, and draws the table it *)
(* is mapped to with probabilities computed from the counts.               *)
(* Packets are then sent in flowcells, one uplink each: round robin over   *)
(* all uplinks until the failure is detected, over the table afterwards,   *)
(* and a flow that has grown is mapped away from the failures.             *)
(*                                                                         *)
(* An array of 1 and -1 is the set of its indices that hold 1.             *)
(***************************************************************************)
EXTENDS Integers, Sequences, FiniteSets

CONSTANTS
  numUplinks,
  Leaves, srcLeaf_, destLeaf_,
  Cases,                \* lists of failures, as allFailedLinks holds them, each
                        \* with the settings of a flow that meets them
  healthyLinkCapacity, failureRatio_,
  dynamicMappingThreshold_, dynamicMappingThresholdGL2GL_,
  flowcellSizePkts_,
  PktBytes,             \* bytes of a data packet
  MaxPkts               \* bound: packets of the flow

Uplinks == 0 .. numUplinks - 1

(* A failed link; full is a failureRatio of 100.                           *)
Failures == [leaf : Leaves, spine : Uplinks, full : BOOLEAN]

ASSUME UplinksAssumption == numUplinks \in Nat \ {0}
(* The settings of a flow that the script gives its agent.                 *)
FlowSettings ==
  [flowsizeBytes : Nat, dynamicMapping_ : BOOLEAN, healthyPathOnly_ : BOOLEAN,
   DA_sprayOnly_ : BOOLEAN, fromFailedLeaf_ : BOOLEAN, toFailedLeaf_ : BOOLEAN,
   poorPathFlow_ : BOOLEAN, failureCase_ : 0 .. 2]

ASSUME CasesAssumption ==
  \A case \in Cases :
    case[1] \in Seq(Failures) /\ Len(case[1]) > 1 /\ case[2] \in FlowSettings
ASSUME SizesAssumption ==
  /\ healthyLinkCapacity \in Nat /\ failureRatio_ \in Nat \ {0}
  /\ dynamicMappingThreshold_ \in Nat /\ dynamicMappingThresholdGL2GL_ \in Nat
  /\ flowcellSizePkts_ \in Nat \ {0} /\ PktBytes \in Nat /\ MaxPkts \in Nat

VARIABLES
  pc,                   \* "classify", "send", or "looping" in nextValidLink for ever
  failedLinks, flow,    \* the failures and settings of this flow: never change
  j,                    \* the next entry of failedLinks to classify
  svt_NoFailure, svt_partialFailure, fullFailureSpines,
  svt_DA_NoFailure, svt_DA_partialFailure, svt_DA_fullFailure,
  numDirectFailures_, numDirectPartialFailurePaths, numDirectFullFailurePaths,
  numIndirectPartialFailurePaths, numIndirectFullFailurePaths,
  svtMapping,           \* the table the flow uses, see Table
  linkID_,              \* the uplink of the current flowcell
  ndatapack_, ndatabytes_,
  poorPathFlow_,
  detection             \* of the failure: "before", "detected", "over"

tables   == <<svt_NoFailure, svt_partialFailure, fullFailureSpines,
              svt_DA_NoFailure, svt_DA_partialFailure, svt_DA_fullFailure>>
counters == <<numDirectFailures_, numDirectPartialFailurePaths, numDirectFullFailurePaths,
              numIndirectPartialFailurePaths, numIndirectFullFailurePaths>>
sending  == <<svtMapping, linkID_, ndatapack_, ndatabytes_, poorPathFlow_>>
vars == <<pc, failedLinks, flow, j, tables, counters, sending, detection>>

(* The first packet, after the arrays are filled and the list is parsed.   *)
Init ==
  /\ pc = "classify"
  /\ \E case \in Cases : failedLinks = case[1] /\ flow = case[2]
  /\ j = 1
  /\ svt_NoFailure = Uplinks /\ svt_DA_NoFailure = Uplinks
  /\ svt_partialFailure = {} /\ fullFailureSpines = {}
  /\ svt_DA_partialFailure = {} /\ svt_DA_fullFailure = {}
  /\ numDirectFailures_ = 0
  /\ numDirectPartialFailurePaths = 0 /\ numDirectFullFailurePaths = 0
  /\ numIndirectPartialFailurePaths = 0 /\ numIndirectFullFailurePaths = 0
  /\ svtMapping = 0
  /\ linkID_ = numUplinks - 1
  /\ ndatapack_ = 0 /\ ndatabytes_ = 0
  /\ poorPathFlow_ = flow.poorPathFlow_
  /\ detection = "before"

-------------------------------------------------------------------------------
(* The classification loop, one failed link a step.                        *)

Direct(f) == f.leaf \in {srcLeaf_, destLeaf_}

(* 1 if the condition holds: what a counter moves by.                      *)
One(condition) == IF condition THEN 1 ELSE 0

(* The first failure between this pair of leaves and the spine.  An        *)
(* indirect failure seen on it earlier no longer counts.                   *)
NewDirect(f) ==
  /\ Direct(f)
  /\ f.spine \in svt_NoFailure
  /\ svt_NoFailure' = svt_NoFailure \ {f.spine}
  /\ svt_DA_NoFailure' = svt_DA_NoFailure \ {f.spine}
  /\ numDirectFailures_' = numDirectFailures_ + 1
  /\ fullFailureSpines' = fullFailureSpines \union (IF f.full THEN {f.spine} ELSE {})
  /\ numDirectFullFailurePaths' = numDirectFullFailurePaths + One(f.full)
  /\ svt_partialFailure' = svt_partialFailure \union (IF f.full THEN {} ELSE {f.spine})
  /\ numDirectPartialFailurePaths' = numDirectPartialFailurePaths + One(~ f.full)
  /\ svt_DA_partialFailure' = svt_DA_partialFailure \ {f.spine}
  /\ numIndirectPartialFailurePaths' =
       numIndirectPartialFailurePaths - One(f.spine \in svt_DA_partialFailure)
  /\ svt_DA_fullFailure' =
       IF f.spine \in svt_DA_partialFailure THEN svt_DA_fullFailure
       ELSE svt_DA_fullFailure \ {f.spine}
  /\ numIndirectFullFailurePaths' =
       numIndirectFullFailurePaths
         - One(f.spine \notin svt_DA_partialFailure /\ f.spine \in svt_DA_fullFailure)

(* Mutants: the spine stays in the partial table; its counter stays.       *)
WorseDirectStaysPartial(f) ==
  /\ Direct(f)
  /\ f.spine \notin svt_NoFailure
  /\ f.full /\ f.spine \notin fullFailureSpines
  /\ fullFailureSpines' = fullFailureSpines \union {f.spine}
  /\ numDirectFullFailurePaths' = numDirectFullFailurePaths + 1
  /\ UNCHANGED <<svt_NoFailure, svt_partialFailure, svt_DA_NoFailure, svt_DA_partialFailure,
                 svt_DA_fullFailure, numDirectFailures_, numDirectPartialFailurePaths,
                 numIndirectPartialFailurePaths, numIndirectFullFailurePaths>>

WorseDirectStaysCounted(f) ==
  /\ Direct(f)
  /\ f.spine \notin svt_NoFailure
  /\ f.full /\ f.spine \notin fullFailureSpines
  /\ fullFailureSpines' = fullFailureSpines \union {f.spine}
  /\ numDirectFullFailurePaths' = numDirectFullFailurePaths + 1
  /\ svt_partialFailure' = svt_partialFailure \ {f.spine}
  /\ UNCHANGED <<svt_NoFailure, svt_DA_NoFailure, svt_DA_partialFailure, svt_DA_fullFailure,
                 numDirectFailures_, numDirectPartialFailurePaths,
                 numIndirectPartialFailurePaths, numIndirectFullFailurePaths>>

(* A second direct failure on a spine counts only if it makes it full.     *)
WorseDirect(f) ==
  /\ Direct(f)
  /\ f.spine \notin svt_NoFailure
  /\ f.full /\ f.spine \notin fullFailureSpines
  /\ fullFailureSpines' = fullFailureSpines \union {f.spine}
  /\ numDirectFullFailurePaths' = numDirectFullFailurePaths + 1
  /\ svt_partialFailure' = svt_partialFailure \ {f.spine}
  /\ numDirectPartialFailurePaths' =
       numDirectPartialFailurePaths - One(f.spine \in svt_partialFailure)
  /\ UNCHANGED <<svt_NoFailure, svt_DA_NoFailure, svt_DA_partialFailure, svt_DA_fullFailure,
                 numDirectFailures_, numIndirectPartialFailurePaths,
                 numIndirectFullFailurePaths>>

(* A failure of another pair of leaves on a spine with none so far.        *)
NewIndirect(f) ==
  /\ ~ Direct(f)
  /\ f.spine \in svt_NoFailure /\ f.spine \in svt_DA_NoFailure
  /\ svt_DA_NoFailure' = svt_DA_NoFailure \ {f.spine}
  /\ svt_DA_fullFailure' = svt_DA_fullFailure \union (IF f.full THEN {f.spine} ELSE {})
  /\ numIndirectFullFailurePaths' = numIndirectFullFailurePaths + One(f.full)
  /\ svt_DA_partialFailure' = svt_DA_partialFailure \union (IF f.full THEN {} ELSE {f.spine})
  /\ numIndirectPartialFailurePaths' = numIndirectPartialFailurePaths + One(~ f.full)
  /\ UNCHANGED <<svt_NoFailure, svt_partialFailure, fullFailureSpines, numDirectFailures_,
                 numDirectPartialFailurePaths, numDirectFullFailurePaths>>

(* Any other failure changes nothing.                                      *)
Ignored(f) ==
  /\ IF Direct(f)
     THEN f.spine \notin svt_NoFailure /\ ~ (f.full /\ f.spine \notin fullFailureSpines)
     ELSE f.spine \notin svt_NoFailure \/ f.spine \notin svt_DA_NoFailure
  /\ UNCHANGED <<tables, counters>>

Classify ==
  /\ pc = "classify"
  /\ j <= Len(failedLinks)
  /\ j' = j + 1
  /\ \/ NewDirect(failedLinks[j])
     \/ WorseDirect(failedLinks[j])
     \/ NewIndirect(failedLinks[j])
     \/ Ignored(failedLinks[j])
  /\ UNCHANGED <<pc, failedLinks, flow, sending, detection>>

-------------------------------------------------------------------------------
(* The draw of the table.                                                  *)

partialFailurePaths_BW ==
  numDirectPartialFailurePaths * (healthyLinkCapacity \div failureRatio_)
healthyPaths_BW ==
  (numUplinks - numDirectPartialFailurePaths - numDirectFullFailurePaths) * healthyLinkCapacity
total_BW ==
  (partialFailurePaths_BW + healthyPaths_BW) * (IF flow.toFailedLeaf_ THEN numUplinks - 1 ELSE 1)
indirectFailurePaths_BW ==
  (numIndirectFullFailurePaths + numIndirectPartialFailurePaths) * healthyLinkCapacity

(* Random::integer(k) of ns-2.                                             *)
Random(k) == IF k > 0 THEN 0 .. k - 1 ELSE {0}

(* A flow may use a failed spine while it is small, or may become so.      *)
MayUse(threshold) == flow.flowsizeBytes < threshold \/ flow.dynamicMapping_

(* Mutants: an off-by-one; HPO is forgotten.                               *)
ChoosePartialAtMost(draw) ==
  /\ MayUse(dynamicMappingThreshold_)
  /\ ~ flow.healthyPathOnly_
  /\ draw <= partialFailurePaths_BW

ChoosePartialForAll(draw) ==
  MayUse(dynamicMappingThreshold_) /\ draw < partialFailurePaths_BW

ChoosePartial(draw) ==
  /\ MayUse(dynamicMappingThreshold_)
  /\ ~ flow.healthyPathOnly_
  /\ draw < partialFailurePaths_BW

AvoidsAsymmetry(incomingTrafficToDestLeaf) ==
  /\ ~ flow.healthyPathOnly_ /\ ~ flow.DA_sprayOnly_
  /\ numIndirectFullFailurePaths + numIndirectPartialFailurePaths > 0
  /\ incomingTrafficToDestLeaf

ChooseIndirect(draw) ==
  MayUse(dynamicMappingThresholdGL2GL_) /\ draw < indirectFailurePaths_BW

(* incomingTrafficToDestLeaf is what get-incoming-traffic of the Simulator *)
(* says at this moment.                                                    *)
MapFlow ==
  /\ pc = "classify"
  /\ j > Len(failedLinks)
  /\ pc' = "send"
  /\ \E randNum_totalBW \in Random(total_BW), randNum_healthyBW \in Random(healthyPaths_BW),
        randNum_DA_indirectFailureBW \in Random(indirectFailurePaths_BW),
        incomingTrafficToDestLeaf \in BOOLEAN :
       svtMapping' =
         IF ChoosePartial(randNum_totalBW) THEN 1
         ELSE IF ~ AvoidsAsymmetry(incomingTrafficToDestLeaf) THEN 0
         ELSE IF ~ ChooseIndirect(randNum_healthyBW) THEN 10
         ELSE IF randNum_DA_indirectFailureBW
                   < numIndirectPartialFailurePaths * healthyLinkCapacity THEN 11
         ELSE 12
  /\ UNCHANGED <<failedLinks, flow, j, tables, counters, linkID_, ndatapack_, ndatabytes_,
                 poorPathFlow_, detection>>

-------------------------------------------------------------------------------
(* A packet.                                                               *)

(* The table that svtMapping names.                                        *)
Table(mapping) ==
  CASE mapping = 0  -> svt_NoFailure
    [] mapping = 1  -> svt_partialFailure
    [] mapping = 10 -> svt_DA_NoFailure
    [] mapping = 11 -> svt_DA_partialFailure
    [] mapping = 12 -> svt_DA_fullFailure

(* Mutant: no wrap.                                                        *)
LinkUnwrapped(k) == linkID_ + k

Link(k) == (linkID_ + k) % numUplinks

(* Mutant: the next link, valid or not.                                    *)
nextLink(table) == {Link(1)}

(* nextValidLink(): the uplinks after the current one are tried in turn.   *)
nextValidLink(table) ==
  {Link(k) : k \in {n \in 1 .. numUplinks :
                      Link(n) \in table /\ \A m \in 1 .. n - 1 : Link(m) \notin table}}

StartsFlowcell == ndatapack_ % flowcellSizePkts_ = 0

(* The packet goes out; a SYN carries no data.                             *)
Sent ==
  /\ ndatapack_' = ndatapack_ + 1
  /\ \E databytes \in {0, PktBytes} : ndatabytes_' = ndatabytes_ + databytes
  /\ UNCHANGED <<failedLinks, flow, j, tables, counters, detection>>

CanSend == pc = "send" /\ ndatapack_ < MaxPkts

(* Without a detected failure every uplink takes its turn.                 *)
SendUnaware ==
  /\ CanSend
  /\ detection # "detected"
  /\ linkID_' = IF StartsFlowcell THEN Link(1) ELSE linkID_
  /\ Sent
  /\ UNCHANGED <<pc, svtMapping, poorPathFlow_>>

(* Mutants: the thresholds are swapped; no flow is remapped.               *)
RemappedSwapped ==
  IF flow.dynamicMapping_ /\ svtMapping = 1 /\ ndatabytes_ > dynamicMappingThresholdGL2GL_
  THEN IF flow.DA_sprayOnly_ THEN 0 ELSE 10
  ELSE IF flow.dynamicMapping_ /\ svtMapping \in {11, 12}
            /\ ndatabytes_ > dynamicMappingThreshold_
  THEN 10
  ELSE svtMapping

RemappedNever == svtMapping

(* The mapping of a flow that has sent this much.                          *)
Remapped ==
  IF flow.dynamicMapping_ /\ svtMapping = 1 /\ ndatabytes_ > dynamicMappingThreshold_
  THEN IF flow.DA_sprayOnly_ THEN 0 ELSE 10
  ELSE IF flow.dynamicMapping_ /\ svtMapping \in {11, 12}
            /\ ndatabytes_ > dynamicMappingThresholdGL2GL_
  THEN 10
  ELSE svtMapping

(* Mutant: any packet toggles.                                             *)
SendAnyFirst ==
  /\ CanSend
  /\ detection = "detected"
  /\ svtMapping' = Remapped
  /\ linkID_' \in nextValidLink(Table(svtMapping'))
  /\ Sent
  /\ UNCHANGED <<pc, poorPathFlow_>>

(* The first packet of a flowcell toggles to the next link of the table.   *)
SendFirst ==
  /\ CanSend
  /\ detection = "detected"
  /\ StartsFlowcell
  /\ svtMapping' = Remapped
  /\ linkID_' \in nextValidLink(Table(svtMapping'))
  /\ Sent
  /\ UNCHANGED <<pc, poorPathFlow_>>

(* With an empty table the loop of nextValidLink does not end.             *)
LoopForEver ==
  /\ CanSend
  /\ detection = "detected"
  /\ StartsFlowcell
  /\ svtMapping' = Remapped
  /\ Table(svtMapping') = {}
  /\ pc' = "looping"
  /\ linkID_' \in Uplinks
  /\ UNCHANGED <<failedLinks, flow, j, tables, counters, ndatapack_, ndatabytes_,
                 poorPathFlow_, detection>>

(* The other packets of a flowcell fall through to the code for a single   *)
(* failure, where the script's poorPathFlow_ can still move the flow.      *)
PoorPathThreshold ==
  IF flow.failureCase_ = 1 /\ (flow.fromFailedLeaf_ \/ flow.toFailedLeaf_)
  THEN dynamicMappingThreshold_
  ELSE dynamicMappingThresholdGL2GL_

LeavesPoorPath == poorPathFlow_ /\ flow.dynamicMapping_ /\ ndatabytes_ > PoorPathThreshold

FullFailureLink ==
  LET spine == failedLinks[1].spine
      next  == (spine + 1) % numUplinks
  IN IF ~ LeavesPoorPath THEN spine
     ELSE IF next = spine THEN (next + 1) % numUplinks
     ELSE next

SendRest ==
  /\ CanSend
  /\ detection = "detected"
  /\ ~ StartsFlowcell
  /\ linkID_' = IF ~ poorPathFlow_ THEN linkID_
                ELSE IF flow.failureCase_ = 2 THEN FullFailureLink
                ELSE IF LeavesPoorPath THEN Link(1)
                ELSE linkID_
  /\ poorPathFlow_' = (poorPathFlow_ /\ ~ LeavesPoorPath)
  /\ Sent
  /\ UNCHANGED <<pc, svtMapping>>

(* The clock passes failureStartTime_ + failureDetectionDelay_, and later  *)
(* the same after the failure has been repaired.                           *)
Detect ==
  /\ flow.failureCase_ # 0
  /\ \/ detection = "before" /\ detection' = "detected"
     \/ detection = "detected" /\ detection' = "over"
  /\ UNCHANGED <<pc, failedLinks, flow, j, tables, counters, sending>>

Next ==
  \/ Classify \/ MapFlow
  \/ SendUnaware \/ SendFirst \/ LoopForEver \/ SendRest
  \/ Detect

Spec == Init /\ [][Next]_vars

-------------------------------------------------------------------------------
(* Properties.                                                             *)

TypeOK ==
  /\ pc \in {"classify", "send", "looping"}
  /\ failedLinks \in Seq(Failures) /\ Len(failedLinks) > 1
  /\ flow \in FlowSettings
  /\ j \in 1 .. Len(failedLinks) + 1
  /\ svt_NoFailure \subseteq Uplinks /\ svt_partialFailure \subseteq Uplinks
  /\ fullFailureSpines \subseteq Uplinks /\ svt_DA_NoFailure \subseteq Uplinks
  /\ svt_DA_partialFailure \subseteq Uplinks /\ svt_DA_fullFailure \subseteq Uplinks
  /\ numDirectFailures_ \in Int
  /\ numDirectPartialFailurePaths \in Int /\ numDirectFullFailurePaths \in Int
  /\ numIndirectPartialFailurePaths \in Int /\ numIndirectFullFailurePaths \in Int
  /\ svtMapping \in {0, 1, 10, 11, 12}
  /\ linkID_ \in Uplinks
  /\ ndatapack_ \in Nat /\ ndatabytes_ \in Nat
  /\ poorPathFlow_ \in BOOLEAN
  /\ detection \in {"before", "detected", "over"}

(* The failures classified so far.                                         *)
Known == {failedLinks[i] : i \in 1 .. j - 1}
SpinesOf(failures) == {f.spine : f \in failures}

DirectSpines == SpinesOf({f \in Known : Direct(f)})
FullSpines   == SpinesOf({f \in Known : Direct(f) /\ f.full})

(* Whatever the order of the list, and however often it names a spine, the *)
(* tables say what the failures say: a spine is without failure, partially *)
(* or fully failed for this pair of leaves, and one without failure is     *)
(* asymmetric exactly when some other leaf has lost it (the loop over      *)
(* failedLinks in output()).                                               *)
TablesAreRight ==
  /\ svt_NoFailure = Uplinks \ DirectSpines
  /\ fullFailureSpines = FullSpines
  /\ svt_partialFailure = DirectSpines \ FullSpines
  /\ svt_DA_NoFailure = Uplinks \ SpinesOf(Known)
  /\ svt_DA_partialFailure \union svt_DA_fullFailure = SpinesOf(Known) \ DirectSpines
  /\ svt_DA_partialFailure \intersect svt_DA_fullFailure = {}

(* The counters, from which the bandwidths and so the probabilities of the *)
(* tables are computed, are the sizes of the tables, through all the moves *)
(* of a spine from one table to another.                                   *)
CountersAreRight ==
  /\ numDirectFailures_ = Cardinality(Uplinks \ svt_NoFailure)
  /\ numDirectPartialFailurePaths = Cardinality(svt_partialFailure)
  /\ numDirectFullFailurePaths = Cardinality(fullFailureSpines)
  /\ numIndirectPartialFailurePaths = Cardinality(svt_DA_partialFailure)
  /\ numIndirectFullFailurePaths = Cardinality(svt_DA_fullFailure)

(* The first packet of a flowcell is sent while the failure is known.      *)
NewFlowcell == detection = "detected" /\ StartsFlowcell /\ ndatapack_' # ndatapack_

(* Once the failure is detected, no flowcell starts on a spine that this   *)
(* pair of leaves has lost, and one of an HPO flow on no failed link at    *)
(* all.                                                                    *)
FlowcellsReachTheirLeaf ==
  [][NewFlowcell =>
       /\ linkID_' \notin FullSpines
       /\ flow.healthyPathOnly_ => linkID_' \notin DirectSpines]_vars

(* The size awareness of SAPS: once the failure is detected, a flowcell    *)
(* starts on a partially failed link, or is mapped to an asymmetric spine, *)
(* only for a flow that is small, or with dynamic mapping has sent little  *)
(* so far.                                                                 *)
Small(threshold) ==
  IF flow.dynamicMapping_ THEN ndatabytes_ <= threshold ELSE flow.flowsizeBytes < threshold

LargeFlowsAvoidFailures ==
  [][NewFlowcell =>
       /\ linkID_' \in DirectSpines => Small(dynamicMappingThreshold_)
       /\ linkID_' \in SpinesOf(Known) \ DirectSpines /\ svtMapping' # 0
            => Small(dynamicMappingThresholdGL2GL_)]_vars

(* A flowcell is not reordered: all its packets take the uplink of the     *)
(* first ("LB decision for this flowcell"), also when the failure is       *)
(* detected or over in the middle of it.                                   *)
FlowcellHasOneUplink ==
  [][ndatapack_' # ndatapack_ /\ ~ StartsFlowcell => linkID_' = linkID_]_vars

(* The flows that keep to this: all but those the script has marked as     *)
(* being on the poor path of a failure.                                    *)
UnmarkedFlowcellHasOneUplink ==
  [][ndatapack_' # ndatapack_ /\ ~ StartsFlowcell /\ ~ flow.poorPathFlow_
       => linkID_' = linkID_]_vars

(* nextValidLink finds "the next valid link within the SVT this flow has   *)
(* been mapped to" whenever some spine is on no failed link: the draw and  *)
(* the remapping choose only tables that have one.                         *)
SomeSpineIsSound ==
  \E s \in Uplinks : \A i \in 1 .. Len(failedLinks) : failedLinks[i].spine # s

NextLinkIsFound == SomeSpineIsSound => pc # "looping"
===============================================================================
