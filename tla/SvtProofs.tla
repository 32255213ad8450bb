------------------------------ MODULE SvtProofs -------------------------------
(***************************************************************************)
(* Proofs about the tables of a flow (module Svt), for every number of     *)
(* uplinks, every list of failures and every flow.                         *)
(*                                                                         *)
(* The counters are right only because the tables are: a spine that moves  *)
(* is in the table it leaves and not in the one it enters.  So the tables  *)
(* and the counters are one inductive invariant.                           *)
(***************************************************************************)
EXTENDS Svt, FiniteSetTheorems, TLAPS

(* A set of uplinks has a size.                                            *)
LEMMA UplinksFinite ==
  ASSUME NEW S \in SUBSET Uplinks
  PROVE  IsFiniteSet(S) /\ Cardinality(S) \in Nat
<1>1. IsFiniteSet(Uplinks)
  BY UplinksAssumption, FS_Interval DEF Uplinks
<1>2. IsFiniteSet(S)
  BY <1>1, FS_Subset
<1> QED BY <1>2, FS_CardinalityType

(* A counter that moves by one exactly when the spine enters the table.    *)
LEMMA Entered ==
  ASSUME NEW S \in SUBSET Uplinks, NEW x \in Uplinks, x \notin S, NEW c \in BOOLEAN
  PROVE  Cardinality(S \union (IF c THEN {x} ELSE {})) = Cardinality(S) + One(c)
<1>1. IsFiniteSet(S) /\ Cardinality(S) \in Nat
  BY UplinksFinite
<1>2. CASE c
  BY <1>1, <1>2, FS_AddElement DEF One
<1>3. CASE ~ c
  <2>1. S \union (IF c THEN {x} ELSE {}) = S  BY <1>3
  <2> QED BY <1>1, <1>3, <2>1 DEF One
<1> QED BY <1>2, <1>3

(* A counter that moves by one exactly when the spine leaves the table.    *)
LEMMA Left ==
  ASSUME NEW S \in SUBSET Uplinks, NEW x \in Uplinks
  PROVE  Cardinality(S \ {x}) = Cardinality(S) - One(x \in S)
<1>1. IsFiniteSet(S) /\ Cardinality(S) \in Nat
  BY UplinksFinite
<1>2. CASE x \in S
  BY <1>1, <1>2, FS_RemoveElement DEF One
<1>3. CASE x \notin S
  <2>1. S \ {x} = S  BY <1>3
  <2> QED BY <1>1, <1>3, <2>1 DEF One
<1> QED BY <1>2, <1>3

-------------------------------------------------------------------------------
(* What a flow is mapped to, it may use.                                   *)
MappingIsMeant ==
  /\ svtMapping = 1 => MayUse(dynamicMappingThreshold_) /\ ~ flow.healthyPathOnly_
  /\ svtMapping \in {11, 12} => MayUse(dynamicMappingThresholdGL2GL_)

IInv == TypeOK /\ TablesAreRight /\ CountersAreRight /\ MappingIsMeant

(* The invariant holds before the first failure is classified: every spine  *)
(* is in the table without failure and nothing is counted.                  *)
LEMMA InitIInv == Init => IInv
<1> SUFFICES ASSUME Init PROVE IInv
  OBVIOUS
<1> USE DEF Init
<1>1. failedLinks \in Seq(Failures) /\ Len(failedLinks) > 1
  BY CasesAssumption
<1>2. TypeOK
  <2>0. flow \in FlowSettings
    BY CasesAssumption
  <2>1. numUplinks - 1 \in Uplinks
    BY UplinksAssumption DEF Uplinks
  <2>2. flow.poorPathFlow_ \in BOOLEAN
    BY CasesAssumption DEF FlowSettings
  <2>3. 1 \in 1 .. Len(failedLinks) + 1
    BY <1>1
  <2> QED BY <1>1, <2>0, <2>1, <2>2, <2>3 DEF TypeOK
<1>3. Known = {} /\ SpinesOf(Known) = {} /\ DirectSpines = {} /\ FullSpines = {}
  BY DEF Known, SpinesOf, DirectSpines, FullSpines
<1>4. TablesAreRight
  BY <1>3 DEF TablesAreRight
<1>5. CountersAreRight
  <2>1. Uplinks \ svt_NoFailure = {}  OBVIOUS
  <2> QED BY <2>1, FS_EmptySet DEF CountersAreRight
<1>6. MappingIsMeant
  BY DEF MappingIsMeant
<1> QED BY <1>2, <1>4, <1>5, <1>6 DEF IInv

-------------------------------------------------------------------------------
(* One iteration of the classification loop.                               *)

(* The failure classified is known from then on.                           *)
LEMMA KnownGrows ==
  ASSUME TypeOK, Classify
  PROVE  /\ failedLinks[j] \in Failures
         /\ SpinesOf(Known)' = SpinesOf(Known) \union {failedLinks[j].spine}
         /\ DirectSpines' = DirectSpines
              \union (IF Direct(failedLinks[j]) THEN {failedLinks[j].spine} ELSE {})
         /\ FullSpines' = FullSpines
              \union (IF Direct(failedLinks[j]) /\ failedLinks[j].full
                      THEN {failedLinks[j].spine} ELSE {})
<1>1. j \in 1 .. Len(failedLinks) /\ j' = j + 1 /\ failedLinks' = failedLinks
  BY DEF Classify, TypeOK
<1>2. failedLinks[j] \in Failures
  BY <1>1 DEF TypeOK
<1>3. Known' = Known \union {failedLinks[j]}
  <2>1. 1 .. j' - 1 = (1 .. j - 1) \union {j}  BY <1>1
  <2> QED BY <1>1, <2>1 DEF Known
<1>4. SpinesOf(Known)' = SpinesOf(Known) \union {failedLinks[j].spine}
  BY <1>3 DEF SpinesOf
<1>5. {f \in Known : Direct(f)}'
        = {f \in Known : Direct(f)} \union (IF Direct(failedLinks[j]) THEN {failedLinks[j]} ELSE {})
  BY <1>3 DEF Direct
<1>6. {f \in Known : Direct(f) /\ f.full}'
        = {f \in Known : Direct(f) /\ f.full}
            \union (IF Direct(failedLinks[j]) /\ failedLinks[j].full THEN {failedLinks[j]} ELSE {})
  BY <1>3 DEF Direct
<1>7. DirectSpines' = DirectSpines
        \union (IF Direct(failedLinks[j]) THEN {failedLinks[j].spine} ELSE {})
  BY <1>5 DEF DirectSpines, SpinesOf
<1>8. FullSpines' = FullSpines
        \union (IF Direct(failedLinks[j]) /\ failedLinks[j].full
                THEN {failedLinks[j].spine} ELSE {})
  BY <1>6 DEF FullSpines, SpinesOf
<1> QED BY <1>2, <1>4, <1>7, <1>8

(* A full failure is a direct failure, and every failure is known.         *)
LEMMA SpinesNested ==
  FullSpines \subseteq DirectSpines /\ DirectSpines \subseteq SpinesOf(Known)
BY DEF FullSpines, DirectSpines, SpinesOf

(* Classifying one more failure keeps the tables right.                     *)
LEMMA ClassifyTables ==
  ASSUME TypeOK, TablesAreRight, Classify
  PROVE  TablesAreRight'
<1> DEFINE f == failedLinks[j]
<1>1. /\ f \in Failures
      /\ SpinesOf(Known)' = SpinesOf(Known) \union {f.spine}
      /\ DirectSpines' = DirectSpines \union (IF Direct(f) THEN {f.spine} ELSE {})
      /\ FullSpines' = FullSpines \union (IF Direct(f) /\ f.full THEN {f.spine} ELSE {})
  BY KnownGrows
<1>2. f.spine \in Uplinks /\ f.full \in BOOLEAN
  BY <1>1 DEF Failures
<1>3. FullSpines \subseteq DirectSpines /\ DirectSpines \subseteq SpinesOf(Known)
  BY SpinesNested
<1>4. NewDirect(f) \/ WorseDirect(f) \/ NewIndirect(f) \/ Ignored(f)
  BY DEF Classify
<1> HIDE DEF f
<1>5. CASE NewDirect(f)
  BY <1>1, <1>2, <1>3, <1>5 DEF NewDirect, TablesAreRight
<1>6. CASE WorseDirect(f)
  BY <1>1, <1>2, <1>3, <1>6 DEF WorseDirect, TablesAreRight
<1>7. CASE NewIndirect(f)
  BY <1>1, <1>2, <1>3, <1>7 DEF NewIndirect, TablesAreRight
<1>8. CASE Ignored(f)
  BY <1>1, <1>2, <1>3, <1>8 DEF Ignored, TablesAreRight, tables
<1> QED BY <1>4, <1>5, <1>6, <1>7, <1>8

(* Classifying one more failure moves each counter by as much as its table  *)
(* grows or shrinks.                                                        *)
LEMMA ClassifyCounters ==
  ASSUME TypeOK, TablesAreRight, CountersAreRight, Classify
  PROVE  CountersAreRight'
<1> DEFINE f == failedLinks[j]
<1>1. f \in Failures
  BY KnownGrows
<1>2. f.spine \in Uplinks /\ f.full \in BOOLEAN
  BY <1>1 DEF Failures
<1>3. FullSpines \subseteq DirectSpines /\ DirectSpines \subseteq SpinesOf(Known)
  BY SpinesNested
<1>4. NewDirect(f) \/ WorseDirect(f) \/ NewIndirect(f) \/ Ignored(f)
  BY DEF Classify
<1> HIDE DEF f
<1> DEFINE x == f.spine
<1>5. CASE NewDirect(f)
  <2>1. /\ x \notin fullFailureSpines /\ x \notin svt_partialFailure
        /\ x \notin Uplinks \ svt_NoFailure
        /\ x \in svt_DA_partialFailure => x \notin svt_DA_fullFailure
    BY <1>2, <1>3, <1>5 DEF NewDirect, TablesAreRight
  <2>2. numDirectFailures_' = Cardinality(Uplinks \ svt_NoFailure)'
    <3>1. (Uplinks \ svt_NoFailure)' = (Uplinks \ svt_NoFailure) \union (IF TRUE THEN {x} ELSE {})
      BY <1>2, <1>5 DEF NewDirect
    <3>2. Cardinality((Uplinks \ svt_NoFailure) \union (IF TRUE THEN {x} ELSE {}))
            = Cardinality(Uplinks \ svt_NoFailure) + One(TRUE)
      BY <1>2, <2>1, Entered
    <3> QED BY <1>5, <3>1, <3>2 DEF NewDirect, CountersAreRight, One
  <2>3. numDirectPartialFailurePaths' = Cardinality(svt_partialFailure)'
    <3>1. svt_partialFailure' = svt_partialFailure \union (IF ~ f.full THEN {x} ELSE {})
      BY <1>2, <1>5 DEF NewDirect
    <3>2. Cardinality(svt_partialFailure \union (IF ~ f.full THEN {x} ELSE {}))
            = Cardinality(svt_partialFailure) + One(~ f.full)
      BY <1>2, <2>1, Entered DEF TypeOK
    <3> QED BY <1>5, <3>1, <3>2 DEF NewDirect, CountersAreRight
  <2>4. numDirectFullFailurePaths' = Cardinality(fullFailureSpines)'
    <3>1. Cardinality(fullFailureSpines \union (IF f.full THEN {x} ELSE {}))
            = Cardinality(fullFailureSpines) + One(f.full)
      BY <1>2, <2>1, Entered DEF TypeOK
    <3> QED BY <1>5, <3>1 DEF NewDirect, CountersAreRight
  <2>5. numIndirectPartialFailurePaths' = Cardinality(svt_DA_partialFailure)'
    <3>1. Cardinality(svt_DA_partialFailure \ {x})
            = Cardinality(svt_DA_partialFailure) - One(x \in svt_DA_partialFailure)
      BY <1>2, Left DEF TypeOK
    <3> QED BY <1>5, <3>1 DEF NewDirect, CountersAreRight
  <2>6. numIndirectFullFailurePaths' = Cardinality(svt_DA_fullFailure)'
    <3>1. svt_DA_fullFailure' = svt_DA_fullFailure \ {x}
      BY <1>5, <2>1 DEF NewDirect
    <3>2. Cardinality(svt_DA_fullFailure \ {x})
            = Cardinality(svt_DA_fullFailure) - One(x \in svt_DA_fullFailure)
      BY <1>2, Left DEF TypeOK
    <3>3. One(x \notin svt_DA_partialFailure /\ x \in svt_DA_fullFailure)
            = One(x \in svt_DA_fullFailure)
      BY <2>1 DEF One
    <3> QED BY <1>5, <3>1, <3>2, <3>3 DEF NewDirect, CountersAreRight
  <2> QED BY <2>2, <2>3, <2>4, <2>5, <2>6 DEF CountersAreRight
<1>6. CASE WorseDirect(f)
  <2>1. x \notin fullFailureSpines
    BY <1>6 DEF WorseDirect
  <2>2. numDirectFullFailurePaths' = Cardinality(fullFailureSpines)'
    <3>1. fullFailureSpines' = fullFailureSpines \union (IF TRUE THEN {x} ELSE {})
      BY <1>6 DEF WorseDirect
    <3>2. Cardinality(fullFailureSpines \union (IF TRUE THEN {x} ELSE {}))
            = Cardinality(fullFailureSpines) + One(TRUE)
      BY <1>2, <2>1, Entered DEF TypeOK
    <3> QED BY <1>6, <3>1, <3>2 DEF WorseDirect, CountersAreRight, One
  <2>3. numDirectPartialFailurePaths' = Cardinality(svt_partialFailure)'
    <3>1. Cardinality(svt_partialFailure \ {x})
            = Cardinality(svt_partialFailure) - One(x \in svt_partialFailure)
      BY <1>2, Left DEF TypeOK
    <3> QED BY <1>6, <3>1 DEF WorseDirect, CountersAreRight
  <2> QED BY <1>6, <2>2, <2>3 DEF WorseDirect, CountersAreRight
<1>7. CASE NewIndirect(f)
  <2>1. x \notin svt_DA_partialFailure /\ x \notin svt_DA_fullFailure
    BY <1>2, <1>3, <1>7 DEF NewIndirect, TablesAreRight
  <2>2. numIndirectPartialFailurePaths' = Cardinality(svt_DA_partialFailure)'
    <3>1. svt_DA_partialFailure' = svt_DA_partialFailure \union (IF ~ f.full THEN {x} ELSE {})
      BY <1>2, <1>7 DEF NewIndirect
    <3>2. Cardinality(svt_DA_partialFailure \union (IF ~ f.full THEN {x} ELSE {}))
            = Cardinality(svt_DA_partialFailure) + One(~ f.full)
      BY <1>2, <2>1, Entered DEF TypeOK
    <3> QED BY <1>7, <3>1, <3>2 DEF NewIndirect, CountersAreRight
  <2>3. numIndirectFullFailurePaths' = Cardinality(svt_DA_fullFailure)'
    <3>1. Cardinality(svt_DA_fullFailure \union (IF f.full THEN {x} ELSE {}))
            = Cardinality(svt_DA_fullFailure) + One(f.full)
      BY <1>2, <2>1, Entered DEF TypeOK
    <3> QED BY <1>7, <3>1 DEF NewIndirect, CountersAreRight
  <2> QED BY <1>7, <2>2, <2>3 DEF NewIndirect, CountersAreRight
<1>8. CASE Ignored(f)
  BY <1>8 DEF Ignored, tables, counters, CountersAreRight
<1> QED BY <1>4, <1>5, <1>6, <1>7, <1>8

-------------------------------------------------------------------------------
(* The other steps leave the tables alone.                                 *)

(* (linkID_ + k) % numUplinks is an uplink.                                *)
LEMMA LinkIsUplink ==
  ASSUME TypeOK, NEW k \in Nat
  PROVE  Link(k) \in Uplinks
BY UplinksAssumption DEF Link, Uplinks, TypeOK

(* nextValidLink returns a link of the table.                              *)
LEMMA NextLinkInTable ==
  ASSUME TypeOK, NEW table, NEW l \in nextValidLink(table)
  PROVE  l \in table /\ l \in Uplinks
<1>1. PICK k \in 1 .. numUplinks : l = Link(k) /\ Link(k) \in table
  BY DEF nextValidLink
<1>2. k \in Nat
  BY UplinksAssumption
<1> QED BY <1>1, <1>2, LinkIsUplink

(* A send and its counters.                                                *)
LEMMA SentCounts ==
  ASSUME TypeOK, Sent
  PROVE  ndatapack_' \in Nat /\ ndatabytes_' \in Nat
BY SizesAssumption DEF Sent, TypeOK

(* The table a flow is remapped to.                                        *)
LEMMA RemappedTo ==
  ASSUME TypeOK
  PROVE  Remapped \in {0, 10, svtMapping} /\ Remapped \in {0, 1, 10, 11, 12}
BY DEF Remapped, TypeOK

(* The uplink of a packet inside a flowcell.                               *)
LEMMA SendRestLink ==
  ASSUME TypeOK, SendRest
  PROVE  linkID_' \in Uplinks
<1>1. Link(1) \in Uplinks
  BY LinkIsUplink
<1>2. failedLinks[1] \in Failures
  <2>1. 1 \in 1 .. Len(failedLinks)  BY DEF TypeOK
  <2> QED BY <2>1 DEF TypeOK
<1>3. failedLinks[1].spine \in Uplinks
  BY <1>2 DEF Failures
<1>4. FullFailureLink \in Uplinks
  BY <1>3, UplinksAssumption DEF FullFailureLink, Uplinks
<1> QED BY <1>1, <1>4 DEF SendRest, TypeOK

(* What no step but Classify touches keeps the invariant.                  *)
LEMMA TablesKept ==
  ASSUME IInv, UNCHANGED <<failedLinks, flow, j, tables, counters>>
  PROVE  TablesAreRight' /\ CountersAreRight'
<1>1. UNCHANGED <<SpinesOf(Known), DirectSpines, FullSpines>>
  BY DEF Known, DirectSpines, FullSpines, SpinesOf, Direct
<1>2. TablesAreRight'
  BY <1>1 DEF IInv, TablesAreRight, tables
<1>3. CountersAreRight'
  BY DEF IInv, CountersAreRight, tables, counters
<1> QED BY <1>2, <1>3

(* The invariant is inductive.                                              *)
LEMMA StepIInv == IInv /\ [Next]_vars => IInv'
<1> SUFFICES ASSUME IInv, [Next]_vars PROVE IInv'
  OBVIOUS
<1> USE DEF IInv
<1>1. CASE Classify
  <2>1. TablesAreRight' /\ CountersAreRight'
    BY <1>1, ClassifyTables, ClassifyCounters
  <2>2. TypeOK'
    <3>1. failedLinks[j] \in Failures
      BY <1>1, KnownGrows
    <3>2. failedLinks[j].spine \in Uplinks /\ failedLinks[j].full \in BOOLEAN
      BY <3>1 DEF Failures
    <3>3. UNCHANGED <<pc, failedLinks, flow, sending, detection>>
      BY <1>1 DEF Classify
    <3>4. j' \in 1 .. Len(failedLinks) + 1
      BY <1>1 DEF Classify, TypeOK
    <3>5. \/ NewDirect(failedLinks[j]) \/ WorseDirect(failedLinks[j])
          \/ NewIndirect(failedLinks[j]) \/ Ignored(failedLinks[j])
      BY <1>1 DEF Classify
    <3>6. /\ svt_NoFailure' \subseteq Uplinks /\ svt_partialFailure' \subseteq Uplinks
          /\ fullFailureSpines' \subseteq Uplinks /\ svt_DA_NoFailure' \subseteq Uplinks
          /\ svt_DA_partialFailure' \subseteq Uplinks /\ svt_DA_fullFailure' \subseteq Uplinks
      BY <3>2, <3>5 DEF TypeOK, NewDirect, WorseDirect, NewIndirect, Ignored, tables
    <3>7. /\ numDirectFailures_' \in Int
          /\ numDirectPartialFailurePaths' \in Int /\ numDirectFullFailurePaths' \in Int
          /\ numIndirectPartialFailurePaths' \in Int /\ numIndirectFullFailurePaths' \in Int
      <4>1. \A c : One(c) \in Int
        BY DEF One
      <4>2. CASE NewDirect(failedLinks[j])
        <5>1. PICK a, b, c, d : a = One(failedLinks[j].full) /\ b = One(~ failedLinks[j].full)
                /\ c = One(failedLinks[j].spine \in svt_DA_partialFailure)
                /\ d = One(/\ failedLinks[j].spine \notin svt_DA_partialFailure
                           /\ failedLinks[j].spine \in svt_DA_fullFailure)
          OBVIOUS
        <5>2. a \in Int /\ b \in Int /\ c \in Int /\ d \in Int
          BY <5>1 DEF One
        <5>3. /\ numDirectFailures_' = numDirectFailures_ + 1
              /\ numDirectFullFailurePaths' = numDirectFullFailurePaths + a
              /\ numDirectPartialFailurePaths' = numDirectPartialFailurePaths + b
              /\ numIndirectPartialFailurePaths' = numIndirectPartialFailurePaths - c
              /\ numIndirectFullFailurePaths' = numIndirectFullFailurePaths - d
          BY Zenon, <4>2, <5>1 DEF NewDirect
        <5> QED BY <5>2, <5>3 DEF TypeOK
      <4>3. CASE WorseDirect(failedLinks[j])
        BY <4>1, <4>3 DEF TypeOK, WorseDirect
      <4>4. CASE NewIndirect(failedLinks[j])
        BY <4>1, <4>4 DEF TypeOK, NewIndirect
      <4>5. CASE Ignored(failedLinks[j])
        BY <4>5 DEF TypeOK, Ignored, counters
      <4> QED BY <3>5, <4>2, <4>3, <4>4, <4>5
    <3>8. /\ pc' \in {"classify", "send", "looping"}
          /\ failedLinks' \in Seq(Failures) /\ Len(failedLinks') > 1
          /\ flow' \in FlowSettings /\ j' \in 1 .. Len(failedLinks') + 1
          /\ detection' \in {"before", "detected", "over"}
      BY <3>3, <3>4 DEF TypeOK
    <3>9. /\ svtMapping' \in {0, 1, 10, 11, 12} /\ linkID_' \in Uplinks
          /\ ndatapack_' \in Nat /\ ndatabytes_' \in Nat /\ poorPathFlow_' \in BOOLEAN
      BY <3>3 DEF TypeOK, sending
    <3> QED BY <3>6, <3>7, <3>8, <3>9 DEF TypeOK
  <2>3. MappingIsMeant'
    BY <1>1 DEF Classify, sending, MappingIsMeant, MayUse
  <2> QED BY <2>1, <2>2, <2>3
<1>2. CASE MapFlow
  <2>1. TablesAreRight' /\ CountersAreRight'
    BY <1>2, TablesKept DEF MapFlow
  <2>2. TypeOK'
    BY <1>2 DEF MapFlow, TypeOK, tables, counters
  <2>3. MappingIsMeant'
    BY <1>2 DEF MapFlow, MappingIsMeant, MayUse, ChoosePartial, ChooseIndirect
  <2> QED BY <2>1, <2>2, <2>3
<1>3. CASE SendUnaware
  <2>1. TablesAreRight' /\ CountersAreRight'
    BY <1>3, TablesKept DEF SendUnaware, Sent
  <2>2. linkID_' \in Uplinks
    BY <1>3, LinkIsUplink DEF SendUnaware, TypeOK
  <2>3. TypeOK'
    BY <1>3, <2>2, SentCounts DEF SendUnaware, Sent, TypeOK, tables, counters
  <2>4. MappingIsMeant'
    BY <1>3 DEF SendUnaware, Sent, MappingIsMeant, MayUse
  <2> QED BY <2>1, <2>3, <2>4
<1>4. CASE SendFirst
  <2>1. TablesAreRight' /\ CountersAreRight'
    BY <1>4, TablesKept DEF SendFirst, Sent
  <2>2. linkID_' \in Uplinks
    BY <1>4, NextLinkInTable DEF SendFirst
  <2>3. svtMapping' \in {0, 10, svtMapping} /\ svtMapping' \in {0, 1, 10, 11, 12}
    BY <1>4, RemappedTo DEF SendFirst
  <2>4. TypeOK'
    BY <1>4, <2>2, <2>3, SentCounts DEF SendFirst, Sent, TypeOK, tables, counters
  <2>5. MappingIsMeant'
    BY <1>4, <2>3 DEF SendFirst, Sent, MappingIsMeant, MayUse
  <2> QED BY <2>1, <2>4, <2>5
<1>5. CASE LoopForEver
  <2>1. TablesAreRight' /\ CountersAreRight'
    BY <1>5, TablesKept DEF LoopForEver
  <2>2. svtMapping' \in {0, 10, svtMapping} /\ svtMapping' \in {0, 1, 10, 11, 12}
    BY <1>5, RemappedTo DEF LoopForEver
  <2>3. TypeOK'
    BY <1>5, <2>2 DEF LoopForEver, TypeOK, tables, counters
  <2>4. MappingIsMeant'
    BY <1>5, <2>2 DEF LoopForEver, MappingIsMeant, MayUse
  <2> QED BY <2>1, <2>3, <2>4
<1>6. CASE SendRest
  <2>1. TablesAreRight' /\ CountersAreRight'
    BY <1>6, TablesKept DEF SendRest, Sent
  <2>2. poorPathFlow_' \in BOOLEAN
    BY <1>6 DEF SendRest
  <2>3. TypeOK'
    BY <1>6, <2>2, SendRestLink, SentCounts DEF SendRest, Sent, TypeOK, tables, counters
  <2>4. MappingIsMeant'
    BY <1>6 DEF SendRest, Sent, MappingIsMeant, MayUse
  <2> QED BY <2>1, <2>3, <2>4
<1>7. CASE Detect
  <2>1. TablesAreRight' /\ CountersAreRight'
    BY <1>7, TablesKept DEF Detect
  <2>2. TypeOK'
    BY <1>7 DEF Detect, TypeOK, tables, counters, sending
  <2>3. MappingIsMeant'
    BY <1>7 DEF Detect, sending, MappingIsMeant, MayUse
  <2> QED BY <2>1, <2>2, <2>3
<1>8. CASE UNCHANGED vars
  <2>1. TablesAreRight' /\ CountersAreRight'
    BY <1>8, TablesKept DEF vars
  <2>2. TypeOK'
    BY <1>8 DEF vars, TypeOK, tables, counters, sending
  <2>3. MappingIsMeant'
    BY <1>8 DEF vars, sending, MappingIsMeant, MayUse
  <2> QED BY <2>1, <2>2, <2>3
<1> QED BY <1>1, <1>2, <1>3, <1>4, <1>5, <1>6, <1>7, <1>8 DEF Next

(* The invariant holds in every reachable state.                            *)
LEMMA SvtIInv == Spec => []IInv
BY InitIInv, StepIInv, PTL DEF Spec

(* The tables hold uplinks, the counters integers, the link of a flow is   *)
(* always an uplink (the state of TcpAgent::output for SAPS).              *)
THEOREM SvtTypeOK == Spec => []TypeOK
<1>1. IInv => TypeOK  BY DEF IInv
<1> QED BY <1>1, SvtIInv, PTL

(* Whatever the list of failures and its order, the tables say what it     *)
(* says (the classification loop of output()).                             *)
THEOREM SvtTables == Spec => []TablesAreRight
<1>1. IInv => TablesAreRight  BY DEF IInv
<1> QED BY <1>1, SvtIInv, PTL

(* The counters the probabilities are computed from are the sizes of the   *)
(* tables.                                                                 *)
THEOREM SvtCounters == Spec => []CountersAreRight
<1>1. IInv => CountersAreRight  BY DEF IInv
<1> QED BY <1>1, SvtIInv, PTL

-------------------------------------------------------------------------------
(* Where flowcells start.                                                  *)

(* Only SendFirst starts a flowcell once the failure is detected.          *)
LEMMA NewFlowcellIsFirst ==
  ASSUME TypeOK, [Next]_vars, NewFlowcell
  PROVE  SendFirst
BY DEF Next, vars, sending, NewFlowcell, Classify, MapFlow, SendUnaware, LoopForEver,
       SendRest, Detect

(* The failures do not change while packets are sent.                      *)
LEMMA SendKeepsKnown ==
  ASSUME SendFirst
  PROVE  /\ flow' = flow
         /\ UNCHANGED <<svt_NoFailure, svt_partialFailure, svt_DA_NoFailure,
                        svt_DA_partialFailure, svt_DA_fullFailure>>
BY DEF SendFirst, Sent, tables

(* The link of a new flowcell is in the table that the flow is mapped to.  *)
LEMMA FirstLinkInTable ==
  ASSUME TypeOK, SendFirst
  PROVE  /\ svtMapping' = 0  => linkID_' \in svt_NoFailure
         /\ svtMapping' = 1  => linkID_' \in svt_partialFailure
         /\ svtMapping' = 10 => linkID_' \in svt_DA_NoFailure
         /\ svtMapping' = 11 => linkID_' \in svt_DA_partialFailure
         /\ svtMapping' = 12 => linkID_' \in svt_DA_fullFailure
         /\ svtMapping' \in {0, 1, 10, 11, 12}
<1>1. svtMapping' = Remapped
  BY DEF SendFirst
<1>2. svtMapping' \in {0, 1, 10, 11, 12}
  BY <1>1, RemappedTo
<1>3. UNCHANGED <<svt_NoFailure, svt_partialFailure, svt_DA_NoFailure,
                  svt_DA_partialFailure, svt_DA_fullFailure>>
  BY SendKeepsKnown
<1>4. PICK m : m = svtMapping'
  OBVIOUS
<1>5. linkID_' \in nextValidLink(Table(m))
  BY <1>4 DEF SendFirst
<1>6. linkID_' \in Table(m)
  BY <1>5, NextLinkInTable
<1> QED BY <1>2, <1>4, <1>6 DEF Table

(* No flowcell of a detected failure starts on a spine this pair of leaves *)
(* has lost, and none of an HPO flow on a failed link.                     *)
THEOREM SvtReachesLeaf == Spec => FlowcellsReachTheirLeaf
<1>1. ASSUME IInv, [Next]_vars, NewFlowcell
      PROVE  /\ linkID_' \notin FullSpines
             /\ flow.healthyPathOnly_ => linkID_' \notin DirectSpines
  <2>1. SendFirst
    BY <1>1, NewFlowcellIsFirst DEF IInv
  <2>2. FullSpines \subseteq DirectSpines /\ DirectSpines \subseteq SpinesOf(Known)
    BY SpinesNested
  <2>3. svtMapping' = 1 => ~ flow.healthyPathOnly_
    BY <1>1, <2>1, RemappedTo DEF SendFirst, IInv, MappingIsMeant
  <2> QED BY <1>1, <2>1, <2>2, <2>3, FirstLinkInTable DEF IInv, TablesAreRight
<1>2. IInv /\ [Next]_vars
        => [NewFlowcell => /\ linkID_' \notin FullSpines
                           /\ flow.healthyPathOnly_ => linkID_' \notin DirectSpines]_vars
  BY <1>1
<1> QED BY <1>2, SvtIInv, PTL DEF Spec, FlowcellsReachTheirLeaf

(* The size awareness: large flows start no flowcell on a failed link and  *)
(* are mapped to no asymmetric spine once the failure is detected.         *)
THEOREM SvtSizeAware == Spec => LargeFlowsAvoidFailures
<1>1. ASSUME IInv, [Next]_vars, NewFlowcell
      PROVE  /\ linkID_' \in DirectSpines => Small(dynamicMappingThreshold_)
             /\ linkID_' \in SpinesOf(Known) \ DirectSpines /\ svtMapping' # 0
                  => Small(dynamicMappingThresholdGL2GL_)
  <2>1. SendFirst
    BY <1>1, NewFlowcellIsFirst DEF IInv
  <2>2. svtMapping' = Remapped
    BY <2>1 DEF SendFirst
  <2>3. svtMapping' = 1 => Small(dynamicMappingThreshold_)
    BY <1>1, <2>2, SizesAssumption
    DEF Remapped, IInv, MappingIsMeant, MayUse, Small, TypeOK
  <2>4. svtMapping' \in {11, 12} => Small(dynamicMappingThresholdGL2GL_)
    BY <1>1, <2>2, SizesAssumption
    DEF Remapped, IInv, MappingIsMeant, MayUse, Small, TypeOK
  <2>5. FullSpines \subseteq DirectSpines /\ DirectSpines \subseteq SpinesOf(Known)
    BY SpinesNested
  <2> QED BY <1>1, <2>1, <2>3, <2>4, <2>5, FirstLinkInTable DEF IInv, TablesAreRight
<1>2. IInv /\ [Next]_vars
        => [NewFlowcell =>
              /\ linkID_' \in DirectSpines => Small(dynamicMappingThreshold_)
              /\ linkID_' \in SpinesOf(Known) \ DirectSpines /\ svtMapping' # 0
                   => Small(dynamicMappingThresholdGL2GL_)]_vars
  BY <1>1
<1> QED BY <1>2, SvtIInv, PTL DEF Spec, LargeFlowsAvoidFailures

-------------------------------------------------------------------------------
(* The loop of nextValidLink.                                              *)

(* A flow mapped to a table of failed or asymmetric spines finds one there.*)
MappedToLinks ==
  pc = "send" =>
    /\ svtMapping = 1  => svt_partialFailure # {}
    /\ svtMapping = 11 => svt_DA_partialFailure # {}
    /\ svtMapping = 12 => svt_DA_fullFailure # {}

LoopInv == NextLinkIsFound /\ MappedToLinks

(* The sound spine is in the tables a flow falls back to.                  *)
LEMMA SoundSpineListed ==
  ASSUME SomeSpineIsSound, IInv
  PROVE  svt_DA_NoFailure # {} /\ svt_NoFailure # {}
<1>1. PICK s \in Uplinks : \A i \in 1 .. Len(failedLinks) : failedLinks[i].spine # s
  BY DEF SomeSpineIsSound
<1>2. \A i \in 1 .. j - 1 : i \in 1 .. Len(failedLinks)
  BY DEF IInv, TypeOK
<1>3. s \notin SpinesOf(Known)
  BY <1>1, <1>2 DEF SpinesOf, Known
<1>4. s \notin DirectSpines
  BY <1>3, SpinesNested
<1> QED BY <1>3, <1>4 DEF IInv, TablesAreRight

(* A counter that is not zero counts a link.                               *)
LEMMA CountedLink ==
  ASSUME NEW S \in SUBSET Uplinks, Cardinality(S) # 0
  PROVE  S # {}
BY FS_EmptySet

(* The draw picks only tables that have links.                             *)
LEMMA MapFlowToLinks ==
  ASSUME IInv, MapFlow
  PROVE  /\ svtMapping' = 1  => svt_partialFailure # {}
         /\ svtMapping' = 11 => svt_DA_partialFailure # {}
         /\ svtMapping' = 12 => svt_DA_fullFailure # {}
<1> USE SizesAssumption
<1>1. /\ numDirectPartialFailurePaths = Cardinality(svt_partialFailure)
      /\ numIndirectPartialFailurePaths = Cardinality(svt_DA_partialFailure)
      /\ numIndirectFullFailurePaths = Cardinality(svt_DA_fullFailure)
  BY DEF IInv, CountersAreRight
<1>2. /\ numDirectPartialFailurePaths \in Nat
      /\ numIndirectPartialFailurePaths \in Nat
      /\ numIndirectFullFailurePaths \in Nat
  BY <1>1, UplinksFinite DEF IInv, TypeOK
<1>3. PICK total \in Random(total_BW), healthy \in Random(healthyPaths_BW),
           asym \in Random(indirectFailurePaths_BW), incoming \in BOOLEAN :
        svtMapping' =
          IF ChoosePartial(total) THEN 1
          ELSE IF ~ AvoidsAsymmetry(incoming) THEN 0
          ELSE IF ~ ChooseIndirect(healthy) THEN 10
          ELSE IF asym < numIndirectPartialFailurePaths * healthyLinkCapacity THEN 11
          ELSE 12
  BY DEF MapFlow
<1>4. /\ total_BW \in Int => total >= 0
      /\ healthyPaths_BW \in Int => healthy >= 0
  BY <1>3 DEF Random
<1>5. partialFailurePaths_BW \in Nat
  BY <1>2 DEF partialFailurePaths_BW
<1>6. healthyPaths_BW \in Int
  BY <1>2, UplinksAssumption, UplinksFinite DEF healthyPaths_BW, IInv, TypeOK
<1>7. total_BW \in Int
  BY <1>5, <1>6, UplinksAssumption DEF total_BW
<1>8. indirectFailurePaths_BW \in Nat
  BY <1>2 DEF indirectFailurePaths_BW
<1>9. ASSUME svtMapping' = 1 PROVE svt_partialFailure # {}
  <2>1. total < partialFailurePaths_BW
    BY <1>3, <1>9 DEF ChoosePartial
  <2>2. total \in Nat
    BY <1>3, <1>7 DEF Random
  <2>3. partialFailurePaths_BW # 0
    BY <1>5, <2>1, <2>2
  <2>4. numDirectPartialFailurePaths # 0
    BY <2>3 DEF partialFailurePaths_BW
  <2> QED BY <1>1, <2>4, CountedLink DEF IInv, TypeOK
<1>10. asym \in Nat /\ (indirectFailurePaths_BW > 0 => asym < indirectFailurePaths_BW)
  BY <1>3, <1>8 DEF Random
<1>11. ASSUME svtMapping' = 11 PROVE svt_DA_partialFailure # {}
  <2>1. asym < numIndirectPartialFailurePaths * healthyLinkCapacity
    BY <1>3, <1>11
  <2>2. numIndirectPartialFailurePaths # 0
    BY <1>10, <2>1
  <2> QED BY <1>1, <2>2, CountedLink DEF IInv, TypeOK
<1>12. ASSUME svtMapping' = 12 PROVE svt_DA_fullFailure # {}
  <2>1. /\ ChooseIndirect(healthy)
        /\ ~ (asym < numIndirectPartialFailurePaths * healthyLinkCapacity)
    BY <1>3, <1>12
  <2>2. healthy \in Nat
    BY <1>3, <1>6 DEF Random
  <2>3. indirectFailurePaths_BW > 0
    BY <2>1, <2>2, <1>8 DEF ChooseIndirect
  <2>4. asym < (numIndirectFullFailurePaths + numIndirectPartialFailurePaths)
                 * healthyLinkCapacity
    BY <1>10, <2>3 DEF indirectFailurePaths_BW
  <2>5. numIndirectFullFailurePaths # 0
    <3>1. SUFFICES ASSUME numIndirectFullFailurePaths = 0 PROVE FALSE
      OBVIOUS
    <3>2. numIndirectFullFailurePaths + numIndirectPartialFailurePaths
            = numIndirectPartialFailurePaths
      BY <1>2, <3>1
    <3>3. numIndirectPartialFailurePaths * healthyLinkCapacity \in Nat
      BY <1>2
    <3> QED BY <1>10, <2>1, <2>4, <3>2, <3>3
  <2> QED BY <1>1, <2>5, CountedLink DEF IInv, TypeOK
<1> QED BY <1>9, <1>11, <1>12

(* No step maps a flow to a table of failures without links, nor to one     *)
(* without failures if there is no such link.                               *)
LEMMA StepLoopInv ==
  ASSUME IInv, LoopInv, [Next]_vars
  PROVE  LoopInv'
<1>1. SomeSpineIsSound => svt_DA_NoFailure # {} /\ svt_NoFailure # {}
  BY SoundSpineListed
<1>0. SomeSpineIsSound' = SomeSpineIsSound
  BY DEF SomeSpineIsSound, Next, Classify, MapFlow, SendUnaware, SendFirst, LoopForEver,
         SendRest, Detect, Sent, vars
<1> USE DEF LoopInv, NextLinkIsFound, MappedToLinks
<1>2. CASE Classify
  BY <1>0, <1>2 DEF Classify
<1>3. CASE MapFlow
  BY <1>0, <1>3, MapFlowToLinks DEF MapFlow, tables
<1>4. CASE SendUnaware
  BY <1>0, <1>4 DEF SendUnaware, CanSend, Sent, tables
<1>5. CASE SendFirst
  <2>1. svtMapping' \in {0, 10, svtMapping}
    BY <1>5, RemappedTo DEF SendFirst, IInv
  <2> QED BY <1>0, <1>5, <2>1 DEF SendFirst, CanSend, Sent, tables
<1>6. CASE LoopForEver
  <2>1. PICK m : m = svtMapping'
    OBVIOUS
  <2>2. m \in {0, 10, svtMapping} /\ m \in {0, 1, 10, 11, 12}
    BY <1>6, <2>1, RemappedTo DEF LoopForEver, IInv
  <2>3. Table(m) = {}
    BY <1>6, <2>1 DEF LoopForEver, Table, tables
  <2>4. m = svtMapping \/ m = 0 \/ m = 10
    BY <2>2
  <2> QED BY <1>0, <1>1, <1>6, <2>2, <2>3, <2>4 DEF LoopForEver, CanSend, Table
<1>7. CASE SendRest
  BY <1>0, <1>7 DEF SendRest, CanSend, Sent, tables
<1>8. CASE Detect
  BY <1>0, <1>8 DEF Detect, tables, sending
<1>9. CASE UNCHANGED vars
  BY <1>0, <1>9 DEF vars, tables, sending
<1> QED BY <1>2, <1>3, <1>4, <1>5, <1>6, <1>7, <1>8, <1>9 DEF Next

(* If some spine is on no failed link, nextValidLink always ends: the draw *)
(* and the remapping choose only tables that have links.                   *)
THEOREM SvtLinkIsFound == Spec => []NextLinkIsFound
<1>1. Init => LoopInv
  BY DEF Init, LoopInv, NextLinkIsFound, MappedToLinks
<1>2. IInv /\ LoopInv /\ [Next]_vars => LoopInv'
  BY StepLoopInv
<1>3. LoopInv => NextLinkIsFound
  BY DEF LoopInv
<1> QED BY <1>1, <1>2, <1>3, SvtIInv, PTL DEF Spec

-------------------------------------------------------------------------------
(* Flowcells stay together.                                                *)

(* Only the script puts a flow on the poor path.                           *)
PoorIsMarked == poorPathFlow_ => flow.poorPathFlow_

LEMMA StepPoorIsMarked ==
  ASSUME PoorIsMarked, [Next]_vars
  PROVE  PoorIsMarked'
BY DEF PoorIsMarked, Next, vars, sending, Classify, MapFlow, SendUnaware, SendFirst, LoopForEver,
       SendRest, Sent, Detect

(* Unless the script has put the flow on the poor path of a failure, all   *)
(* packets of a flowcell take one uplink, whenever the failure is detected *)
(* or over (the code for a single failure that the packets inside a        *)
(* flowcell run).                                                          *)
THEOREM SvtKeepsFlowcells == Spec => UnmarkedFlowcellHasOneUplink
<1>1. Init => PoorIsMarked
  BY DEF Init, PoorIsMarked
<1>2. PoorIsMarked /\ [Next]_vars => PoorIsMarked'
  BY StepPoorIsMarked
<1>3. PoorIsMarked /\ [Next]_vars =>
        [ndatapack_' # ndatapack_ /\ ~ StartsFlowcell /\ ~ flow.poorPathFlow_
           => linkID_' = linkID_]_vars
  BY DEF PoorIsMarked, Next, vars, sending, Classify, MapFlow, SendUnaware, SendFirst, LoopForEver,
         SendRest, Detect
<1> QED BY <1>1, <1>2, <1>3, PTL DEF Spec, UnmarkedFlowcellHasOneUplink
===============================================================================
