-------------------------- MODULE PathSelectionProofs --------------------------
(***************************************************************************)
(* Proofs about the choice of an uplink (module PathSelection), for every  *)
(* number of uplinks, every list of failures and every setting of a flow.  *)
(*                                                                         *)
(* What a packet does rests on what the first one has left: the weights,   *)
(* the number of flowcells between two turns of the weak links, and the    *)
(* link it started on.  The inductive invariant says that these are still  *)
(* what the settings of the flow make them, and that the packet at which   *)
(* the next turn comes never goes back.                                    *)
(***************************************************************************)
EXTENDS PathSelection, FiniteSetTheorems, WellFoundedInduction, TLAPS

-------------------------------------------------------------------------------
(* Numbers.                                                                  *)

(* A set of natural numbers that is not empty has a least one.               *)
LEMMA MinIsLeast ==
  ASSUME NEW S, S \subseteq Nat, S # {}
  PROVE  Min(S) \in S /\ \A y \in S : Min(S) <= y
<1>1. PICK m \in S : \A y \in S : ~ (<<y, m>> \in OpToRel(<, Nat))
  BY NatLessThanWellFounded, WFMin
<1>2. \A y \in S : <<y, m>> \in Nat \X Nat
  OBVIOUS
<1>3. \A y \in S : ~ (y < m)
  BY <1>1, <1>2 DEF OpToRel
<1>4. \A y \in S : m <= y
  BY <1>3
<1> QED BY <1>4 DEF Min

(* A remainder is less than the divisor, and a number less than the divisor  *)
(* is its own remainder.                                                     *)
LEMMA Remainder ==
  ASSUME NEW n \in Nat \ {0}, NEW x \in Nat
  PROVE  /\ x % n \in 0 .. n - 1
         /\ x < n => x % n = x
         /\ n <= x /\ x < 2 * n => x % n = x - n
<1>1. x % n \in 0 .. n - 1 /\ x = n * (x \div n) + (x % n) /\ x \div n \in Int
  OBVIOUS
<1>2. PICK q, r : q = x \div n /\ r = x % n
  OBVIOUS
<1>3. q \in Int /\ r \in 0 .. n - 1 /\ x = n * q + r
  BY <1>1, <1>2
<1>4. ASSUME x < n PROVE q = 0
  <2>1. q < 1 /\ q > -1
    BY <1>3, <1>4
  <2> QED BY <1>3, <2>1
<1>5. ASSUME n <= x, x < 2 * n PROVE q = 1
  <2>1. q < 2 /\ q > 0
    BY <1>3, <1>5
  <2> QED BY <1>3, <2>1
<1> QED BY <1>2, <1>3, <1>4, <1>5

(* A product of natural numbers is one, and is 0 only if one of them is.     *)
LEMMA Product ==
  ASSUME NEW a \in Nat, NEW b \in Nat
  PROVE  a * b \in Nat /\ (a > 0 /\ b > 0 => a * b > 0)
OBVIOUS

-------------------------------------------------------------------------------
(* The links.                                                                *)

LEMMA NextFacts ==
  ASSUME NEW link \in Uplinks
  PROVE  Next1(link) \in Uplinks /\ Next1(link) # link
<1>1. numUplinks \in Nat \ {0} /\ numUplinks >= 2 /\ link \in 0 .. numUplinks - 1
  BY UplinksAssumption DEF Uplinks
<1>2. link + 1 \in Nat /\ (link + 1 < numUplinks \/ link + 1 = numUplinks)
  BY <1>1
<1>3. PICK x : x = link + 1
  OBVIOUS
<1>4. /\ x \in Nat /\ x # 0 /\ x # link /\ link \in Nat
      /\ x < numUplinks \/ (x = numUplinks /\ link # 0)
  BY <1>1, <1>2, <1>3
<1>5. x % numUplinks \in 0 .. numUplinks - 1
  BY <1>1, <1>4, Remainder
<1>6. x < numUplinks => x % numUplinks = x
  BY <1>1, <1>4, Remainder, Zenon
<1>7. x = numUplinks => x % numUplinks = 0
  <2>1. x = numUplinks => x % numUplinks = x - numUplinks
    BY <1>1, <1>4, Remainder
  <2> QED BY <1>1, <2>1
<1> QED BY <1>3, <1>4, <1>5, <1>6, <1>7 DEF Next1, Uplinks

LEMMA LinkFacts ==
  ASSUME linkID_ \in Uplinks, NEW k \in Nat
  PROVE  Link(k) \in Uplinks
<1>1. numUplinks \in Nat \ {0} /\ linkID_ + k \in Nat
  BY UplinksAssumption DEF Uplinks
<1> QED BY <1>1, Remainder DEF Link, Uplinks

(* The two links after the current one are next to each other.               *)
LEMMA SecondLink ==
  ASSUME linkID_ \in Uplinks
  PROVE  Link(2) \in Uplinks /\ Link(2) # Link(1)
<1>1. numUplinks \in Nat \ {0} /\ numUplinks >= 2 /\ linkID_ \in 0 .. numUplinks - 1
  BY UplinksAssumption DEF Uplinks
<1>2. PICK x, y : x = linkID_ + 1 /\ y = linkID_ + 2
  OBVIOUS
<1>3. x \in Nat /\ y \in Nat /\ y = x + 1 /\ x >= 1 /\ x <= numUplinks
  BY <1>1, <1>2
<1>4. /\ x < numUplinks => x % numUplinks = x
      /\ numUplinks <= x /\ x < 2 * numUplinks => x % numUplinks = x - numUplinks
  BY <1>1, <1>3, Remainder, Zenon
<1>5. /\ y < numUplinks => y % numUplinks = y
      /\ numUplinks <= y /\ y < 2 * numUplinks => y % numUplinks = y - numUplinks
  BY <1>1, <1>3, Remainder, Zenon
<1>6. CASE y < numUplinks
  BY <1>1, <1>2, <1>3, <1>4, <1>5, <1>6, LinkFacts DEF Link
<1>7. CASE y = numUplinks
  BY <1>1, <1>2, <1>3, <1>4, <1>5, <1>7, LinkFacts DEF Link
<1>8. CASE y = numUplinks + 1
  <2>1. x = numUplinks /\ y < 2 * numUplinks
    BY <1>1, <1>3, <1>8
  <2> QED BY <1>1, <1>2, <1>3, <1>4, <1>5, <1>8, <2>1, LinkFacts DEF Link
<1> QED BY <1>1, <1>3, <1>6, <1>7, <1>8

(* The scan of numUplinks links from the next one on visits all of them.     *)
LEMMA ScanIsComplete ==
  ASSUME linkID_ \in Uplinks, NEW spine \in Uplinks
  PROVE  \E k \in 1 .. numUplinks : Link(k) = spine
<1>1. /\ numUplinks \in Nat \ {0}
      /\ linkID_ \in 0 .. numUplinks - 1 /\ spine \in 0 .. numUplinks - 1
  BY UplinksAssumption DEF Uplinks
<1>2. CASE spine > linkID_
  <2>1. spine - linkID_ \in 1 .. numUplinks /\ linkID_ + (spine - linkID_) = spine
    BY <1>1, <1>2
  <2>2. spine % numUplinks = spine
    <3>1. spine \in Nat /\ spine < numUplinks
      BY <1>1
    <3> QED BY <1>1, <3>1, Remainder, Zenon
  <2> QED BY <2>1, <2>2 DEF Link
<1>3. CASE spine <= linkID_
  <2>1. PICK x : x = spine + numUplinks
    OBVIOUS
  <2>2. /\ x - linkID_ \in 1 .. numUplinks /\ linkID_ + (x - linkID_) = x
        /\ x \in Nat /\ numUplinks <= x /\ x < 2 * numUplinks /\ x - numUplinks = spine
    BY <1>1, <1>3, <2>1
  <2>3. x % numUplinks = spine
    BY <1>1, <2>2, Remainder
  <2> QED BY <2>2, <2>3 DEF Link
<1> QED BY <1>1, <1>2, <1>3

-------------------------------------------------------------------------------
(* The failures.                                                             *)

LEMMA FlowFacts ==
  ASSUME flow \in Flows
  PROVE  /\ flow \in FlowSettings
         /\ flow.failureRatio_ \in 1 .. 100
         /\ flow.failedLinks \in Seq(Failures)
         /\ flow.failureAware_ => Len(flow.failedLinks) >= 1
         /\ \A i \in DOMAIN flow.failedLinks :
              /\ flow.failedLinks[i].spine \in Uplinks
              /\ flow.failedLinks[i].failureRatio \in 1 .. 100
<1>1. flow \in FlowSettings /\ (flow.failureAware_ => flow.failedLinks # <<>>)
  BY FlowsAssumption
<1>2. flow.failureRatio_ \in 1 .. 100 /\ flow.failedLinks \in Seq(Failures)
  BY <1>1 DEF FlowSettings
<1>3. \A i \in DOMAIN flow.failedLinks : flow.failedLinks[i] \in Failures
  BY <1>2
<1>4. PICK list : list = flow.failedLinks
  OBVIOUS
<1>5. list # <<>> => Len(list) >= 1
  BY <1>2, <1>4
<1> QED BY <1>1, <1>2, <1>3, <1>4, <1>5 DEF Failures

(* The sets of spines, and their sizes.                                      *)
LEMMA SpineFacts ==
  ASSUME flow \in Flows
  PROVE  /\ DeadSpines \subseteq DirectSpines /\ DirectSpines \subseteq Uplinks
         /\ DirectSpines # {} <=> FromOrToFailedLeaf
         /\ Cardinality(DirectSpines) \in 0 .. numUplinks
         /\ Cardinality(DirectSpines) = 0 => DirectSpines = {}
         /\ Cardinality(DirectSpines) = numUplinks => DirectSpines = Uplinks
         /\ numDirectPartialFailurePaths \in 0 .. numUplinks
<1>1. DeadSpines \subseteq DirectSpines /\ DirectSpines \subseteq Uplinks
  BY DEF DeadSpines, DirectSpines
<1>2. ASSUME FromOrToFailedLeaf PROVE DirectSpines # {}
  <2>1. PICK i \in DOMAIN flow.failedLinks : Direct(flow.failedLinks[i])
    BY <1>2 DEF FromOrToFailedLeaf
  <2>2. PICK spine : spine = flow.failedLinks[i].spine
    OBVIOUS
  <2>3. spine \in Uplinks /\ i \in FailuresOf(spine)
    BY <2>1, <2>2, FlowFacts DEF FailuresOf
  <2> QED BY <2>3 DEF DirectSpines
<1>3. ASSUME DirectSpines # {} PROVE FromOrToFailedLeaf
  BY <1>3 DEF DirectSpines, FailuresOf, FromOrToFailedLeaf
<1>4. IsFiniteSet(Uplinks) /\ Cardinality(Uplinks) = numUplinks /\ numUplinks \in Nat
  <2>1. numUplinks - 1 \in Int /\ 0 \in Int /\ ~ (0 > numUplinks - 1) /\ numUplinks \in Nat
    BY UplinksAssumption
  <2>2. /\ IsFiniteSet(0 .. numUplinks - 1)
        /\ Cardinality(0 .. numUplinks - 1) =
             IF 0 > numUplinks - 1 THEN 0 ELSE (numUplinks - 1) - 0 + 1
    BY <2>1, FS_Interval
  <2> QED BY <2>1, <2>2 DEF Uplinks
<1>5. ASSUME NEW S \in SUBSET Uplinks
      PROVE  /\ Cardinality(S) \in 0 .. numUplinks
             /\ Cardinality(S) = 0 => S = {}
             /\ Cardinality(S) = numUplinks => S = Uplinks
  <2>1. IsFiniteSet(S) /\ Cardinality(S) <= Cardinality(Uplinks)
        /\ (Cardinality(Uplinks) = Cardinality(S) => Uplinks = S)
    BY <1>4, FS_Subset
  <2>2. Cardinality(S) \in Nat
    BY <2>1, FS_CardinalityType
  <2>3. Cardinality(S) = 0 => S = {}
    BY <2>1, FS_EmptySet
  <2> QED BY <1>4, <2>1, <2>2, <2>3
<1>6. numDirectPartialFailurePaths \in 0 .. numUplinks
  <2>1. DirectSpines \ DeadSpines \in SUBSET Uplinks
    BY <1>1
  <2> QED BY <1>5, <2>1 DEF numDirectPartialFailurePaths
<1>7. DirectSpines \in SUBSET Uplinks
  BY <1>1
<1> QED BY <1>1, <1>2, <1>3, <1>5, <1>6, <1>7

(* The ratio of a spine is that of one of its failures.                      *)
LEMMA RatioFacts ==
  ASSUME flow \in Flows, NEW spine
  PROVE  /\ uplinkFailureRatio(spine) \in 1 .. 100
         /\ FailuresOf(spine) # {} =>
              \E i \in FailuresOf(spine) :
                uplinkFailureRatio(spine) = flow.failedLinks[i].failureRatio
<1>1. FailuresOf(spine) \subseteq DOMAIN flow.failedLinks
  BY DEF FailuresOf
<1>2. FailuresOf(spine) \subseteq Nat
  <2>1. DOMAIN flow.failedLinks = 1 .. Len(flow.failedLinks)
    BY FlowFacts
  <2> QED BY <1>1, <2>1
<1>3. CASE FailuresOf(spine) = {}
  BY <1>3 DEF uplinkFailureRatio
<1>4. CASE FailuresOf(spine) # {}
  <2>1. PICK i : i = Min(FailuresOf(spine))
    OBVIOUS
  <2>2. i \in FailuresOf(spine)
    BY <1>2, <1>4, <2>1, MinIsLeast
  <2>3. uplinkFailureRatio(spine) = flow.failedLinks[i].failureRatio
    BY <1>4, <2>1 DEF uplinkFailureRatio
  <2>4. flow.failedLinks[i].failureRatio \in 1 .. 100
    BY <1>1, <2>2, FlowFacts
  <2> QED BY <2>2, <2>3, <2>4
<1> QED BY <1>3, <1>4

(* What isSpineFailed says of a spine.                                       *)
LEMMA LookedUpFacts ==
  ASSUME flow \in Flows, NEW spine \in Uplinks
  PROVE  /\ isSpineFailed(spine) = 0 <=> spine \notin DirectSpines
         /\ isSpineFailed(spine) = 1 <=> spine \in DirectSpines /\ HidesFullFailure(spine)
         /\ spine \in DirectSpines /\ ~ HidesFullFailure(spine) => spine \in DeadSpines
<1>1. spine \in DirectSpines <=> FailuresOf(spine) # {}
  BY DEF DirectSpines
<1>2. FailuresOf(spine) # {} /\ uplinkFailureRatio(spine) = 100 => spine \in DeadSpines
  BY RatioFacts DEF DeadSpines
<1> QED BY <1>1, <1>2 DEF isSpineFailed, HidesFullFailure

(* What it says when no failure hides a worse one.                           *)
LEMMA FailedFacts ==
  ASSUME flow \in Flows, WorstIsFirst, NEW spine \in Uplinks
  PROVE  /\ isSpineFailed(spine) = 0 <=> spine \notin DirectSpines
         /\ isSpineFailed(spine) = 1 <=> spine \in DirectSpines \ DeadSpines
BY LookedUpFacts DEF WorstIsFirst

(* With a single failure there is one failed spine, and it is dead if the    *)
(* failure is full.                                                          *)
LEMMA SingleFailure ==
  ASSUME flow \in Flows, Len(flow.failedLinks) = 1
  PROVE  /\ FailedSpine \in Uplinks
         /\ DirectSpines \subseteq {FailedSpine}
         /\ flow.failedLinks[1].failureRatio # 100 => DeadSpines = {}
<1>1. DOMAIN flow.failedLinks = {1}
  BY FlowFacts
<1> QED BY <1>1, FlowFacts DEF FailedSpine, DirectSpines, DeadSpines, FailuresOf

-------------------------------------------------------------------------------
(* The weights.                                                              *)

(* A set that holds 0 and the successor of each of its numbers holds all.    *)
LEMMA SetInduction ==
  ASSUME NEW S, 0 \in S, \A n \in Nat : n \in S => n + 1 \in S
  PROVE  \A n \in Nat : n \in S
<1> SUFFICES ASSUME Nat \ S # {} PROVE FALSE
  OBVIOUS
<1>1. PICK m : m = Min(Nat \ S)
  OBVIOUS
<1>2. m \in Nat \ S /\ \A y \in Nat \ S : m <= y
  BY <1>1, MinIsLeast
<1>3. m # 0 /\ m - 1 \in Nat /\ ~ (m <= m - 1)
  BY <1>2
<1>4. (m - 1) + 1 \in S
  BY <1>2, <1>3
<1> QED BY <1>2, <1>4

(* The sums of the weights up to m.                                          *)
SumsUpTo(g, weights, m) ==
  /\ g \in [0 .. m -> Nat]
  /\ g[0] = weights[0]
  /\ \A i \in 1 .. m : g[i] = weights[i] + g[i - 1]

LEMMA SumsExist ==
  ASSUME NEW weights \in [Uplinks -> Nat]
  PROVE  \E g : SumsUpTo(g, weights, numUplinks - 1)
<1> DEFINE S == {m \in Nat : m < numUplinks => \E g : SumsUpTo(g, weights, m)}
<1>1. numUplinks \in Nat /\ numUplinks >= 2 /\ \A i \in 0 .. numUplinks - 1 : weights[i] \in Nat
  BY UplinksAssumption DEF Uplinks
<1>2. 0 \in S
  <2>1. weights[0] \in Nat
    BY <1>1
  <2>2. SumsUpTo([i \in 0 .. 0 |-> weights[0]], weights, 0)
    BY <2>1 DEF SumsUpTo
  <2> QED BY <2>2
<1>3. ASSUME NEW m \in Nat, m \in S PROVE m + 1 \in S
  <2> SUFFICES ASSUME m + 1 < numUplinks PROVE \E g : SumsUpTo(g, weights, m + 1)
    OBVIOUS
  <2>1. PICK g : SumsUpTo(g, weights, m)
    BY <1>1, <1>3
  <2>2. PICK sum : sum = weights[m + 1] + g[m]
    OBVIOUS
  <2>3. sum \in Nat
    <3>1. m + 1 \in 0 .. numUplinks - 1 /\ m \in 0 .. m
      BY <1>1
    <3> QED BY <1>1, <2>1, <2>2, <3>1 DEF SumsUpTo
  <2>4. PICK h : h = [i \in 0 .. m + 1 |-> IF i = m + 1 THEN sum ELSE g[i]]
    OBVIOUS
  <2>5. /\ h \in [0 .. m + 1 -> Nat]
        /\ \A i \in 0 .. m : h[i] = g[i]
        /\ h[m + 1] = sum
    BY <2>1, <2>3, <2>4 DEF SumsUpTo
  <2>6. ASSUME NEW i \in 1 .. m + 1 PROVE h[i] = weights[i] + h[i - 1]
    <3>1. CASE i = m + 1
      BY <2>2, <2>5, <3>1
    <3>2. CASE i \in 1 .. m
      <4>1. i \in 0 .. m /\ i - 1 \in 0 .. m
        BY <3>2
      <4> QED BY <2>1, <2>5, <3>2, <4>1 DEF SumsUpTo
    <3> QED BY <2>6, <3>1, <3>2
  <2>7. h[0] = weights[0]
    BY <2>1, <2>5 DEF SumsUpTo
  <2> QED BY <2>5, <2>6, <2>7 DEF SumsUpTo
<1>4. \A m \in Nat : m \in S
  <2> HIDE DEF S
  <2> QED BY <1>2, <1>3, SetInduction
<1>5. numUplinks - 1 \in Nat /\ numUplinks - 1 < numUplinks
  BY <1>1
<1> QED BY <1>4, <1>5

LEMMA WeightUpToFacts ==
  ASSUME NEW weights \in [Uplinks -> Nat], NEW c, c = WeightUpTo(weights)
  PROVE  SumsUpTo(c, weights, numUplinks - 1)
<1> DEFINE Of(g) == [i \in Uplinks |-> weights[i] + (IF i = 0 THEN 0 ELSE g[i - 1])]
<1>1. numUplinks \in Nat /\ numUplinks >= 2 /\ Uplinks = 0 .. numUplinks - 1
  BY UplinksAssumption DEF Uplinks
<1>2. PICK g : SumsUpTo(g, weights, numUplinks - 1)
  BY SumsExist
<1>3. g = Of(g)
  <2>1. ASSUME NEW i \in Uplinks
        PROVE  g[i] = weights[i] + (IF i = 0 THEN 0 ELSE g[i - 1])
    <3>1. CASE i = 0
      <4>1. weights[0] + 0 = weights[0]
        BY <1>1
      <4> QED BY <1>2, <3>1, <4>1 DEF SumsUpTo
    <3>2. CASE i # 0
      <4>1. i \in 1 .. numUplinks - 1
        BY <1>1, <3>2
      <4> QED BY <1>2, <3>2, <4>1 DEF SumsUpTo
    <3> QED BY <3>1, <3>2
  <2>2. g = [i \in Uplinks |-> g[i]]
    BY <1>1, <1>2 DEF SumsUpTo
  <2> QED BY <2>1, <2>2
<1>4. c = CHOOSE f : f = Of(f)
  BY DEF WeightUpTo
<1>5. c = Of(c)
  <2> HIDE DEF Of
  <2> QED BY <1>3, <1>4
<1>6. \A i \in Uplinks : c[i] = weights[i] + (IF i = 0 THEN 0 ELSE c[i - 1])
  BY <1>5
<1>7. \A i \in 0 .. numUplinks - 1 : weights[i] \in Nat
  BY <1>1
<1>8. c[0] = weights[0]
  <2>1. 0 \in Uplinks /\ weights[0] + 0 = weights[0]
    BY <1>1
  <2> QED BY <1>6, <2>1
<1>9. \A i \in 1 .. numUplinks - 1 : c[i] = weights[i] + c[i - 1]
  BY <1>1, <1>6
<1>10. \A i \in 0 .. numUplinks - 1 : c[i] \in Nat
  <2> DEFINE S == {i \in Nat : i < numUplinks => c[i] \in Nat}
  <2>1. 0 \in S
    BY <1>1, <1>7, <1>8
  <2>2. ASSUME NEW i \in Nat, i \in S PROVE i + 1 \in S
    <3> SUFFICES ASSUME i + 1 < numUplinks PROVE c[i + 1] \in Nat
      OBVIOUS
    <3>1. i + 1 \in 1 .. numUplinks - 1 /\ (i + 1) - 1 = i /\ i + 1 \in 0 .. numUplinks - 1
      BY <1>1
    <3>2. c[i + 1] = weights[i + 1] + c[i]
      BY <1>9, <3>1
    <3>3. c[i] \in Nat
      BY <1>1, <2>2
    <3> QED BY <1>7, <3>1, <3>2, <3>3
  <2>3. \A i \in Nat : i \in S
    <3> HIDE DEF S
    <3> QED BY <2>1, <2>2, SetInduction
  <2>4. \A i \in 0 .. numUplinks - 1 : i \in Nat /\ i < numUplinks
    BY <1>1
  <2> QED BY <2>3, <2>4
<1>11. c \in [0 .. numUplinks - 1 -> Nat]
  <2>1. c = [i \in 0 .. numUplinks - 1 |-> c[i]]
    <3>1. \E F : c = [i \in Uplinks |-> F[i]]
      <4>1. c = [i \in Uplinks |-> Of(c)[i]]
        BY <1>5
      <4> QED BY <4>1
    <3> QED BY <1>1, <3>1
  <2> QED BY <1>10, <2>1
<1> QED BY <1>8, <1>9, <1>11 DEF SumsUpTo

LEMMA WeightFacts ==
  ASSUME flow \in Flows, NEW spine
  PROVE  Weight(spine) \in Nat
<1>1. uplinkFailureRatio(spine) \in 1 .. 100
  BY RatioFacts
<1>2. \A r \in 1 .. 100 : 10 \div r \in Nat
  OBVIOUS
<1> QED BY <1>1, <1>2 DEF Weight

(* A link is drawn only if it has a weight, when any has.                    *)
LEMMA DrawnFacts ==
  ASSUME uplinkWeights \in [Uplinks -> Nat], NEW r \in Nat
  PROVE  /\ Drawn(r) \subseteq Uplinks
         /\ r < WeightUpTo(uplinkWeights)[numUplinks - 1] =>
              \A link \in Drawn(r) : uplinkWeights[link] > 0
<1>1. PICK c : c = WeightUpTo(uplinkWeights)
  OBVIOUS
<1>2. SumsUpTo(c, uplinkWeights, numUplinks - 1)
  BY <1>1, WeightUpToFacts
<1>3. numUplinks \in Nat /\ numUplinks >= 2 /\ Uplinks = 0 .. numUplinks - 1
  BY UplinksAssumption DEF Uplinks
<1> DEFINE holding == {i \in Uplinks : r < c[i]}
<1>4. Drawn(r) = IF holding = {} THEN Random(numUplinks) ELSE {Min(holding)}
  BY <1>1 DEF Drawn
<1>5. CASE holding = {}
  <2>1. Drawn(r) = 0 .. numUplinks - 1
    BY <1>3, <1>4, <1>5 DEF Random
  <2>2. numUplinks - 1 \notin holding /\ numUplinks - 1 \in Uplinks
    BY <1>3, <1>5
  <2> QED BY <1>1, <1>3, <2>1, <2>2
<1>6. CASE holding # {}
  <2>1. PICK i : i = Min(holding)
    OBVIOUS
  <2>2. i \in holding /\ \A j \in holding : i <= j
    <3>1. holding \subseteq Nat
      BY <1>3
    <3> QED BY <1>6, <2>1, <3>1, MinIsLeast
  <2>3. i \in 0 .. numUplinks - 1 /\ r < c[i]
    BY <1>3, <2>2
  <2>4. uplinkWeights[i] > 0
    <3>1. CASE i = 0
      BY <1>2, <1>3, <2>3, <3>1 DEF SumsUpTo
    <3>2. CASE i # 0
      <4>1. i \in 1 .. numUplinks - 1 /\ i - 1 \in 0 .. numUplinks - 1 /\ ~ (i <= i - 1)
        BY <1>3, <2>3, <3>2
      <4>2. ~ (r < c[i - 1])
        BY <1>3, <2>2, <4>1
      <4>3. c[i - 1] \in Nat /\ uplinkWeights[i] \in Nat /\ c[i] = uplinkWeights[i] + c[i - 1]
        BY <1>2, <1>3, <2>3, <4>1 DEF SumsUpTo
      <4> QED BY <2>3, <4>2, <4>3
    <3> QED BY <3>1, <3>2
  <2> QED BY <1>3, <1>4, <1>6, <2>1, <2>3, <2>4
<1> QED BY <1>5, <1>6

-------------------------------------------------------------------------------
(* What the first packet sets.                                               *)

LEMMA RfactorFacts ==
  ASSUME flow \in Flows
  PROVE  /\ Rfactor \in Nat
         /\ Rfactor = 0 =>
              \/ flow.failureAware_ /\ ~ flow.roundRobin_
              \/ flow.failureAware_ /\ flow.selectiveSpraying_
              \/ /\ FromOrToFailedLeaf /\ Len(flow.failedLinks) > 1
                 /\ DirectSpines = Uplinks
<1>1. numUplinks \in Nat /\ numUplinks - 1 \in Nat /\ numUplinks - 1 > 0
  BY UplinksAssumption
<1>2. flow.failureRatio_ \in Nat /\ flow.failureRatio_ > 0
  <2>1. flow.failureRatio_ \in 1 .. 100
    BY FlowFacts
  <2> QED BY <2>1
<1>3. Cardinality(DirectSpines) \in 0 .. numUplinks
  BY SpineFacts
<1>4. /\ (numUplinks - 1) * flow.failureRatio_ \in Nat
      /\ (numUplinks - 1) * flow.failureRatio_ > 0
  BY <1>1, <1>2, Product
<1>5. PICK k : k = numUplinks - Cardinality(DirectSpines)
  OBVIOUS
<1>6. k \in Nat /\ (k = 0 => DirectSpines = Uplinks)
  <2>1. k = 0 => Cardinality(DirectSpines) = numUplinks
    BY <1>1, <1>3, <1>5
  <2> QED BY <1>1, <1>3, <1>5, <2>1, SpineFacts
<1>7. k * flow.failureRatio_ \in Nat /\ (k > 0 => k * flow.failureRatio_ > 0)
  BY <1>2, <1>6, Product
<1>8. CASE ~ flow.failureAware_
  BY <1>1, <1>8 DEF Rfactor
<1>9. CASE flow.failureAware_ /\ (~ flow.roundRobin_ \/ flow.selectiveSpraying_)
  BY <1>9 DEF Rfactor
<1>10. CASE flow.failureAware_ /\ flow.roundRobin_ /\ ~ flow.selectiveSpraying_
  <2>1. CASE ~ FromOrToFailedLeaf
    BY <1>1, <1>10, <2>1 DEF Rfactor
  <2>2. CASE FromOrToFailedLeaf /\ Len(flow.failedLinks) > 1
    <3>1. Rfactor = k * flow.failureRatio_
      BY <1>5, <1>10, <2>2 DEF Rfactor, numDirectFailures_
    <3> QED BY <1>6, <1>7, <2>2, <3>1
  <2>3. CASE FromOrToFailedLeaf /\ ~ (Len(flow.failedLinks) > 1)
    <3>1. Rfactor = (numUplinks - 1) * flow.failureRatio_
      BY <1>10, <2>3 DEF Rfactor
    <3> QED BY <1>4, <3>1
  <2> QED BY <2>1, <2>2, <2>3
<1> QED BY <1>8, <1>9, <1>10

LEMMA FirstLinkFacts ==
  ASSUME flow \in Flows
  PROVE  FirstLink \in Uplinks
<1>1. numUplinks - 1 \in Uplinks
  BY UplinksAssumption DEF Uplinks
<1>2. ASSUME flow.failureAware_ PROVE FailedSpine \in Uplinks
  <2>1. 1 \in DOMAIN flow.failedLinks
    BY <1>2, FlowFacts
  <2> QED BY <2>1, FlowFacts DEF FailedSpine
<1>3. flow.failureAware_ => Next1(FailedSpine) \in Uplinks
  BY <1>2, NextFacts
<1> QED BY <1>1, <1>2, <1>3 DEF FirstLink

-------------------------------------------------------------------------------
(* The inductive invariant.                                                  *)

(* What the first packet has set is still there, and the packet at which the *)
(* next turn of the weak links comes has not gone back.                      *)
Prepared ==
  /\ rfactor = Rfactor
  /\ flowCellMod_ >= flowcellSizePkts_ * rfactor
  /\ uplinkWeights = [i \in Uplinks |-> IF WeighsSpines THEN Weight(i) ELSE 0]
  /\ totalUplinkWeights = WeightUpTo(uplinkWeights)[numUplinks - 1]
  /\ ndatapack_ = 0 => linkID_ = FirstLink

PathInv ==
  /\ TypeOK
  /\ pc = "send" => Prepared
  /\ poorPathFlow_ => flow.poorPathFlow_
  /\ CrashIsNamed

LEMMA BytesFacts ==
  ASSUME NEW n \in Nat
  PROVE  MaxBytes \in Nat /\ Capped(n) \in 0 .. MaxBytes
<1>1. dynamicMappingThreshold_ \in Nat /\ dynamicMappingThresholdGL2GL_ \in Nat
  BY SizesAssumption
<1>2. PICK T : T = {dynamicMappingThreshold_, dynamicMappingThresholdGL2GL_}
  OBVIOUS
<1>3. PICK m \in T : \A y \in T : m >= y
  <2>1. CASE dynamicMappingThreshold_ >= dynamicMappingThresholdGL2GL_
    BY <1>1, <1>2, <2>1
  <2>2. CASE ~ (dynamicMappingThreshold_ >= dynamicMappingThresholdGL2GL_)
    BY <1>1, <1>2, <2>2
  <2> QED BY <2>1, <2>2
<1>4. Max(T) \in T
  BY <1>3 DEF Max
<1>5. MaxBytes \in Nat
  <2>1. Max(T) \in Nat
    BY <1>1, <1>2, <1>4
  <2> QED BY <1>2, <2>1 DEF MaxBytes
<1>6. PICK b : b = MaxBytes
  OBVIOUS
<1>7. Min({n, b}) \in {n, b} /\ \A y \in {n, b} : Min({n, b}) <= y
  <2>1. {n, b} \subseteq Nat /\ {n, b} # {}
    BY <1>5, <1>6
  <2> QED BY <2>1, MinIsLeast
<1>8. Min({n, b}) \in 0 .. b
  BY <1>5, <1>6, <1>7
<1> QED BY <1>5, <1>6, <1>8 DEF Capped

(* What a packet that goes out does to the counters.                         *)
LEMMA SentFacts ==
  ASSUME TypeOK, CanSend, Sent
  PROVE  /\ ndatapack_' = ndatapack_ + 1 /\ ndatapack_' \in 0 .. MaxPkts /\ ndatapack_' # 0
         /\ ndatabytes_' \in 0 .. MaxBytes /\ sinceWeak' \in Nat
         /\ UNCHANGED <<pc, flow, rfactor, uplinkWeights, totalUplinkWeights, detection>>
<1>1. ndatapack_ \in 0 .. MaxPkts /\ ndatapack_ < MaxPkts /\ MaxPkts \in Nat
  BY SizesAssumption DEF TypeOK, CanSend
<1>2. ndatabytes_ \in Nat
  BY BytesFacts DEF TypeOK
<1>3. \A databytes \in DataBytes : databytes \in Nat
  BY SizesAssumption DEF DataBytes
<1>4. ndatabytes_' \in 0 .. MaxBytes
  <2>1. PICK databytes \in DataBytes : ndatabytes_' = Capped(ndatabytes_ + databytes)
    BY DEF Sent
  <2>2. ndatabytes_ + databytes \in Nat
    BY <1>2, <1>3
  <2> QED BY <2>1, <2>2, BytesFacts
<1>5. sinceWeak' \in Nat
  BY DEF Sent, TypeOK
<1>6. ndatapack_' = ndatapack_ + 1 /\ ndatapack_ + 1 \in 0 .. MaxPkts /\ ndatapack_ + 1 # 0
  BY <1>1 DEF Sent
<1> QED BY <1>4, <1>5, <1>6 DEF Sent, weighting

(* A packet that goes out preserves the invariant, if it goes out on an      *)
(* uplink and moves the turn of the weak links forward only.                 *)
LEMMA SendPreserves ==
  ASSUME PathInv, CanSend, Sent,
         linkID_' \in Uplinks,
         poorPathFlow_' \in BOOLEAN, poorPathFlow_' => poorPathFlow_,
         flowCellMod_' \in Nat, flowCellMod_' >= flowCellMod_,
         toggleWeakSpines_' \in 0 .. numUplinks
  PROVE  PathInv'
<1>1. TypeOK /\ Prepared /\ pc = "send"
  BY DEF PathInv, CanSend
<1>2. /\ ndatapack_' = ndatapack_ + 1 /\ ndatapack_' \in 0 .. MaxPkts /\ ndatapack_' # 0
      /\ ndatabytes_' \in 0 .. MaxBytes /\ sinceWeak' \in Nat
      /\ UNCHANGED <<pc, flow, rfactor, uplinkWeights, totalUplinkWeights, detection>>
  BY <1>1, SentFacts
<1>3. TypeOK'
  BY <1>1, <1>2 DEF TypeOK, MaxBytes
<1>4. flowCellMod_' >= flowcellSizePkts_ * rfactor
  <2>1. flowcellSizePkts_ * rfactor \in Nat
    BY <1>1, SizesAssumption, Product DEF TypeOK
  <2>2. PICK x, y, z : x = flowCellMod_' /\ y = flowCellMod_ /\ z = flowcellSizePkts_ * rfactor
    OBVIOUS
  <2>3. x \in Nat /\ y \in Nat /\ z \in Nat /\ x >= y /\ y >= z
    BY <1>1, <2>1, <2>2 DEF TypeOK, Prepared
  <2>4. x >= z
    BY <2>3
  <2> QED BY <2>2, <2>4
<1>5. Rfactor' = Rfactor /\ \A i : Weight(i)' = Weight(i)
  BY <1>2 DEF Rfactor, FromOrToFailedLeaf, Direct, numDirectFailures_, DirectSpines,
              FailuresOf, Weight, uplinkFailureRatio
<1>6. WeighsSpines' = WeighsSpines
  BY <1>2 DEF WeighsSpines
<1>7. Prepared'
  BY <1>1, <1>2, <1>4, <1>5, <1>6 DEF Prepared, WeightUpTo
<1>8. CrashIsNamed'
  BY <1>1, <1>2 DEF CrashIsNamed
<1> QED BY <1>2, <1>3, <1>7, <1>8 DEF PathInv

(* One that leaves the turns as they are.                                    *)
LEMMA SendKeepingTurns ==
  ASSUME PathInv, CanSend, Sent, linkID_' \in Uplinks,
         poorPathFlow_' \in BOOLEAN, poorPathFlow_' => poorPathFlow_, UNCHANGED turns
  PROVE  PathInv'
<1>1. TypeOK
  BY DEF PathInv
<1>2. flowCellMod_' = flowCellMod_ /\ flowCellMod_ \in Nat
      /\ toggleWeakSpines_' \in 0 .. numUplinks
  BY <1>1 DEF turns, TypeOK
<1> QED BY <1>2, SendPreserves

(* A turn of the weak links that has been taken moves the next one forward.  *)
LEMMA TurnMovesForward ==
  ASSUME TypeOK, NEW weakPaths \in Nat
  PROVE  NextTurn(weakPaths) \in Nat /\ NextTurn(weakPaths) >= flowCellMod_
<1>1. flowCellMod_ \in Nat /\ rfactor \in Nat /\ flowcellSizePkts_ \in Nat
  BY SizesAssumption DEF TypeOK
<1>2. PICK a, b : a = flowcellSizePkts_ * weakPaths /\ b = flowcellSizePkts_ * rfactor
  OBVIOUS
<1>3. a \in Nat /\ b \in Nat
  BY <1>1, <1>2, Product
<1>4. NextTurn(weakPaths) = flowCellMod_ + a + b
  BY <1>2 DEF NextTurn
<1> QED BY <1>1, <1>3, <1>4

(* When there is no turn to wait for there is none to come.                  *)
LEMMA NoTurnAtAll ==
  ASSUME PathInv, pc = "send", flowCellMod_ = 0
  PROVE  Rfactor = 0
<1>1. rfactor \in Nat /\ flowcellSizePkts_ \in Nat /\ flowcellSizePkts_ > 0
  BY SizesAssumption DEF PathInv, TypeOK
<1>2. PICK b : b = flowcellSizePkts_ * rfactor
  OBVIOUS
<1>3. b \in Nat /\ (rfactor > 0 => b > 0)
  BY <1>1, <1>2, Product
<1>4. rfactor = Rfactor /\ 0 >= b
  BY <1>2 DEF PathInv, Prepared
<1> QED BY <1>1, <1>3, <1>4

LEMMA CrashPreserves ==
  ASSUME PathInv, Crash,
         \/ flow.selectiveSpraying_ /\ ~ flow.realisticFailure_ /\ ~ FromOrToFailedLeaf
         \/ DirectSpines = Uplinks
  PROVE  PathInv'
<1>1. TypeOK'
  BY DEF PathInv, TypeOK, Crash, weighting, turns
<1>2. CrashIsNamed'
  BY DEF Crash, CrashIsNamed, FromOrToFailedLeaf, Direct, DirectSpines, FailuresOf
<1> QED BY <1>1, <1>2 DEF PathInv, Crash

-------------------------------------------------------------------------------
(* The actions.                                                              *)

LEMMA InitPathInv == Init => PathInv
<1> SUFFICES ASSUME Init PROVE PathInv
  OBVIOUS
<1>1. flow \in Flows /\ flow.poorPathFlow_ \in BOOLEAN
  BY FlowFacts DEF Init, FlowSettings
<1>2. numUplinks - 1 \in Uplinks /\ 0 \in 0 .. numUplinks
  BY UplinksAssumption DEF Uplinks
<1>3. 0 \in 0 .. MaxPkts /\ 0 \in 0 .. MaxBytes
  <2>1. MaxBytes \in Nat
    BY BytesFacts
  <2> QED BY <2>1, SizesAssumption
<1>4. uplinkWeights \in [Uplinks -> Nat]
  BY DEF Init
<1>5. detection \in {"before", "detected", "over"}
  BY DEF Init
<1>6. TypeOK
  BY <1>1, <1>2, <1>3, <1>4, <1>5 DEF Init, TypeOK
<1> QED BY <1>6 DEF Init, PathInv, CrashIsNamed

LEMMA FirstPacketPathInv == PathInv /\ FirstPacket => PathInv'
<1> SUFFICES ASSUME PathInv, FirstPacket PROVE PathInv'
  OBVIOUS
<1>1. TypeOK /\ flow \in Flows
  BY DEF PathInv, TypeOK
<1>2. UNCHANGED flow
  BY DEF FirstPacket
<1>3. /\ rfactor' = Rfactor /\ Rfactor \in Nat
      /\ flowCellMod_' = flowcellSizePkts_ * rfactor'
      /\ flowCellMod_' \in Nat
  <2>1. rfactor' = Rfactor /\ Rfactor \in Nat
        /\ flowCellMod_' = flowcellSizePkts_ * rfactor' /\ flowcellSizePkts_ \in Nat
    BY <1>1, RfactorFacts, SizesAssumption DEF FirstPacket
  <2> QED BY <2>1, Product
<1>4. /\ uplinkWeights' = [i \in Uplinks |-> IF WeighsSpines THEN Weight(i) ELSE 0]
      /\ uplinkWeights' \in [Uplinks -> Nat]
  <2>1. \A i \in Uplinks : Weight(i) \in Nat
    BY <1>1, WeightFacts
  <2> QED BY <2>1 DEF FirstPacket
<1>5. /\ totalUplinkWeights' = WeightUpTo(uplinkWeights')[numUplinks - 1]
      /\ totalUplinkWeights' \in Nat
  <2>1. PICK w, c : w = uplinkWeights' /\ c = WeightUpTo(w)
    OBVIOUS
  <2>2. SumsUpTo(c, w, numUplinks - 1)
    BY <1>4, <2>1, WeightUpToFacts
  <2>3. numUplinks - 1 \in 0 .. numUplinks - 1
    BY UplinksAssumption
  <2>4. c[numUplinks - 1] \in Nat
    BY <2>2, <2>3 DEF SumsUpTo
  <2> QED BY <2>1, <2>4 DEF FirstPacket
<1>6. linkID_' = FirstLink /\ FirstLink \in Uplinks
  BY <1>1, FirstLinkFacts DEF FirstPacket
<1>7. TypeOK'
  BY <1>1, <1>3, <1>4, <1>5, <1>6 DEF FirstPacket, TypeOK, MaxBytes
<1>8. flow' = flow /\ poorPathFlow_' = poorPathFlow_ /\ pc' = "send"
  BY DEF FirstPacket
<1>9. Rfactor' = Rfactor /\ FirstLink' = FirstLink /\ \A i : Weight(i)' = Weight(i)
  BY <1>8 DEF Rfactor, FromOrToFailedLeaf, Direct, numDirectFailures_, DirectSpines,
              FailuresOf, Weight, uplinkFailureRatio, FirstLink, FailedSpine
<1>10. WeighsSpines' = WeighsSpines
  BY <1>8 DEF WeighsSpines
<1>11. Prepared'
  <2>1. flowCellMod_' >= flowcellSizePkts_ * rfactor'
    <3>1. PICK x : x = flowCellMod_'
      OBVIOUS
    <3>2. x \in Nat /\ x = flowcellSizePkts_ * rfactor'
      BY <1>3, <3>1
    <3>3. x >= x
      BY <3>2
    <3> QED BY <3>1, <3>2, <3>3
  <2>2. (totalUplinkWeights = WeightUpTo(uplinkWeights)[numUplinks - 1])'
    BY <1>5 DEF WeightUpTo
  <2> QED BY <1>3, <1>4, <1>6, <1>9, <1>10, <2>1, <2>2 DEF Prepared
<1> QED BY <1>7, <1>8, <1>11 DEF PathInv, CrashIsNamed

(* A flow that knows of a failure has one.                                   *)
LEMMA KnownFailure ==
  ASSUME PathInv, KnowsFailure
  PROVE  FailedSpine \in Uplinks /\ Len(flow.failedLinks) \in Nat /\ Len(flow.failedLinks) >= 1
<1>1. flow \in Flows /\ flow.failureAware_
  BY DEF PathInv, TypeOK, KnowsFailure
<1>2. 1 \in DOMAIN flow.failedLinks /\ Len(flow.failedLinks) \in Nat
      /\ Len(flow.failedLinks) >= 1
  BY <1>1, FlowFacts
<1> QED BY <1>1, <1>2, FlowFacts DEF FailedSpine

(* Every link that the code computes is an uplink.                           *)
LEMMA LinksAreUplinks ==
  ASSUME PathInv
  PROVE  /\ linkID_ \in Uplinks /\ poorPathFlow_ \in BOOLEAN
         /\ Link(1) \in Uplinks /\ Link(2) \in Uplinks /\ Link(numUplinks + 1) \in Uplinks
         /\ \A k \in 1 .. numUplinks : Link(k) \in Uplinks
         /\ \A link \in Uplinks : SkipFailed(link) \in Uplinks
<1>1. linkID_ \in Uplinks /\ poorPathFlow_ \in BOOLEAN
  BY DEF PathInv, TypeOK
<1>2. 1 \in Nat /\ 2 \in Nat /\ numUplinks + 1 \in Nat /\ \A k \in 1 .. numUplinks : k \in Nat
  BY UplinksAssumption
<1>3. \A k \in Nat : Link(k) \in Uplinks
  BY <1>1, LinkFacts
<1>4. \A link \in Uplinks : SkipFailed(link) \in Uplinks
  BY NextFacts DEF SkipFailed
<1> QED BY <1>1, <1>2, <1>3, <1>4

LEMMA SendUnawarePathInv == PathInv /\ SendUnaware => PathInv'
<1> SUFFICES ASSUME PathInv, SendUnaware PROVE PathInv'
  OBVIOUS
<1>1. linkID_' \in Uplinks /\ poorPathFlow_ \in BOOLEAN
  BY LinksAreUplinks DEF SendUnaware
<1> QED BY <1>1, SendKeepingTurns DEF SendUnaware

LEMMA SendPoorPathInv == PathInv /\ SendPoor => PathInv'
<1> SUFFICES ASSUME PathInv, SendPoor PROVE PathInv'
  OBVIOUS
<1>1. FailedSpine \in Uplinks
  BY KnownFailure DEF SendPoor, Selective
<1>2. linkID_' \in Uplinks
  BY <1>1, LinksAreUplinks, NextFacts DEF SendPoor
<1>3. poorPathFlow_' \in BOOLEAN /\ poorPathFlow_
  BY DEF SendPoor
<1> QED BY <1>2, <1>3, SendKeepingTurns DEF SendPoor

LEMMA SendSelectivePathInv == PathInv /\ SendSelective => PathInv'
<1> SUFFICES ASSUME PathInv, SendSelective PROVE PathInv'
  OBVIOUS
<1>1. linkID_' \in Uplinks /\ poorPathFlow_ \in BOOLEAN
  BY LinksAreUplinks DEF SendSelective
<1> QED BY <1>1, SendKeepingTurns DEF SendSelective

LEMMA SendWeightedRestPathInv == PathInv /\ SendWeightedRest => PathInv'
<1> SUFFICES ASSUME PathInv, SendWeightedRest PROVE PathInv'
  OBVIOUS
<1>1. linkID_' \in Uplinks /\ poorPathFlow_ \in BOOLEAN
  BY LinksAreUplinks DEF SendWeightedRest
<1> QED BY <1>1, SendKeepingTurns DEF SendWeightedRest

(* The links among which the scan chooses, for one kind of link.             *)
Wanted(kind) == {k \in 1 .. numUplinks : isSpineFailed(Link(k)) = kind}

LEMMA WantedFacts ==
  ASSUME NEW kind, Wanted(kind) # {}
  PROVE  Min(Wanted(kind)) \in Wanted(kind)
<1>1. Wanted(kind) \subseteq Nat
  BY DEF Wanted
<1> QED BY <1>1, MinIsLeast

LEMMA SendWeightedSeveralPathInv == PathInv /\ SendWeightedSeveral => PathInv'
<1> SUFFICES ASSUME PathInv, SendWeightedSeveral PROVE PathInv'
  OBVIOUS
<1>1. TypeOK /\ flow \in Flows
  BY DEF PathInv, TypeOK
<1> DEFINE kind == IF TurnOfWeak THEN 1 ELSE 0
           wanted == Wanted(kind)
           weak == numDirectPartialFailurePaths
<1>2. /\ linkID_' = IF wanted = {} THEN Link(numUplinks + 1) ELSE Link(Min(wanted))
      /\ IF ~ TurnOfWeak \/ wanted = {} THEN UNCHANGED turns
         ELSE IF toggleWeakSpines_ + 1 >= weak
         THEN toggleWeakSpines_' = 0 /\ flowCellMod_' = NextTurn(weak)
         ELSE toggleWeakSpines_' = toggleWeakSpines_ + 1 /\ UNCHANGED flowCellMod_
  BY DEF SendWeightedSeveral, Wanted
<1>3. linkID_' \in Uplinks
  <2>1. wanted # {} => Min(wanted) \in 1 .. numUplinks
    BY WantedFacts DEF Wanted
  <2> HIDE DEF wanted
  <2> QED BY <1>2, <2>1, LinksAreUplinks
<1>4. weak \in 0 .. numUplinks /\ numUplinks \in Nat
  BY <1>1, SpineFacts, UplinksAssumption
<1>5. NextTurn(weak) \in Nat /\ NextTurn(weak) >= flowCellMod_
  <2>1. weak \in Nat
    BY <1>4
  <2> HIDE DEF weak
  <2> QED BY <1>1, <2>1, TurnMovesForward
<1>6. flowCellMod_ \in Nat /\ toggleWeakSpines_ \in 0 .. numUplinks
  BY <1>1 DEF TypeOK
<1>7. flowCellMod_ >= flowCellMod_
  BY <1>6
<1>8. flowCellMod_' \in Nat /\ flowCellMod_' >= flowCellMod_
  <2> HIDE DEF wanted, weak
  <2> QED BY <1>2, <1>5, <1>6, <1>7 DEF turns
<1>9. toggleWeakSpines_' \in 0 .. numUplinks
  <2>1. ~ (toggleWeakSpines_ + 1 >= weak) => toggleWeakSpines_ + 1 \in 0 .. numUplinks
    <3> HIDE DEF weak
    <3> QED BY <1>4, <1>6
  <2>2. 0 \in 0 .. numUplinks
    BY <1>4
  <2> HIDE DEF wanted, weak
  <2> QED BY <1>2, <1>6, <2>1, <2>2 DEF turns
<1>10. poorPathFlow_' = poorPathFlow_ /\ poorPathFlow_ \in BOOLEAN /\ CanSend /\ Sent
  BY <1>1 DEF TypeOK, SendWeightedSeveral
<1> QED BY <1>3, <1>8, <1>9, <1>10, SendPreserves

LEMMA SendWeightedNonePathInv == PathInv /\ SendWeightedNone => PathInv'
<1> SUFFICES ASSUME PathInv, SendWeightedNone PROVE PathInv'
  OBVIOUS
<1>1. flow \in Flows /\ pc = "send" /\ flowCellMod_ = 0
  BY DEF PathInv, TypeOK, SendWeightedNone, CanSend
<1>2. CASE Crash
  <2>1. Rfactor = 0
    BY <1>1, NoTurnAtAll
  <2>2. flow.roundRobin_ /\ ~ flow.selectiveSpraying_
    BY DEF SendWeightedNone, Weighted
  <2>3. DirectSpines = Uplinks
    BY <1>1, <2>1, <2>2, RfactorFacts
  <2> QED BY <1>2, <2>3, CrashPreserves
<1>3. CASE linkID_' = Link(numUplinks + 1) /\ Sent /\ UNCHANGED <<poorPathFlow_, turns>>
  <2>1. linkID_' \in Uplinks /\ poorPathFlow_ \in BOOLEAN /\ CanSend
    BY <1>3, LinksAreUplinks DEF SendWeightedNone
  <2> QED BY <1>3, <2>1, SendKeepingTurns
<1> QED BY <1>2, <1>3 DEF SendWeightedNone

LEMMA SendWeightedFarPathInv == PathInv /\ SendWeightedFar => PathInv'
<1> SUFFICES ASSUME PathInv, SendWeightedFar PROVE PathInv'
  OBVIOUS
<1>1. linkID_' \in Uplinks /\ poorPathFlow_ \in BOOLEAN
  BY LinksAreUplinks DEF SendWeightedFar
<1> QED BY <1>1, SendKeepingTurns DEF SendWeightedFar

(* The turn of a single weak link.                                           *)
LEMMA OneTurn ==
  ASSUME PathInv, CanSend, Sent, linkID_' = Link(1), UNCHANGED poorPathFlow_,
         flowCellMod_' = NextTurn(1), UNCHANGED toggleWeakSpines_
  PROVE  PathInv'
<1>1. TypeOK
  BY DEF PathInv
<1>2. NextTurn(1) \in Nat /\ NextTurn(1) >= flowCellMod_
  BY <1>1, TurnMovesForward
<1>3. linkID_' \in Uplinks /\ poorPathFlow_ \in BOOLEAN
  BY LinksAreUplinks
<1>4. toggleWeakSpines_' \in 0 .. numUplinks
  BY <1>1 DEF TypeOK
<1> QED BY <1>2, <1>3, <1>4, SendPreserves

LEMMA SendWeightedSinglePathInv == PathInv /\ SendWeightedSingle => PathInv'
<1> SUFFICES ASSUME PathInv, SendWeightedSingle PROVE PathInv'
  OBVIOUS
<1>1. CanSend /\ Sent /\ UNCHANGED poorPathFlow_
  BY DEF SendWeightedSingle
<1>2. CASE linkID_' \in {Link(1), Link(2)} /\ UNCHANGED turns
  <2>1. linkID_' \in Uplinks /\ poorPathFlow_ \in BOOLEAN
    BY <1>2, LinksAreUplinks
  <2> QED BY <1>1, <1>2, <2>1, SendKeepingTurns
<1>3. CASE linkID_' = Link(1) /\ flowCellMod_' = NextTurn(1) /\ UNCHANGED toggleWeakSpines_
  BY <1>1, <1>3, OneTurn
<1> QED BY <1>2, <1>3 DEF SendWeightedSingle

LEMMA SendWeightedFullPathInv == PathInv /\ SendWeightedFull => PathInv'
<1> SUFFICES ASSUME PathInv, SendWeightedFull PROVE PathInv'
  OBVIOUS
<1>1. linkID_' \in Uplinks /\ poorPathFlow_ \in BOOLEAN
  BY LinksAreUplinks DEF SendWeightedFull
<1> QED BY <1>1, SendKeepingTurns DEF SendWeightedFull

LEMMA SendStaticPathInv == PathInv /\ SendStatic => PathInv'
<1> SUFFICES ASSUME PathInv, SendStatic PROVE PathInv'
  OBVIOUS
<1>1. CanSend /\ UNCHANGED poorPathFlow_ /\ flow \in Flows /\ pc = "send"
  BY DEF PathInv, TypeOK, SendStatic, CanSend
<1>2. CASE linkID_' \in {linkID_, Link(1), Link(2)} /\ UNCHANGED turns /\ Sent
  <2>1. linkID_' \in Uplinks /\ poorPathFlow_ \in BOOLEAN
    BY <1>2, LinksAreUplinks
  <2> QED BY <1>1, <1>2, <2>1, SendKeepingTurns
<1>3. CASE ~ NeverFailed /\ ~ (StaysPut \/ ~ StartsFlowcell) /\ flowCellMod_ = 0 /\ Crash
  <2>1. Rfactor = 0
    BY <1>1, <1>3, NoTurnAtAll
  <2>2. flow.roundRobin_ /\ ~ flow.realisticFailure_
    BY DEF SendStatic, Static
  <2>3. \/ flow.selectiveSpraying_
        \/ DirectSpines = Uplinks
    BY <1>1, <2>1, <2>2, RfactorFacts
  <2>4. poorPathFlow_ \in BOOLEAN
    BY LinksAreUplinks
  <2>5. flow.selectiveSpraying_ => ~ FromOrToFailedLeaf
    BY <1>3, <2>4 DEF NeverFailed, StaysPut
  <2> QED BY <1>3, <2>2, <2>3, <2>5, CrashPreserves
<1>4. CASE /\ linkID_' = Link(1) /\ flowCellMod_' = NextTurn(1)
           /\ UNCHANGED toggleWeakSpines_ /\ Sent
  BY <1>1, <1>4, OneTurn
<1> QED BY <1>2, <1>3, <1>4 DEF SendStatic

LEMMA SendProbabilisticPathInv == PathInv /\ SendProbabilistic => PathInv'
<1> SUFFICES ASSUME PathInv, SendProbabilistic PROVE PathInv'
  OBVIOUS
<1>1. uplinkWeights \in [Uplinks -> Nat] /\ totalUplinkWeights \in Nat
  BY DEF PathInv, TypeOK
<1>2. ASSUME NEW r \in Random(totalUplinkWeights), linkID_' \in Drawn(r)
      PROVE  linkID_' \in Uplinks
  <2>1. r \in Nat
    BY <1>1 DEF Random
  <2> QED BY <1>1, <1>2, <2>1, DrawnFacts
<1>3. linkID_' \in Uplinks /\ poorPathFlow_ \in BOOLEAN
  BY <1>2, LinksAreUplinks DEF SendProbabilistic
<1> QED BY <1>3, SendKeepingTurns DEF SendProbabilistic

(* Steps after which only the detection of the failure may be different.     *)
LEMMA DetectPathInv == PathInv /\ (Detect \/ UNCHANGED vars) => PathInv'
<1> SUFFICES ASSUME PathInv, Detect \/ UNCHANGED vars PROVE PathInv'
  OBVIOUS
<1>1. /\ UNCHANGED <<pc, flow, linkID_, ndatapack_, ndatabytes_, poorPathFlow_, rfactor,
                     flowCellMod_, toggleWeakSpines_, uplinkWeights, totalUplinkWeights,
                     sinceWeak>>
      /\ detection' \in {"before", "detected", "over"}
  BY DEF Detect, vars, weighting, turns, PathInv, TypeOK
<1>2. TypeOK'
  BY <1>1 DEF PathInv, TypeOK, MaxBytes
<1>3. /\ Rfactor' = Rfactor /\ FirstLink' = FirstLink /\ \A i : Weight(i)' = Weight(i)
      /\ WeighsSpines' = WeighsSpines
  BY <1>1 DEF Rfactor, FromOrToFailedLeaf, Direct, numDirectFailures_, DirectSpines,
              FailuresOf, Weight, uplinkFailureRatio, FirstLink, FailedSpine, WeighsSpines
<1>4. Prepared => Prepared'
  BY <1>1, <1>3 DEF Prepared, WeightUpTo
<1>5. CrashIsNamed'
  BY <1>1 DEF PathInv, CrashIsNamed, FromOrToFailedLeaf, Direct, DirectSpines, FailuresOf
<1> QED BY <1>1, <1>2, <1>4, <1>5 DEF PathInv

LEMMA StepPathInv == PathInv /\ [Next]_vars => PathInv'
BY FirstPacketPathInv, SendUnawarePathInv, SendPoorPathInv, SendSelectivePathInv,
   SendWeightedRestPathInv, SendWeightedSeveralPathInv, SendWeightedNonePathInv,
   SendWeightedFarPathInv, SendWeightedSinglePathInv, SendWeightedFullPathInv,
   SendStaticPathInv, SendProbabilisticPathInv, DetectPathInv DEF Next

LEMMA PathInvariant == Spec => []PathInv
BY InitPathInv, StepPathInv, PTL DEF Spec

(* Every variable keeps its type, with any list of failures and any setting: *)
(* in particular linkID_ never leaves the uplinks, and the weights and turns *)
(* that output() computes never go below zero.                               *)
THEOREM PathsAreTyped == Spec => []TypeOK
<1>1. PathInv => TypeOK
  BY DEF PathInv
<1> QED BY <1>1, PathInvariant, PTL

(* output() takes a remainder by a flowCellMod_ of zero only for a flow that *)
(* is selectively sprayed between good leaves over a static failure, or that *)
(* has lost every uplink.                                                    *)
THEOREM CrashesAreNamed == Spec => []CrashIsNamed
<1>1. PathInv => CrashIsNamed
  BY DEF PathInv
<1> QED BY <1>1, PathInvariant, PTL

-------------------------------------------------------------------------------
(* Where a flowcell starts.                                                  *)

(* The start of a flowcell of a flow that knows of the failure.              *)
Starting ==
  PathInv /\ StartsFlowcell /\ KnowsFailure /\ ndatapack_' = ndatapack_ + 1

(* What DeadSpineUseIsNamed says of it, for the lost spines and for the      *)
(* failed ones.                                                              *)
LostIsNamed ==
  linkID_' \in DeadSpines =>
    IF LooksUpSpines
    THEN HidesFullFailure(linkID_') \/ NoneToTake
    ELSE \/ Marked
         \/ linkID_' # FailedSpine
         \/ Static /\ ~ flow.selectiveSpraying_ /\ AtTurn

FailedIsNamed == Selective /\ linkID_' \in DirectSpines => Marked

Named == LostIsNamed /\ FailedIsNamed

LEMMA StartingFacts ==
  ASSUME Starting
  PROVE  /\ TypeOK /\ flow \in Flows /\ linkID_ \in Uplinks /\ poorPathFlow_ \in BOOLEAN
         /\ DeadSpines \subseteq DirectSpines /\ DirectSpines \subseteq Uplinks
         /\ DirectSpines # {} <=> FromOrToFailedLeaf
         /\ FailedSpine \in Uplinks
         /\ Selective \/ (Weighted /\ ~ SeveralFailures) \/ Static => ~ LooksUpSpines
         /\ Weighted \/ Static \/ ~ flow.roundRobin_ => ~ Selective
<1>1. TypeOK /\ PathInv /\ KnowsFailure
  BY DEF Starting, PathInv
<1>2. flow \in Flows /\ linkID_ \in Uplinks /\ poorPathFlow_ \in BOOLEAN
  BY <1>1 DEF TypeOK
<1>3. FailedSpine \in Uplinks
  BY <1>1, KnownFailure
<1>4. Selective \/ (Weighted /\ ~ SeveralFailures) \/ Static => ~ LooksUpSpines
  BY DEF Selective, Weighted, Static, LooksUpSpines
<1>5. Weighted \/ Static \/ ~ flow.roundRobin_ => ~ Selective
  BY DEF Selective, Weighted, Static
<1> QED BY <1>1, <1>2, <1>3, <1>4, <1>5, SpineFacts

(* A selectively sprayed flow has a single failure.                          *)
LEMMA SelectiveIsSingle ==
  ASSUME Starting, Selective
  PROVE  /\ ~ (Len(flow.failedLinks) > 1)
         /\ DirectSpines \subseteq {FailedSpine} /\ DeadSpines \subseteq {FailedSpine}
<1>1. flow \in Flows /\ Len(flow.failedLinks) \in Nat /\ Len(flow.failedLinks) >= 1
  BY StartingFacts, KnownFailure DEF Starting
<1>2. ~ (Len(flow.failedLinks) > 1)
  BY <1>1, FlowsAssumption DEF Selective, KnowsFailure
<1>3. Len(flow.failedLinks) = 1
  <2>1. PICK len : len = Len(flow.failedLinks)
    OBVIOUS
  <2>2. len \in Nat /\ len >= 1 /\ ~ (len > 1)
    BY <1>1, <1>2, <2>1
  <2>3. len = 1
    BY <2>2
  <2> QED BY <2>1, <2>3
<1> QED BY <1>1, <1>2, <1>3, SingleFailure, StartingFacts

(* One that goes to no failed link, or only when it is marked.               *)
LEMMA SelectiveNamed ==
  ASSUME Starting, Selective, linkID_' # FailedSpine \/ DirectSpines = {} \/ Marked
  PROVE  Named
BY StartingFacts, SelectiveIsSingle DEF Named, LostIsNamed, FailedIsNamed

LEMMA PoorNamed == Starting /\ SendPoor => Named
<1> SUFFICES ASSUME Starting, SendPoor PROVE Named
  OBVIOUS
<1>1. Selective /\ FailedSpine \in Uplinks
  BY StartingFacts DEF SendPoor
<1>2. CASE ~ LeavesPoorPath
  BY <1>1, <1>2, SelectiveNamed DEF SendPoor, Marked, Selective
<1>3. CASE LeavesPoorPath
  <2>1. linkID_' \in {SkipFailed(Next1(FailedSpine)), SkipFailed(Link(1))}
    BY <1>3 DEF SendPoor
  <2>2. linkID_' # FailedSpine
    BY <1>1, <2>1, NextFacts DEF SkipFailed
  <2> QED BY <1>1, <2>2, SelectiveNamed
<1> QED BY <1>2, <1>3

LEMMA SelectiveSprayNamed == Starting /\ SendSelective => Named
<1> SUFFICES ASSUME Starting, SendSelective PROVE Named
  OBVIOUS
<1>1. Selective /\ ~ poorPathFlow_ /\ FailedSpine \in Uplinks
  BY StartingFacts DEF SendSelective
<1>2. CASE ~ FromOrToFailedLeaf
  BY <1>1, <1>2, StartingFacts, SelectiveNamed
<1>3. CASE FromOrToFailedLeaf /\ flow.failureCase_ = 1 /\ ndatapack_ = 0
  <2>1. linkID_' = FirstLink
    BY <1>3 DEF Starting, PathInv, SendSelective, CanSend, Prepared
  <2>2. CASE flow.DA_Flow_
    BY <1>1, <1>3, <2>2, SelectiveNamed DEF Marked, Selective
  <2>3. CASE ~ flow.DA_Flow_
    <3>1. FirstLink = Next1(FailedSpine)
      BY <1>1, <2>3, SelectiveIsSingle DEF FirstLink, Selective, KnowsFailure
    <3> QED BY <1>1, <2>1, <3>1, NextFacts, SelectiveNamed
  <2> QED BY <2>2, <2>3
<1>4. CASE FromOrToFailedLeaf /\ ~ (flow.failureCase_ = 1 /\ ndatapack_ = 0)
  <2>1. linkID_' = SkipFailed(Link(1))
    BY <1>4 DEF SendSelective, Starting, KeepsOff
  <2> QED BY <1>1, <2>1, NextFacts, SelectiveNamed DEF SkipFailed
<1> QED BY <1>2, <1>3, <1>4

(* A weighted flow looks for a link of one kind; when it finds none there is *)
(* none.                                                                     *)
LEMMA WantedIsThere ==
  ASSUME flow \in Flows, linkID_ \in Uplinks, NEW kind \in {0, 1}, Wanted(kind) = {}
  PROVE  IF kind = 1 THEN DirectSpines \subseteq DeadSpines ELSE DirectSpines = Uplinks
<1>1. ASSUME NEW spine \in Uplinks, isSpineFailed(spine) = kind PROVE FALSE
  <2>1. PICK k \in 1 .. numUplinks : Link(k) = spine
    BY ScanIsComplete
  <2> QED BY <1>1, <2>1 DEF Wanted
<1>2. DirectSpines \subseteq Uplinks
  BY SpineFacts
<1>3. CASE kind = 1
  <2>1. ASSUME NEW spine \in DirectSpines PROVE spine \in DeadSpines
    BY <1>1, <1>2, <1>3, <2>1, LookedUpFacts
  <2> QED BY <1>3, <2>1
<1>4. CASE kind = 0
  <2>1. ASSUME NEW spine \in Uplinks PROVE spine \in DirectSpines
    BY <1>1, <1>4, <2>1, LookedUpFacts
  <2> QED BY <1>2, <1>4, <2>1
<1> QED BY <1>3, <1>4

LEMMA SeveralNamed == Starting /\ SendWeightedSeveral => Named
<1> SUFFICES ASSUME Starting, SendWeightedSeveral PROVE Named
  OBVIOUS
<1>1. Weighted /\ SeveralFailures /\ ~ Selective /\ LooksUpSpines /\ flow.roundRobin_
  BY StartingFacts DEF SendWeightedSeveral, LooksUpSpines, Weighted
<1>2. PICK kind \in {0, 1} : kind = IF TurnOfWeak THEN 1 ELSE 0
  OBVIOUS
<1>3. linkID_' = IF Wanted(kind) = {} THEN Link(numUplinks + 1) ELSE Link(Min(Wanted(kind)))
  BY <1>2 DEF SendWeightedSeveral, Wanted
<1>4. CASE Wanted(kind) = {}
  <2>1. NoneToTake
    BY <1>1, <1>2, <1>4, StartingFacts, WantedIsThere DEF NoneToTake
  <2> QED BY <1>1, <2>1 DEF Named, LostIsNamed, FailedIsNamed
<1>5. CASE Wanted(kind) # {}
  <2>1. PICK k \in Wanted(kind) : k = Min(Wanted(kind))
    BY <1>5, WantedFacts
  <2>2. linkID_' = Link(k) /\ isSpineFailed(Link(k)) = kind /\ Link(k) \in Uplinks
    BY <1>3, <1>5, <2>1, LinksAreUplinks DEF Wanted, Starting
  <2>3. Link(k) \notin DirectSpines \/ HidesFullFailure(Link(k))
    BY <2>2, StartingFacts, LookedUpFacts
  <2> QED BY <1>1, <2>2, <2>3, StartingFacts DEF Named, LostIsNamed, FailedIsNamed
<1> QED BY <1>4, <1>5

LEMMA NoneNamed == Starting /\ SendWeightedNone => Named
<1> SUFFICES ASSUME Starting, SendWeightedNone PROVE Named
  OBVIOUS
<1>1. Weighted /\ SeveralFailures /\ ~ Selective /\ LooksUpSpines /\ flow.roundRobin_
  BY StartingFacts DEF SendWeightedNone, LooksUpSpines, Weighted
<1>2. Rfactor = 0
  BY NoTurnAtAll DEF Starting, SendWeightedNone, CanSend
<1>3. DirectSpines = Uplinks
  BY <1>1, <1>2, StartingFacts, RfactorFacts DEF Weighted
<1> QED BY <1>1, <1>3 DEF Named, LostIsNamed, FailedIsNamed, NoneToTake

(* Flows that have lost no spine, or go to another than that of the first    *)
(* failure under a scheme that knows it alone.                               *)
LEMMA OthersNamed ==
  ASSUME Starting, ~ Selective,
         \/ ~ FromOrToFailedLeaf
         \/ linkID_' \notin DeadSpines
         \/ ~ LooksUpSpines /\ linkID_' # FailedSpine
         \/ ~ LooksUpSpines /\ Marked
         \/ ~ LooksUpSpines /\ Static /\ ~ flow.selectiveSpraying_ /\ AtTurn
  PROVE  Named
<1>1. ~ FromOrToFailedLeaf => linkID_' \notin DeadSpines
  BY StartingFacts
<1> QED BY <1>1 DEF Named, LostIsNamed, FailedIsNamed

LEMMA FarNamed == Starting /\ SendWeightedFar => Named
<1> SUFFICES ASSUME Starting, SendWeightedFar PROVE Named
  OBVIOUS
<1>1. Cardinality(DirectSpines) = 0 /\ ~ Selective
  BY StartingFacts DEF SendWeightedFar, SeveralFailures, numDirectFailures_
<1>2. ~ FromOrToFailedLeaf
  BY <1>1, StartingFacts, SpineFacts
<1> QED BY <1>1, <1>2, OthersNamed

LEMMA SingleNamed == Starting /\ SendWeightedSingle => Named
<1> SUFFICES ASSUME Starting, SendWeightedSingle PROVE Named
  OBVIOUS
<1>1. Len(flow.failedLinks) = 1 /\ ~ Selective /\ ~ LooksUpSpines
  <2>1. Len(flow.failedLinks) = 1 /\ Weighted
    BY DEF SendWeightedSingle
  <2>2. ~ SeveralFailures
    BY <2>1 DEF SeveralFailures
  <2> QED BY <2>1, <2>2, StartingFacts
<1>2. CASE Link(1) # FailedSpine \/ ~ FromOrToFailedLeaf
  BY <1>1, <1>2, OthersNamed DEF SendWeightedSingle
<1>3. CASE /\ Link(1) = FailedSpine /\ FromOrToFailedLeaf
           /\ ~ AtTurn \/ flow.failedLinks[1].failureRatio = 100
  <2>1. linkID_' = Link(2) /\ Link(2) # FailedSpine
    BY <1>3, StartingFacts, SecondLink DEF SendWeightedSingle
  <2> QED BY <1>1, <2>1, OthersNamed
<1>4. CASE flow.failedLinks[1].failureRatio # 100
  <2>1. DeadSpines = {}
    BY <1>1, <1>4, StartingFacts, SingleFailure
  <2> QED BY <1>1, <2>1, OthersNamed
<1> QED BY <1>2, <1>3, <1>4

LEMMA FullNamed == Starting /\ SendWeightedFull => Named
<1> SUFFICES ASSUME Starting, SendWeightedFull PROVE Named
  OBVIOUS
<1>1. Weighted /\ ~ SeveralFailures
  BY DEF SendWeightedFull, SeveralFailures
<1>2. ~ Selective /\ ~ LooksUpSpines
  BY <1>1, StartingFacts
<1>3. CASE FromOrToFailedLeaf
  <2>1. linkID_' = SkipFailed(Link(1))
    BY <1>3 DEF SendWeightedFull
  <2>2. linkID_' # FailedSpine
    BY <2>1, StartingFacts, NextFacts DEF SkipFailed
  <2> QED BY <1>2, <2>2, OthersNamed
<1>4. CASE ~ FromOrToFailedLeaf
  BY <1>2, <1>4, OthersNamed
<1> QED BY <1>3, <1>4

LEMMA StaticNamed == Starting /\ SendStatic /\ Sent => Named
<1> SUFFICES ASSUME Starting, SendStatic, Sent PROVE Named
  OBVIOUS
<1>1. Static /\ ~ Selective /\ ~ LooksUpSpines /\ poorPathFlow_' = poorPathFlow_
  BY StartingFacts DEF SendStatic
<1>2. CASE StaysPut
  BY <1>1, <1>2, OthersNamed DEF StaysPut, Marked
<1>3. CASE ~ FromOrToFailedLeaf
  BY <1>1, <1>3, OthersNamed
<1>4. CASE ~ StaysPut /\ FromOrToFailedLeaf
  <2>1. ndatapack_' # ndatapack_
    BY DEF Starting, PathInv, TypeOK
  <2>2. ~ Crash
    BY <2>1 DEF Crash
  <2>3. linkID_' = Link(1) \/ linkID_' = Link(2)
    BY <1>4, <2>2 DEF SendStatic, Starting
  <2>4. linkID_' # FailedSpine \/ (~ NeverFailed /\ AtTurn)
    <3>1. Link(2) # Link(1)
      BY StartingFacts, SecondLink
    <3> QED BY <1>4, <2>2, <3>1 DEF SendStatic, Starting
  <2>5. NeverFailed \/ ~ flow.selectiveSpraying_
    BY <1>4, StartingFacts DEF NeverFailed, StaysPut
  <2> QED BY <1>1, <2>4, <2>5, OthersNamed
<1> QED BY <1>2, <1>3, <1>4

LEMMA ProbabilisticNamed == Starting /\ SendProbabilistic => Named
<1> SUFFICES ASSUME Starting, SendProbabilistic PROVE Named
  OBVIOUS
<1>1. ~ flow.roundRobin_ /\ ~ Selective /\ WeighsSpines /\ LooksUpSpines
  BY StartingFacts DEF SendProbabilistic, WeighsSpines, KnowsFailure, LooksUpSpines
<1>2. totalUplinkWeights \in Nat /\ uplinkWeights \in [Uplinks -> Nat]
  BY StartingFacts DEF TypeOK
<1>3. CASE totalUplinkWeights = 0
  BY <1>1, <1>3 DEF Named, LostIsNamed, FailedIsNamed, NoneToTake
<1>4. CASE totalUplinkWeights > 0
  <2>1. Prepared
    BY DEF Starting, PathInv, SendProbabilistic, CanSend
  <2>2. PICK r \in Random(totalUplinkWeights) : linkID_' \in Drawn(r)
    BY DEF SendProbabilistic, Starting
  <2>3. r \in Nat /\ r < totalUplinkWeights
    BY <1>2, <1>4, <2>2 DEF Random
  <2>4. PICK link : link = linkID_'
    OBVIOUS
  <2>5. link \in Uplinks /\ uplinkWeights[link] > 0
    <3>1. r < WeightUpTo(uplinkWeights)[numUplinks - 1]
      BY <2>1, <2>3 DEF Prepared
    <3> QED BY <1>2, <2>2, <2>3, <2>4, <3>1, DrawnFacts
  <2>6. uplinkWeights[link] = Weight(link)
    BY <1>1, <2>1, <2>5 DEF Prepared
  <2>7. ASSUME FromOrToFailedLeaf PROVE HidesFullFailure(link)
    BY <2>5, <2>6, <2>7 DEF Weight, HidesFullFailure
  <2>8. CASE FromOrToFailedLeaf
    BY <1>1, <2>4, <2>7, <2>8 DEF Named, LostIsNamed, FailedIsNamed
  <2>9. CASE ~ FromOrToFailedLeaf
    BY <1>1, <2>9, OthersNamed
  <2> QED BY <2>8, <2>9
<1> QED BY <1>2, <1>3, <1>4

LEMMA StepNamed == PathInv /\ [Next]_vars =>
  [NewFlowcell /\ KnowsFailure =>
     /\ linkID_' \in DeadSpines =>
          IF LooksUpSpines
          THEN HidesFullFailure(linkID_') \/ NoneToTake
          ELSE \/ Marked
               \/ linkID_' # FailedSpine
               \/ Static /\ ~ flow.selectiveSpraying_ /\ AtTurn
     /\ Selective /\ linkID_' \in DirectSpines => Marked]_vars
<1> SUFFICES ASSUME PathInv, Next, NewFlowcell, KnowsFailure
             PROVE  Named
  BY DEF Named, LostIsNamed, FailedIsNamed
<1>1. Starting
  BY DEF Starting, NewFlowcell
<1>2. ndatapack_' # ndatapack_
  <2>1. ndatapack_ \in 0 .. MaxPkts /\ MaxPkts \in Nat /\ ndatapack_' = ndatapack_ + 1
    BY SizesAssumption DEF PathInv, TypeOK, NewFlowcell
  <2> QED BY <2>1
<1>3. ~ FirstPacket /\ ~ Detect /\ ~ Crash
  BY <1>2 DEF FirstPacket, Detect, Crash
<1>4. ~ SendUnaware /\ ~ SendWeightedRest
  BY <1>1 DEF SendUnaware, SendWeightedRest, Starting
<1>5. SendStatic => Sent
  BY <1>3 DEF SendStatic
<1> QED BY <1>1, <1>3, <1>4, <1>5, PoorNamed, SelectiveSprayNamed, SeveralNamed, NoneNamed,
           FarNamed, SingleNamed, FullNamed, StaticNamed, ProbabilisticNamed DEF Next

(* A flowcell of a flow that knows of the failure starts on a spine that the *)
(* pair of leaves has lost only in the cases that DeadSpineUseIsNamed names, *)
(* and one of a selectively sprayed flow on a failed link only if it is      *)
(* marked for it, for every list of failures, scheme and number of uplinks   *)
(* (TcpAgent::output and isSpineFailed).                                     *)
THEOREM DeadSpineUsesAreNamed == Spec => DeadSpineUseIsNamed
<1>1. [Next]_vars /\ PathInv =>
        [NewFlowcell /\ KnowsFailure =>
           /\ linkID_' \in DeadSpines =>
                IF LooksUpSpines
                THEN HidesFullFailure(linkID_') \/ NoneToTake
                ELSE \/ Marked
                     \/ linkID_' # FailedSpine
                     \/ Static /\ ~ flow.selectiveSpraying_ /\ AtTurn
           /\ Selective /\ linkID_' \in DirectSpines => Marked]_vars
  BY StepNamed
<1> QED BY <1>1, PathInvariant, PTL DEF Spec, DeadSpineUseIsNamed

-------------------------------------------------------------------------------
(* The share of the weak links.                                              *)

(* The flowcells that have started and the one with which the turn of the    *)
(* weak links comes, as numbers of flowcells.                                *)
Counts(c, m) ==
  /\ flowCellMod_ = flowcellSizePkts_ * m /\ m > 0
  /\ ndatapack_ <= flowcellSizePkts_ * c
  /\ flowcellSizePkts_ * c < ndatapack_ + flowcellSizePkts_

(* Between two turns the turn comes after what is left of rfactor flowcells, *)
(* and in a turn the weak links that have had it have a flowcell each.       *)
SeveralShare(c, m) ==
  /\ Counts(c, m)
  /\ IF toggleWeakSpines_ = 0
     THEN c + rfactor = m + sinceWeak /\ sinceWeak <= rfactor
     ELSE c = m + toggleWeakSpines_ /\ toggleWeakSpines_ < numDirectPartialFailurePaths

(* The link that is r links after the failed one, the first or the last.     *)
LinkAfterFailed(r) ==
  IF FailedSpine = 0 THEN r ELSE IF r = 0 THEN numUplinks - 1 ELSE r - 1

(* With a single failure the flowcells since the turn make q rounds of the   *)
(* healthy links and r links of the next one, and the turn comes after a     *)
(* number of whole rounds.                                                   *)
SingleShare(c, m, k, q, r) ==
  /\ Counts(c, m) /\ (k = 1 \/ (k = 2 /\ FailedSpine = 0))
  /\ c + k * rfactor = m + sinceWeak /\ sinceWeak <= k * rfactor
  /\ sinceWeak <= c
  /\ sinceWeak = (numUplinks - 1) * q + r
  /\ r <= numUplinks - 1 /\ (r = 0 => q = 0)
  /\ linkID_ = LinkAfterFailed(r)

(* A flow that starts before the first link finds its turn in the first      *)
(* packet, and the next one a turn later than it should.                     *)
StartsAtTurn ==
  /\ FailedSpine = 0 /\ ndatapack_ = 0 /\ sinceWeak = 0
  /\ linkID_ = numUplinks - 1 /\ flowCellMod_ = flowcellSizePkts_ * rfactor

(* The healthy link at place e of a round, of which the links before the     *)
(* failed one in the middle are first.                                       *)
HealthyLink(e) ==
  IF e = 0 THEN numUplinks - 1 ELSE IF e <= FailedSpine THEN e - 1 ELSE e

(* A failed link in the middle is never taken, so that the flowcells of the  *)
(* flow make q rounds of the healthy links and e links of the next one, and  *)
(* the turn stays where it was.                                              *)
MiddleShare(c, q, e) ==
  /\ Counts(c, rfactor)
  /\ c = (numUplinks - 1) * q + e
  /\ e <= numUplinks - 1
  /\ linkID_ = HealthyLink(e)

Shares ==
  IF Len(flow.failedLinks) > 1
  THEN \E c, m \in Nat : SeveralShare(c, m)
  ELSE /\ toggleWeakSpines_ = 0
       /\ IF InTheMiddle
          THEN \E c, q, e \in Nat : MiddleShare(c, q, e)
          ELSE StartsAtTurn \/ \E c, m, k, q, r \in Nat : SingleShare(c, m, k, q, r)

ShareInv ==
  /\ flow.startsDetected => detection # "before"
  /\ pc = "first" => ndatapack_ = 0 /\ toggleWeakSpines_ = 0 /\ sinceWeak = 0
  /\ pc = "send" /\ Aligned => Shares

(* Whole flowcells.                                                          *)
LEMMA WholeFlowcells ==
  ASSUME NEW F \in Nat \ {0}, NEW n \in Nat, NEW c \in Nat, n <= F * c, F * c < n + F
  PROVE  n % F = 0 <=> n = F * c
<1>1. PICK q, r : q = n \div F /\ r = n % F
  OBVIOUS
<1>2. q \in Int /\ r \in 0 .. F - 1 /\ n = F * q + r
  BY <1>1
<1>3. PICK d : d = c - q
  OBVIOUS
<1>4. d \in Int /\ F * c = F * q + F * d
  BY <1>2, <1>3
<1>5. r <= F * d /\ F * d < r + F
  BY <1>2, <1>4
<1>6. CASE r = 0
  <2>1. d < 1 /\ d > -1
    BY <1>4, <1>5, <1>6
  <2>2. d = 0
    BY <1>4, <2>1
  <2> QED BY <1>1, <1>2, <1>4, <1>6, <2>2
<1>7. CASE r # 0
  <2>1. n # F * c
    <3> SUFFICES ASSUME F * d = r PROVE FALSE
      BY <1>2, <1>4
    <3>1. d > 0 /\ d < 1
      BY <1>2, <1>4, <1>7
    <3> QED BY <1>4, <3>1
  <2> QED BY <1>1, <1>7, <2>1
<1> QED BY <1>6, <1>7

LEMMA ProductIsMonotonic ==
  ASSUME NEW F \in Nat \ {0}, NEW a \in Nat, NEW b \in Nat
  PROVE  /\ a < b <=> F * a < F * b
         /\ F * (a + 1) = F * a + F
         /\ F * a \in Nat /\ (a > 0 => F * a > 0)
OBVIOUS

(* Where the count of flowcells stands at the start of one, and after its    *)
(* first packet.                                                             *)
LEMMA StartCounts ==
  ASSUME TypeOK, NEW c \in Nat, NEW m \in Nat, Counts(c, m), StartsFlowcell,
         ndatapack_' = ndatapack_ + 1,
         NEW next \in Nat, next > 0, flowCellMod_' = flowcellSizePkts_ * next
  PROVE  /\ ndatapack_ = flowcellSizePkts_ * c
         /\ ndatapack_ = 0 <=> c = 0
         /\ Counts(c + 1, next)'
<1>1. PICK F, n : F = flowcellSizePkts_ /\ n = ndatapack_
  OBVIOUS
<1>2. F \in Nat \ {0} /\ n \in Nat /\ n <= F * c /\ F * c < n + F /\ n % F = 0
  BY <1>1, SizesAssumption DEF TypeOK, Counts, StartsFlowcell
<1>3. n = F * c
  BY <1>2, WholeFlowcells
<1>4. F * (c + 1) = F * c + F /\ F * c \in Nat /\ (c > 0 => F * c > 0) /\ F * 0 = 0
  BY <1>2, ProductIsMonotonic
<1>5. n + 1 <= F * (c + 1) /\ F * (c + 1) < (n + 1) + F
  BY <1>2, <1>3, <1>4
<1>6. n = 0 <=> c = 0
  BY <1>3, <1>4
<1> QED BY <1>1, <1>3, <1>5, <1>6 DEF Counts

(* The other packets of a flowcell.                                          *)
LEMMA RestCounts ==
  ASSUME TypeOK, NEW c \in Nat, NEW m \in Nat, Counts(c, m), ~ StartsFlowcell,
         ndatapack_' = ndatapack_ + 1, flowCellMod_' = flowCellMod_
  PROVE  Counts(c, m)'
<1>1. PICK F, n : F = flowcellSizePkts_ /\ n = ndatapack_
  OBVIOUS
<1>2. F \in Nat \ {0} /\ n \in Nat /\ n <= F * c /\ F * c < n + F /\ n % F # 0
  BY <1>1, SizesAssumption DEF TypeOK, Counts, StartsFlowcell
<1>3. n # F * c
  BY <1>2, WholeFlowcells
<1>4. F * c \in Nat
  BY <1>2, ProductIsMonotonic
<1>5. n + 1 <= F * c /\ F * c < (n + 1) + F
  BY <1>2, <1>3, <1>4
<1> QED BY <1>1, <1>5 DEF Counts

(* The turn of the weak links comes with flowcell m, and not before, but for *)
(* the first packet.                                                         *)
LEMMA TurnComes ==
  ASSUME TypeOK, NEW c \in Nat, NEW m \in Nat, Counts(c, m), StartsFlowcell, c <= m
  PROVE  AtTurn <=> (c = m \/ ndatapack_ = 0)
<1>1. PICK F, n, t : F = flowcellSizePkts_ /\ n = ndatapack_ /\ t = flowCellMod_
  OBVIOUS
<1>2. /\ F \in Nat \ {0} /\ n \in Nat /\ n <= F * c /\ F * c < n + F /\ n % F = 0
      /\ t = F * m /\ m > 0
  BY <1>1, SizesAssumption DEF TypeOK, Counts, StartsFlowcell
<1>3. n = F * c
  BY <1>2, WholeFlowcells
<1>4. t \in Nat \ {0}
  BY <1>2, ProductIsMonotonic
<1>5. CASE c = m
  <2>1. n = t /\ t < 2 * t /\ t <= t
    BY <1>2, <1>3, <1>4, <1>5
  <2>2. n % t = n - t
    BY <1>4, <2>1, Remainder
  <2>3. n % t = 0
    BY <1>4, <2>1, <2>2
  <2> QED BY <1>1, <1>5, <2>3 DEF AtTurn
<1>6. CASE c # m
  <2>1. n < t
    <3>1. c < m
      BY <1>6
    <3> QED BY <1>2, <1>3, <3>1, ProductIsMonotonic
  <2>2. n % t = n
    BY <1>2, <1>4, <2>1, Remainder
  <2> QED BY <1>1, <1>6, <2>2 DEF AtTurn
<1> QED BY <1>5, <1>6

(* A turn moves the next one by the flowcells of the weak links and rfactor. *)
LEMMA TurnsAreApart ==
  ASSUME TypeOK, NEW c \in Nat, NEW m \in Nat, Counts(c, m), NEW weak \in Nat
  PROVE  NextTurn(weak) = flowcellSizePkts_ * (m + weak + rfactor)
<1>1. PICK F, t, R : F = flowcellSizePkts_ /\ t = flowCellMod_ /\ R = rfactor
  OBVIOUS
<1>2. F \in Nat /\ t = F * m /\ R \in Nat
  BY <1>1, SizesAssumption DEF TypeOK, Counts
<1>3. F * (m + weak + R) = F * m + F * weak + F * R
  BY <1>2
<1> QED BY <1>1, <1>2, <1>3 DEF NextTurn

(* What is known of a flow whose weak links have turns that come round.      *)
LEMMA AlignedFacts ==
  ASSUME PathInv, Aligned
  PROVE  /\ TypeOK /\ flow \in Flows /\ linkID_ \in Uplinks
         /\ Rfactor \in Nat \ {0} /\ FirstLink = numUplinks - 1
         /\ DirectSpines \subseteq Uplinks /\ numDirectPartialFailurePaths \in Nat
         /\ Len(flow.failedLinks) > 1 =>
              /\ DirectSpines # Uplinks /\ ~ DirectSpines \subseteq DeadSpines
              /\ numDirectPartialFailurePaths > 0 /\ numDirectFailures_ > 0
              /\ ~ InTheMiddle
         /\ ~ (Len(flow.failedLinks) > 1) =>
              /\ Len(flow.failedLinks) = 1 /\ FailedSpine \in Uplinks
              /\ InTheMiddle <=> FailedSpine \notin {0, numUplinks - 1}
              /\ DirectSpines = {FailedSpine} /\ flow.failedLinks[1].failureRatio # 100
              /\ \E ratio \in Nat \ {0} : Rfactor = (numUplinks - 1) * ratio
<1>1. /\ TypeOK /\ flow \in Flows /\ linkID_ \in Uplinks
      /\ flow.failureAware_ /\ flow.roundRobin_ /\ ~ flow.selectiveSpraying_
      /\ FromOrToFailedLeaf
  BY DEF PathInv, TypeOK, Aligned, Weighted, KnowsFailure
<1>2. Len(flow.failedLinks) \in Nat /\ Len(flow.failedLinks) >= 1
  BY KnownFailure DEF Aligned, Weighted
<1>3. FirstLink = numUplinks - 1
  BY <1>1 DEF FirstLink
<1>4. /\ DeadSpines \subseteq DirectSpines /\ DirectSpines \subseteq Uplinks
      /\ DirectSpines # {} /\ numDirectPartialFailurePaths \in Nat
      /\ Cardinality(DirectSpines) \in Nat /\ Cardinality(DirectSpines) # 0
  BY <1>1, SpineFacts
<1>5. CASE Len(flow.failedLinks) > 1
  <2>1. DirectSpines # Uplinks /\ ~ DirectSpines \subseteq DeadSpines
    BY <1>5 DEF Aligned
  <2>2. numDirectPartialFailurePaths # 0
    <3>1. IsFiniteSet(Uplinks)
      BY FS_Interval, UplinksAssumption DEF Uplinks
    <3>2. IsFiniteSet(DirectSpines \ DeadSpines)
      <4>1. DirectSpines \ DeadSpines \in SUBSET Uplinks
        BY <1>4
      <4> QED BY <3>1, <4>1, FS_Subset
    <3>3. DirectSpines \ DeadSpines # {}
      BY <2>1
    <3> QED BY <3>2, <3>3, FS_EmptySet DEF numDirectPartialFailurePaths
  <2>3. numDirectFailures_ > 0
    BY <1>4, <1>5 DEF numDirectFailures_
  <2>4. Rfactor \in Nat /\ Rfactor # 0
    BY <1>1, <2>1, RfactorFacts
  <2>5. numDirectPartialFailurePaths > 0
    BY <1>4, <2>2
  <2>6. ~ InTheMiddle
    <3>1. PICK len : len = Len(flow.failedLinks)
      OBVIOUS
    <3>2. len > 1
      BY <1>5, <3>1
    <3>3. len # 1
      BY <3>2
    <3>4. Len(flow.failedLinks) # 1
      BY <3>1, <3>3, Zenon
    <3> QED BY <3>4 DEF InTheMiddle
  <2> QED BY <1>1, <1>3, <1>4, <1>5, <2>1, <2>3, <2>4, <2>5, <2>6
<1>6. CASE ~ (Len(flow.failedLinks) > 1)
  <2>1. Len(flow.failedLinks) = 1
    <3>1. PICK len : len = Len(flow.failedLinks)
      OBVIOUS
    <3>2. len \in Nat /\ len >= 1 /\ ~ (len > 1)
      BY <1>2, <1>6, <3>1
    <3>3. len = 1
      BY <3>2
    <3> QED BY <3>1, <3>3
  <2>2. FailedSpine \in Uplinks /\ (InTheMiddle <=> FailedSpine \notin {0, numUplinks - 1})
    BY <1>1, <2>1, SingleFailure DEF InTheMiddle
  <2>3. DirectSpines = {FailedSpine}
    BY <1>1, <1>4, <2>1, SingleFailure
  <2>4. flow.failedLinks[1].failureRatio # 100
    <3>1. FailedSpine \notin DeadSpines
      BY <2>3 DEF Aligned
    <3>2. PICK i \in FailuresOf(FailedSpine) : TRUE
      BY <2>3 DEF DirectSpines
    <3>3. i = 1
      <4>1. DOMAIN flow.failedLinks = {1}
        BY <1>1, <2>1, FlowFacts
      <4> QED BY <3>2, <4>1 DEF FailuresOf
    <3> QED BY <2>2, <3>1, <3>2, <3>3 DEF DeadSpines
  <2>5. flow.failureRatio_ \in Nat \ {0}
    <3>1. flow.failureRatio_ \in 1 .. 100
      BY <1>1, FlowFacts
    <3> QED BY <3>1
  <2>6. Rfactor = (numUplinks - 1) * flow.failureRatio_
    BY <1>1, <1>6 DEF Rfactor
  <2>7. numUplinks - 1 \in Nat /\ numUplinks - 1 > 0
    BY UplinksAssumption
  <2>8. Rfactor \in Nat /\ Rfactor > 0
    BY <2>5, <2>6, <2>7, Product
  <2> QED BY <1>1, <1>3, <1>4, <1>6, <2>1, <2>2, <2>3, <2>4, <2>5, <2>6, <2>8
<1> QED BY <1>5, <1>6

(* The flow does not change, nor what follows from its settings.             *)
LEMMA FlowStays ==
  ASSUME flow' = flow, detection' = detection
  PROVE  /\ Aligned' = Aligned /\ FailedSpine' = FailedSpine
         /\ Rfactor' = Rfactor /\ InTheMiddle' = InTheMiddle
         /\ numDirectPartialFailurePaths' = numDirectPartialFailurePaths
BY DEF Aligned, Weighted, KnowsFailure, WorstIsFirst, HidesFullFailure, FromOrToFailedLeaf,
       Direct, DirectSpines, DeadSpines, FailuresOf, FailedSpine, uplinkFailureRatio,
       InTheMiddle, numDirectPartialFailurePaths, Rfactor, numDirectFailures_

(* What the step of a flow says of the share, if it starts a flowcell.       *)
SharedExactly ==
  IF linkID_' \in DirectSpines
  THEN /\ ~ InTheMiddle
       /\ ndatapack_ = 0 \/ toggleWeakSpines_ > 0 \/ sinceWeak >= rfactor
  ELSE /\ toggleWeakSpines_ = 0
       /\ \/ InTheMiddle
          \/ sinceWeak < rfactor * (IF FailedSpine = 0 /\ Len(flow.failedLinks) = 1
                                    THEN 2 ELSE 1)

(* A flow of another kind has no share to keep.                              *)
LEMMA OtherFlows ==
  ASSUME ShareInv, ~ Aligned \/ pc' # "send", flow' = flow, detection' = detection,
         pc' # "first"
  PROVE  ShareInv'
BY FlowStays DEF ShareInv

(* A packet of a flow that has one keeps it with the counters that say so.   *)
LEMMA SentKeepsShare ==
  ASSUME ShareInv, CanSend, Sent, Shares'
  PROVE  ShareInv'
BY DEF ShareInv, CanSend, Sent

(* The turns of several weak links.                                          *)
LEMMA SeveralShares ==
  ASSUME PathInv, ShareInv, Aligned, SendWeightedSeveral
  PROVE  ShareInv' /\ SharedExactly
<1>1. /\ TypeOK /\ flow \in Flows /\ linkID_ \in Uplinks /\ CanSend /\ Sent /\ StartsFlowcell
      /\ WorstIsFirst /\ Len(flow.failedLinks) > 1 /\ ~ InTheMiddle
      /\ DirectSpines # Uplinks /\ ~ DirectSpines \subseteq DeadSpines
      /\ DirectSpines \subseteq Uplinks
  BY AlignedFacts DEF SendWeightedSeveral, Aligned, SeveralFailures
<1>2. PICK kind : kind = IF TurnOfWeak THEN 1 ELSE 0
  OBVIOUS
<1>3. Wanted(kind) # {}
  <2>1. kind \in {0, 1}
    BY <1>2
  <2> QED BY <1>1, <2>1, WantedIsThere
<1>4. PICK k \in Wanted(kind) : k = Min(Wanted(kind))
  BY <1>3, WantedFacts
<1>5. /\ linkID_' = Link(k)
      /\ IF ~ TurnOfWeak THEN UNCHANGED turns
         ELSE IF toggleWeakSpines_ + 1 >= numDirectPartialFailurePaths
         THEN toggleWeakSpines_' = 0 /\ flowCellMod_' = NextTurn(numDirectPartialFailurePaths)
         ELSE toggleWeakSpines_' = toggleWeakSpines_ + 1 /\ UNCHANGED flowCellMod_
  BY <1>2, <1>3, <1>4 DEF SendWeightedSeveral, Wanted
<1>6. linkID_' \in DirectSpines <=> TurnOfWeak
  <2>1. isSpineFailed(Link(k)) = kind /\ Link(k) \in Uplinks
    BY <1>4, LinksAreUplinks DEF Wanted
  <2> QED BY <1>1, <1>2, <1>5, <2>1, FailedFacts
<1>7. PICK c \in Nat, m \in Nat : SeveralShare(c, m)
  BY <1>1 DEF ShareInv, Shares, CanSend
<1>8. PICK T, s, R, P : /\ T = toggleWeakSpines_ /\ s = sinceWeak /\ R = rfactor
                        /\ P = numDirectPartialFailurePaths
  OBVIOUS
<1>9. /\ T \in Nat /\ s \in Nat /\ R \in Nat \ {0} /\ P \in Nat /\ P > 0
      /\ IF T = 0 THEN c + R = m + s /\ s <= R ELSE c = m + T /\ T < P
      /\ Counts(c, m) /\ m > 0
  <2>1. rfactor = Rfactor
    BY <1>1 DEF PathInv, Prepared, CanSend
  <2>2. toggleWeakSpines_ \in Nat
    BY <1>1, UplinksAssumption DEF TypeOK
  <2> QED BY <1>1, <1>7, <1>8, <2>1, <2>2, AlignedFacts DEF SeveralShare, Counts, TypeOK
<1>10. /\ ndatapack_' = ndatapack_ + 1 /\ rfactor' = rfactor
       /\ sinceWeak' = IF TurnOfWeak THEN 0 ELSE s + 1
       /\ numDirectPartialFailurePaths' = P /\ Len(flow.failedLinks)' > 1
  BY <1>1, <1>6, <1>8, FlowStays DEF Sent, weighting
<1>11. ASSUME NEW next \in Nat, next > 0, flowCellMod_' = flowcellSizePkts_ * next
       PROVE  (ndatapack_ = 0 <=> c = 0) /\ Counts(c + 1, next)'
  BY <1>1, <1>9, <1>10, <1>11, StartCounts
<1>12. CASE ~ TurnOfWeak
  <2>1. T = 0
    BY <1>8, <1>9, <1>12 DEF TurnOfWeak
  <2>2. c + R = m + s /\ s <= R /\ c <= m
    BY <1>9, <2>1
  <2>3. flowCellMod_' = flowcellSizePkts_ * m /\ toggleWeakSpines_' = 0
    BY <1>5, <1>8, <1>9, <1>12, <2>1 DEF turns, Counts
  <2>4. (ndatapack_ = 0 <=> c = 0) /\ Counts(c + 1, m)'
    BY <1>9, <1>11, <2>3
  <2>5. c # m
    <3> SUFFICES ASSUME c = m PROVE FALSE
      OBVIOUS
    <3>1. ndatapack_ # 0 /\ ndatapack_ \in Nat
      BY <1>1, <1>9, <2>4 DEF TypeOK
    <3>2. AtTurn
      BY <1>1, <1>9, <2>2, TurnComes
    <3> QED BY <1>12, <3>1, <3>2 DEF TurnOfWeak
  <2>6. s < R /\ (c + 1) + R = m + (s + 1) /\ s + 1 <= R /\ c + 1 \in Nat
    BY <1>9, <2>2, <2>5
  <2>7. SeveralShare(c + 1, m)'
    BY <1>8, <1>10, <1>12, <2>3, <2>4, <2>6 DEF SeveralShare
  <2>8. Shares'
    BY <1>10, <2>6, <2>7 DEF Shares
  <2>9. SharedExactly
    <3>1. sinceWeak < rfactor * 1
      BY <1>8, <1>9, <2>6
    <3>2. Len(flow.failedLinks) # 1
      <4>1. PICK len : len = Len(flow.failedLinks)
        OBVIOUS
      <4>2. len > 1
        BY <1>1, <4>1
      <4>3. len # 1
        BY <4>2
      <4> QED BY <4>1, <4>3, Zenon
    <3> QED BY <1>6, <1>8, <1>12, <2>1, <3>1, <3>2 DEF SharedExactly
  <2> QED BY <1>1, <2>8, <2>9, SentKeepsShare
<1>13. CASE TurnOfWeak
  <2>1. c = m + T /\ (T = 0 => s = R)
    <3>1. CASE T = 0
      <4>1. AtTurn /\ ndatapack_ # 0
        <5>1. ndatapack_ > 0 /\ ndatapack_ \in Nat /\ AtTurn
          BY <1>1, <1>8, <1>13, <3>1 DEF TurnOfWeak, TypeOK
        <5> QED BY <5>1
      <4>2. c <= m
        BY <1>9, <3>1
      <4>3. c = m
        BY <1>1, <1>9, <4>1, <4>2, TurnComes
      <4> QED BY <1>9, <3>1, <4>3
    <3>2. CASE T # 0
      BY <1>9, <3>2
    <3> QED BY <3>1, <3>2
  <2>2. Shares'
    <3>1. CASE T + 1 >= P
      <4>1. PICK next : next = m + P + R
        OBVIOUS
      <4>2. /\ next \in Nat /\ next > 0 /\ (c + 1) + R = next /\ c + 1 \in Nat
            /\ (c + 1) + R = next + 0 /\ 0 <= R
        BY <1>9, <2>1, <3>1, <4>1
      <4>3. flowCellMod_' = flowcellSizePkts_ * next /\ toggleWeakSpines_' = 0
        <5>1. NextTurn(P) = flowcellSizePkts_ * (m + P + R)
          BY <1>1, <1>8, <1>9, TurnsAreApart
        <5> QED BY <1>5, <1>8, <1>13, <3>1, <4>1, <5>1
      <4>4. Counts(c + 1, next)'
        BY <1>11, <4>2, <4>3
      <4>5. SeveralShare(c + 1, next)'
        BY <1>8, <1>10, <1>13, <4>2, <4>3, <4>4 DEF SeveralShare
      <4> QED BY <1>10, <4>2, <4>5 DEF Shares
    <3>2. CASE ~ (T + 1 >= P)
      <4>1. c + 1 = m + (T + 1) /\ T + 1 < P /\ T + 1 # 0 /\ c + 1 \in Nat
        BY <1>9, <2>1, <3>2
      <4>2. flowCellMod_' = flowcellSizePkts_ * m /\ toggleWeakSpines_' = T + 1
        BY <1>5, <1>8, <1>9, <1>13, <3>2 DEF Counts
      <4>3. Counts(c + 1, m)'
        BY <1>9, <1>11, <4>2
      <4>4. SeveralShare(c + 1, m)'
        BY <1>10, <4>1, <4>2, <4>3 DEF SeveralShare
      <4> QED BY <1>10, <4>1, <4>4 DEF Shares
    <3> QED BY <3>1, <3>2
  <2>3. SharedExactly
    <3>1. toggleWeakSpines_ > 0 \/ sinceWeak >= rfactor
      BY <1>8, <1>9, <2>1
    <3> QED BY <1>1, <1>6, <1>13, <3>1 DEF SharedExactly
  <2> QED BY <1>1, <2>2, <2>3, SentKeepsShare
<1> QED BY <1>12, <1>13

(* The links that a round robin meets, counted from the failed one.          *)
LEMMA RoundOfLinks ==
  ASSUME FailedSpine \in {0, numUplinks - 1}, NEW r \in Nat, r <= numUplinks - 1,
         linkID_ = LinkAfterFailed(r)
  PROVE  /\ r < numUplinks - 1 => Link(1) = LinkAfterFailed(r + 1) /\ Link(1) # FailedSpine
         /\ r = numUplinks - 1 => /\ Link(1) = FailedSpine
                                  /\ Link(2) = LinkAfterFailed(1) /\ Link(2) # FailedSpine
         /\ FailedSpine = LinkAfterFailed(0)
<1>1. PICK U, x : U = numUplinks /\ x = linkID_
  OBVIOUS
<1>2. U \in Nat /\ U >= 2 /\ x \in 0 .. U - 1
  BY <1>1, UplinksAssumption DEF LinkAfterFailed
<1>3. /\ x + 1 < U => (x + 1) % U = x + 1
      /\ x + 1 = U => (x + 1) % U = 0
      /\ x + 2 < U => (x + 2) % U = x + 2
      /\ U <= x + 2 => (x + 2) % U = (x + 2) - U
  <2>1. PICK y, z : y = x + 1 /\ z = x + 2
    OBVIOUS
  <2>2. y \in Nat /\ z \in Nat /\ U \in Nat \ {0} /\ y < 2 * U
        /\ (z < 2 * U)
    BY <1>2, <2>1
  <2>3. (y < U => y % U = y) /\ (U <= y => y % U = y - U)
    BY <2>2, Remainder
  <2>4. (z < U => z % U = z) /\ (U <= z => z % U = z - U)
    BY <2>2, Remainder
  <2> QED BY <1>2, <2>1, <2>3, <2>4
<1>4. Link(1) = (x + 1) % U /\ Link(2) = (x + 2) % U
  BY <1>1 DEF Link
<1>5. CASE FailedSpine = 0
  BY <1>1, <1>2, <1>3, <1>4, <1>5 DEF LinkAfterFailed
<1>6. CASE FailedSpine = U - 1 /\ FailedSpine # 0
  BY <1>1, <1>2, <1>3, <1>4, <1>6 DEF LinkAfterFailed
<1> QED BY <1>1, <1>5, <1>6

(* A number of whole rounds ends with a whole round.                         *)
LEMMA WholeRounds ==
  ASSUME NEW n \in Nat \ {0}, NEW q \in Nat, NEW r \in Nat, r <= n, r = 0 => q = 0,
         NEW a \in Nat \ {0}, n * a = n * q + r
  PROVE  r = n
<1>1. PICK d : d = a - q
  OBVIOUS
<1>2. d \in Int /\ n * d = r
  BY <1>1
<1>3. d > 0
  <2> SUFFICES ASSUME d <= 0 PROVE FALSE
    BY <1>2
  <2>1. n * d <= 0
    BY <1>2
  <2>2. r = 0 /\ q = 0
    BY <1>2, <2>1
  <2> QED BY <1>1, <2>2
<1>4. n * d >= n
  BY <1>2, <1>3
<1> QED BY <1>2, <1>4

(* A round robin over a single weak link takes the next link, and the failed *)
(* one only in its turn.                                                     *)
LEMMA SingleStep ==
  ASSUME PathInv, ShareInv, Aligned, SendWeightedSingle
  PROVE  /\ TypeOK /\ linkID_ \in Uplinks /\ CanSend /\ Sent /\ StartsFlowcell
         /\ Len(flow.failedLinks) = 1 /\ ~ (Len(flow.failedLinks) > 1)
         /\ FailedSpine \in Uplinks /\ DirectSpines = {FailedSpine}
         /\ rfactor \in Nat \ {0} /\ Shares
         /\ \E ratio \in Nat \ {0} : rfactor = (numUplinks - 1) * ratio
         /\ ndatapack_' = ndatapack_ + 1 /\ rfactor' = rfactor /\ FailedSpine' = FailedSpine
         /\ toggleWeakSpines_ = 0 /\ toggleWeakSpines_' = 0 /\ InTheMiddle' = InTheMiddle
         /\ sinceWeak' = IF linkID_' = FailedSpine THEN 0 ELSE sinceWeak + 1
         /\ ~ (Len(flow.failedLinks)' > 1)
         /\ Link(1) # FailedSpine => linkID_' = Link(1) /\ flowCellMod_' = flowCellMod_
         /\ Link(1) = FailedSpine /\ ~ AtTurn =>
              linkID_' = Link(2) /\ flowCellMod_' = flowCellMod_
         /\ Link(1) = FailedSpine /\ AtTurn =>
              linkID_' = Link(1) /\ flowCellMod_' = NextTurn(1)
<1>1. /\ TypeOK /\ linkID_ \in Uplinks /\ CanSend /\ Sent /\ StartsFlowcell
      /\ FromOrToFailedLeaf /\ Len(flow.failedLinks) = 1 /\ ~ (Len(flow.failedLinks) > 1)
      /\ FailedSpine \in Uplinks /\ DirectSpines = {FailedSpine}
      /\ flow.failedLinks[1].failureRatio # 100
  <2>1. Len(flow.failedLinks) = 1
    BY DEF SendWeightedSingle
  <2>2. ~ (Len(flow.failedLinks) > 1)
    BY <2>1
  <2> QED BY <2>1, <2>2, AlignedFacts DEF SendWeightedSingle, Aligned
<1>2. rfactor = Rfactor /\ Rfactor \in Nat \ {0}
  BY <1>1, AlignedFacts DEF PathInv, Prepared, CanSend
<1>3. \E ratio \in Nat \ {0} : rfactor = (numUplinks - 1) * ratio
  BY <1>1, <1>2, AlignedFacts
<1>4. Shares /\ toggleWeakSpines_ = 0
  BY <1>1 DEF ShareInv, Shares, CanSend
<1>5. toggleWeakSpines_' = toggleWeakSpines_
  BY DEF SendWeightedSingle, turns
<1>6. flow' = flow /\ detection' = detection
  BY <1>1 DEF Sent
<1>7. FailedSpine' = FailedSpine /\ InTheMiddle' = InTheMiddle
  BY <1>6, FlowStays
<1>8. /\ ndatapack_' = ndatapack_ + 1 /\ rfactor' = rfactor
      /\ sinceWeak' = IF linkID_' = FailedSpine THEN 0 ELSE sinceWeak + 1
  BY <1>1 DEF Sent, weighting
<1>9. /\ Link(1) # FailedSpine => linkID_' = Link(1) /\ flowCellMod_' = flowCellMod_
      /\ Link(1) = FailedSpine /\ ~ AtTurn =>
           linkID_' = Link(2) /\ flowCellMod_' = flowCellMod_
      /\ Link(1) = FailedSpine /\ AtTurn =>
           linkID_' = Link(1) /\ flowCellMod_' = NextTurn(1)
  BY <1>1 DEF SendWeightedSingle, turns
<1> QED BY <1>1, <1>2, <1>3, <1>4, <1>5, <1>6, <1>7, <1>8, <1>9

(* The turn of a single weak link that is the first or the last.             *)
LEMMA SingleShares ==
  ASSUME PathInv, ShareInv, Aligned, SendWeightedSingle, ~ InTheMiddle
  PROVE  ShareInv' /\ SharedExactly
<1>1. /\ TypeOK /\ linkID_ \in Uplinks /\ CanSend /\ Sent /\ StartsFlowcell
      /\ Len(flow.failedLinks) = 1 /\ ~ (Len(flow.failedLinks) > 1) /\ ~ InTheMiddle
      /\ FailedSpine \in {0, numUplinks - 1} /\ DirectSpines = {FailedSpine}
  BY SingleStep, AlignedFacts
<1>2. PICK s, R, n : s = sinceWeak /\ R = rfactor /\ n = numUplinks - 1
  OBVIOUS
<1>3. PICK ratio \in Nat \ {0} : R = n * ratio
  BY <1>2, SingleStep
<1>4. n \in Nat \ {0} /\ s \in Nat /\ R \in Nat \ {0}
  BY <1>1, <1>2, SingleStep, UplinksAssumption DEF TypeOK
<1>5. /\ ndatapack_' = ndatapack_ + 1 /\ rfactor' = R /\ FailedSpine' = FailedSpine
      /\ toggleWeakSpines_ = 0 /\ toggleWeakSpines_' = 0 /\ ~ InTheMiddle'
      /\ sinceWeak' = IF linkID_' = FailedSpine THEN 0 ELSE s + 1
      /\ ~ (Len(flow.failedLinks)' > 1)
  BY <1>1, <1>2, SingleStep
<1>6. /\ Link(1) # FailedSpine => linkID_' = Link(1) /\ flowCellMod_' = flowCellMod_
      /\ Link(1) = FailedSpine /\ ~ AtTurn => linkID_' = Link(2) /\ flowCellMod_' = flowCellMod_
      /\ Link(1) = FailedSpine /\ AtTurn => linkID_' = Link(1) /\ flowCellMod_' = NextTurn(1)
  BY SingleStep
<1>7. CASE StartsAtTurn
  <2>1. Counts(0, R)
    <3>1. PICK F : F = flowcellSizePkts_
      OBVIOUS
    <3>2. F \in Nat \ {0} /\ F * 0 = 0 /\ 0 <= F * 0 /\ F * 0 < 0 + F /\ R > 0
      BY <1>4, <3>1, SizesAssumption
    <3> QED BY <1>2, <1>7, <3>1, <3>2 DEF StartsAtTurn, Counts
  <2>2. AtTurn
    BY <1>1, <1>4, <1>7, <2>1, TurnComes DEF StartsAtTurn
  <2>3. Link(1) = FailedSpine
    <3>1. linkID_ = LinkAfterFailed(n) /\ n <= numUplinks - 1
      BY <1>2, <1>4, <1>7 DEF StartsAtTurn, LinkAfterFailed
    <3> QED BY <1>1, <1>2, <1>4, <3>1, RoundOfLinks
  <2>4. linkID_' = FailedSpine /\ flowCellMod_' = NextTurn(1)
    BY <1>6, <2>2, <2>3
  <2>5. PICK next : next = R + 1 + R
    OBVIOUS
  <2>6. next \in Nat /\ next > 0
    BY <1>4, <2>5
  <2>7. flowCellMod_' = flowcellSizePkts_ * next
    BY <1>1, <1>2, <1>4, <2>1, <2>4, <2>5, TurnsAreApart
  <2>8. Counts(0 + 1, next)'
    BY <1>1, <1>4, <1>5, <2>1, <2>6, <2>7, StartCounts
  <2>9. /\ 0 + 1 \in Nat /\ (0 + 1) + 2 * R = next + 0 /\ 0 <= 2 * R /\ 0 <= 0 + 1
        /\ 0 = n * 0 + 0 /\ 0 <= n
    BY <1>4, <2>5
  <2>10. FailedSpine = 0
    BY <1>7 DEF StartsAtTurn
  <2>11. SingleShare(0 + 1, next, 2, 0, 0)'
    BY <1>2, <1>5, <2>4, <2>8, <2>9, <2>10 DEF SingleShare, LinkAfterFailed
  <2>12. Shares'
    BY <1>5, <2>6, <2>9, <2>11 DEF Shares
  <2>13. SharedExactly
    BY <1>1, <1>7, <2>4 DEF SharedExactly, StartsAtTurn
  <2> QED BY <1>1, <2>12, <2>13, SentKeepsShare
<1>8. ASSUME NEW c \in Nat, NEW m \in Nat, NEW k \in Nat, NEW q \in Nat, NEW r \in Nat,
             SingleShare(c, m, k, q, r)
      PROVE  ShareInv' /\ SharedExactly
  <2>1. /\ Counts(c, m) /\ (k = 1 \/ (k = 2 /\ FailedSpine = 0))
        /\ c + k * R = m + s /\ s <= k * R /\ s <= c
        /\ s = n * q + r /\ r <= n /\ (r = 0 => q = 0)
        /\ linkID_ = LinkAfterFailed(r) /\ m > 0
    BY <1>2, <1>8 DEF SingleShare, Counts
  <2>2. k \in Nat \ {0} /\ k * R \in Nat /\ k * R >= R
    BY <1>4, <2>1
  <2>3. c <= m /\ (c = m <=> s = k * R)
    BY <1>4, <2>1, <2>2
  <2>4. s = k * R => r = n
    <3>1. PICK a : a = k * ratio
      OBVIOUS
    <3>2. a \in Nat \ {0}
      BY <2>2, <3>1, Product
    <3>3. k * R = n * a
      BY <1>3, <1>4, <2>2, <3>1
    <3> QED BY <1>4, <2>1, <3>2, <3>3, WholeRounds
  <2>5. /\ r < n => Link(1) = LinkAfterFailed(r + 1) /\ Link(1) # FailedSpine
        /\ r = n => /\ Link(1) = FailedSpine
                    /\ Link(2) = LinkAfterFailed(1) /\ Link(2) # FailedSpine
        /\ FailedSpine = LinkAfterFailed(0)
    BY <1>1, <1>2, <2>1, RoundOfLinks
  <2>6. ASSUME NEW next \in Nat, next > 0, flowCellMod_' = flowcellSizePkts_ * next
        PROVE  (ndatapack_ = 0 <=> c = 0) /\ Counts(c + 1, next)'
    BY <1>1, <1>5, <2>1, <2>6, StartCounts
  <2>7. \A x : LinkAfterFailed(x)' = LinkAfterFailed(x)
    BY <1>5 DEF LinkAfterFailed
  <2>8. ASSUME s # k * R, linkID_' # FailedSpine PROVE SharedExactly
    <3>1. sinceWeak < rfactor * (IF FailedSpine = 0 /\ Len(flow.failedLinks) = 1
                                 THEN 2 ELSE 1)
      <4>1. s < k * R
        BY <1>4, <2>1, <2>2, <2>8
      <4>2. CASE FailedSpine = 0
        <5>1. s < R * 2
          BY <1>4, <2>1, <4>1
        <5> QED BY <1>1, <1>2, <4>2, <5>1
      <4>3. CASE FailedSpine # 0
        <5>1. s < R * 1
          BY <1>4, <2>1, <4>1, <4>3
        <5> QED BY <1>2, <4>3, <5>1
      <4> QED BY <4>2, <4>3
    <3> QED BY <1>1, <1>5, <2>8, <3>1 DEF SharedExactly
  <2>9. CASE r < n
    <3>1. s # k * R
      BY <1>4, <2>1, <2>4, <2>9
    <3>2. linkID_' = LinkAfterFailed(r + 1) /\ linkID_' # FailedSpine
          /\ flowCellMod_' = flowcellSizePkts_ * m
      BY <1>6, <2>1, <2>5, <2>9 DEF Counts
    <3>3. Counts(c + 1, m)'
      BY <2>1, <2>6, <3>2
    <3>4. /\ c + 1 \in Nat /\ r + 1 \in Nat
          /\ (c + 1) + k * R = m + (s + 1) /\ s + 1 <= k * R /\ s + 1 <= c + 1
          /\ s + 1 = n * q + (r + 1) /\ r + 1 <= n /\ r + 1 # 0
      <4>1. n * q \in Nat
        BY <1>4, Product
      <4>2. PICK x, y : x = k * R /\ y = n * q
        OBVIOUS
      <4> QED BY <1>4, <2>1, <2>2, <2>9, <3>1, <4>1, <4>2
    <3>5. SingleShare(c + 1, m, k, q, r + 1)'
      BY <1>2, <1>5, <2>1, <2>7, <3>2, <3>3, <3>4 DEF SingleShare
    <3>6. Shares'
      BY <1>5, <3>4, <3>5 DEF Shares
    <3> QED BY <1>1, <2>8, <3>1, <3>2, <3>6, SentKeepsShare
  <2>10. CASE r = n /\ s # k * R
    <3>1. ~ AtTurn
      <4>1. c # 0 /\ c # m
        <5>1. n * q \in Nat
          BY <1>4, Product
        <5>2. s > 0
          BY <1>4, <2>1, <2>10, <5>1
        <5> QED BY <1>4, <2>1, <2>3, <2>10, <5>2
      <4>2. ndatapack_ = 0 <=> c = 0
        <5>1. PICK F, p : F = flowcellSizePkts_ /\ p = ndatapack_
          OBVIOUS
        <5>2. F \in Nat \ {0} /\ p \in Nat /\ p <= F * c /\ F * c < p + F /\ p % F = 0
          BY <1>1, <2>1, <5>1, SizesAssumption DEF TypeOK, Counts, StartsFlowcell
        <5>3. p = F * c
          BY <5>2, WholeFlowcells
        <5> QED BY <5>1, <5>2, <5>3, ProductIsMonotonic
      <4> QED BY <1>1, <2>1, <2>3, <4>1, <4>2, TurnComes
    <3>2. linkID_' = LinkAfterFailed(1) /\ linkID_' # FailedSpine
          /\ flowCellMod_' = flowcellSizePkts_ * m
      BY <1>6, <2>1, <2>5, <2>10, <3>1 DEF Counts
    <3>3. Counts(c + 1, m)'
      BY <2>1, <2>6, <3>2
    <3>4. /\ c + 1 \in Nat /\ q + 1 \in Nat
          /\ (c + 1) + k * R = m + (s + 1) /\ s + 1 <= k * R /\ s + 1 <= c + 1
          /\ s + 1 = n * (q + 1) + 1 /\ 1 <= n /\ 1 # 0
      <4>1. n * (q + 1) = n * q + n /\ n * q \in Nat
        BY <1>4, ProductIsMonotonic
      <4>2. PICK x, y, z : x = k * R /\ y = n * q /\ z = n * (q + 1)
        OBVIOUS
      <4> QED BY <1>4, <2>1, <2>2, <2>10, <4>1, <4>2
    <3>5. SingleShare(c + 1, m, k, q + 1, 1)'
      BY <1>2, <1>5, <2>1, <2>7, <3>2, <3>3, <3>4 DEF SingleShare
    <3>6. Shares'
      BY <1>5, <3>4, <3>5 DEF Shares
    <3> QED BY <1>1, <2>8, <2>10, <3>2, <3>6, SentKeepsShare
  <2>11. CASE r = n /\ s = k * R
    <3>1. AtTurn
      BY <1>1, <2>1, <2>3, <2>11, TurnComes
    <3>2. linkID_' = FailedSpine /\ flowCellMod_' = NextTurn(1)
      BY <1>6, <2>5, <2>11, <3>1
    <3>3. PICK next : next = m + 1 + R
      OBVIOUS
    <3>4. /\ next \in Nat /\ next > 0 /\ c + 1 \in Nat
          /\ (c + 1) + 1 * R = next + 0 /\ 0 <= 1 * R /\ 0 <= c + 1
          /\ 0 = n * 0 + 0 /\ 0 <= n
      BY <1>4, <2>3, <2>11, <3>3
    <3>5. flowCellMod_' = flowcellSizePkts_ * next
      BY <1>1, <1>2, <2>1, <3>2, <3>3, TurnsAreApart
    <3>6. Counts(c + 1, next)'
      BY <2>6, <3>4, <3>5
    <3>7. SingleShare(c + 1, next, 1, 0, 0)'
      BY <1>2, <1>5, <2>5, <2>7, <3>2, <3>4, <3>6 DEF SingleShare
    <3>8. Shares'
      BY <1>5, <3>4, <3>7 DEF Shares
    <3>9. SharedExactly
      <4>1. sinceWeak >= rfactor
        BY <1>2, <1>4, <2>2, <2>11
      <4> QED BY <1>1, <3>2, <4>1 DEF SharedExactly
    <3> QED BY <1>1, <3>8, <3>9, SentKeepsShare
  <2> QED BY <1>4, <2>1, <2>9, <2>10, <2>11
<1> QED BY <1>1, <1>7, <1>8, SingleStep DEF Shares

(* The links that it meets when the failed one is in the middle.             *)
LEMMA RoundInMiddle ==
  ASSUME FailedSpine \in Uplinks, FailedSpine \notin {0, numUplinks - 1},
         NEW e \in Nat, e <= numUplinks - 1, linkID_ = HealthyLink(e)
  PROVE  /\ e # FailedSpine =>
              /\ Link(1) # FailedSpine
              /\ Link(1) = HealthyLink(IF e = numUplinks - 1 THEN 1 ELSE e + 1)
         /\ e = FailedSpine =>
              /\ Link(1) = FailedSpine /\ Link(2) # FailedSpine
              /\ Link(2) = HealthyLink(e + 1) /\ e # 0 /\ e # numUplinks - 1
<1>1. PICK U, x, f : U = numUplinks /\ x = linkID_ /\ f = FailedSpine
  OBVIOUS
<1>2. /\ U \in Nat /\ U >= 2 /\ f \in Nat /\ f > 0 /\ f < U - 1 /\ e <= U - 1
      /\ x = IF e = 0 THEN U - 1 ELSE IF e <= f THEN e - 1 ELSE e
  BY <1>1, UplinksAssumption DEF Uplinks, HealthyLink
<1>3. /\ x + 1 < U => (x + 1) % U = x + 1
      /\ x + 1 = U => (x + 1) % U = 0
      /\ x + 2 < U => (x + 2) % U = x + 2
  <2>1. PICK y, z : y = x + 1 /\ z = x + 2
    OBVIOUS
  <2>2. y \in Nat /\ z \in Nat /\ U \in Nat \ {0} /\ y < 2 * U
    BY <1>2, <2>1
  <2>3. (y < U => y % U = y) /\ (U <= y => y % U = y - U) /\ (z < U => z % U = z)
    BY <2>2, Remainder
  <2> QED BY <1>2, <2>1, <2>2, <2>3
<1>4. /\ e # f => /\ (x + 1) % U # f
                  /\ (x + 1) % U = LET next == IF e = U - 1 THEN 1 ELSE e + 1
                                   IN IF next <= f THEN next - 1 ELSE next
      /\ e = f => /\ (x + 1) % U = f /\ (x + 2) % U = e + 1
                  /\ e # 0 /\ e # U - 1 /\ e + 1 # f
  BY <1>2, <1>3
<1>5. HealthyLink(e + 1) = IF e + 1 <= f THEN (e + 1) - 1 ELSE e + 1
  BY <1>1 DEF HealthyLink
<1>6. HealthyLink(1) = IF 1 <= f THEN 0 ELSE 1
  BY <1>1 DEF HealthyLink
<1>7. Link(1) = (x + 1) % U /\ Link(2) = (x + 2) % U
  BY <1>1 DEF Link
<1> QED BY <1>1, <1>2, <1>4, <1>5, <1>6, <1>7

(* The turn comes after whole rounds of the healthy links, and so never      *)
(* within one.                                                               *)
LEMMA NoTurnInRound ==
  ASSUME TypeOK, StartsFlowcell, NEW n \in Nat \ {0}, NEW ratio \in Nat \ {0},
         rfactor = n * ratio, NEW c \in Nat, Counts(c, rfactor),
         NEW q \in Nat, NEW e \in Nat, c = n * q + e, e > 0, e < n
  PROVE  ~ AtTurn
<1> SUFFICES ASSUME AtTurn PROVE FALSE
  OBVIOUS
<1>1. PICK F, p, t, R : F = flowcellSizePkts_ /\ p = ndatapack_ /\ t = flowCellMod_ /\ R = rfactor
  OBVIOUS
<1>2. /\ F \in Nat \ {0} /\ p \in Nat /\ p <= F * c /\ F * c < p + F /\ p % F = 0
      /\ R \in Nat \ {0} /\ R = n * ratio /\ t = F * R /\ p % t = 0
  BY <1>1, SizesAssumption DEF TypeOK, Counts, StartsFlowcell, AtTurn
<1>3. p = F * c
  <2>1. F \in Nat \ {0} /\ p \in Nat /\ p <= F * c /\ F * c < p + F /\ p % F = 0
    BY <1>2
  <2> QED BY <2>1, WholeFlowcells
<1>4. t \in Nat \ {0}
  <2>1. F \in Nat /\ F > 0 /\ R \in Nat /\ R > 0 /\ t = F * R
    BY <1>2
  <2> QED BY <2>1, Product
<1>5. PICK d : d = p \div t
  OBVIOUS
<1>6. d \in Nat /\ p = t * d
  <2>1. p \in Nat /\ p % t = 0
    BY <1>2
  <2>2. p = t * d + (p % t) /\ d \in Int
    BY <1>4, <1>5, <2>1
  <2>3. p = t * d
    BY <1>4, <2>1, <2>2
  <2>4. d >= 0
    BY <1>4, <2>1, <2>2, <2>3
  <2> QED BY <2>2, <2>3, <2>4
<1>7. PICK a, b : a = ratio * d /\ b = R * d
  OBVIOUS
<1>8. a \in Nat /\ b \in Nat
  BY <1>2, <1>6, <1>7
<1>9. b = n * a
  BY <1>2, <1>6, <1>7
<1>10. F * b = F * c
  BY <1>2, <1>3, <1>6, <1>7
<1>11. b = c
  <2>1. ~ (b < c) /\ ~ (c < b)
    <3>1. F * b \in Nat /\ F * c \in Nat /\ ~ (F * b < F * c) /\ ~ (F * c < F * b)
      BY <1>2, <1>8, <1>10
    <3> QED BY <1>2, <1>8, <3>1, ProductIsMonotonic
  <2> QED BY <1>8, <2>1
<1>12. a # 0
  <2>1. n * q \in Nat
    BY Product
  <2>2. c > 0
    BY <2>1
  <2> QED BY <1>9, <1>11, <2>2
<1>13. n * a = n * q + e
  BY <1>9, <1>11
<1> QED BY <1>8, <1>12, <1>13, WholeRounds

(* A weak link in the middle has no turn.                                    *)
LEMMA MiddleShares ==
  ASSUME PathInv, ShareInv, Aligned, SendWeightedSingle, InTheMiddle
  PROVE  ShareInv' /\ SharedExactly
<1>1. /\ TypeOK /\ CanSend /\ Sent /\ StartsFlowcell
      /\ ~ (Len(flow.failedLinks) > 1) /\ ~ (Len(flow.failedLinks)' > 1)
      /\ FailedSpine \in Uplinks /\ FailedSpine \notin {0, numUplinks - 1}
      /\ DirectSpines = {FailedSpine} /\ FailedSpine' = FailedSpine /\ InTheMiddle'
      /\ ndatapack_' = ndatapack_ + 1 /\ rfactor' = rfactor /\ rfactor \in Nat \ {0}
      /\ toggleWeakSpines_ = 0 /\ toggleWeakSpines_' = 0
  BY SingleStep, AlignedFacts
<1>2. PICK n : n = numUplinks - 1
  OBVIOUS
<1>3. n \in Nat \ {0}
  BY <1>2, UplinksAssumption
<1>4. PICK ratio \in Nat \ {0} : rfactor = n * ratio
  BY <1>2, SingleStep
<1>5. PICK c \in Nat, q \in Nat, e \in Nat : MiddleShare(c, q, e)
  BY <1>1, SingleStep DEF Shares
<1>6. /\ Counts(c, rfactor) /\ c = n * q + e /\ e <= n
      /\ linkID_ = HealthyLink(e) /\ flowCellMod_ = flowcellSizePkts_ * rfactor
  BY <1>2, <1>5 DEF MiddleShare, Counts
<1>7. \A x : HealthyLink(x)' = HealthyLink(x)
  BY <1>1 DEF HealthyLink
<1>8. /\ linkID_' # FailedSpine /\ flowCellMod_' = flowCellMod_
      /\ linkID_' = HealthyLink(IF e = n THEN 1 ELSE e + 1)
  <2>1. CASE e # FailedSpine
    <3>1. Link(1) # FailedSpine /\ Link(1) = HealthyLink(IF e = n THEN 1 ELSE e + 1)
      BY <1>1, <1>2, <1>6, <2>1, RoundInMiddle
    <3> QED BY <3>1, SingleStep
  <2>2. CASE e = FailedSpine
    <3>1. /\ Link(1) = FailedSpine /\ Link(2) # FailedSpine /\ Link(2) = HealthyLink(e + 1)
          /\ e # 0 /\ e # n
      BY <1>1, <1>2, <1>6, <2>2, RoundInMiddle
    <3>2. e > 0 /\ e < n
      BY <1>3, <1>6, <3>1
    <3>3. ~ AtTurn
      BY <1>1, <1>3, <1>4, <1>6, <3>2, NoTurnInRound
    <3> QED BY <3>1, <3>3, SingleStep
  <2> QED BY <2>1, <2>2
<1>9. Counts(c + 1, rfactor)'
  <2>1. rfactor \in Nat /\ rfactor > 0 /\ flowCellMod_' = flowcellSizePkts_ * rfactor
    BY <1>1, <1>6, <1>8
  <2>2. \A next : next = rfactor => (Counts(c + 1, next)' => Counts(c + 1, rfactor)')
    BY <1>1 DEF Counts
  <2> QED BY <1>1, <1>6, <2>1, <2>2, StartCounts
<1>10. \E q2, e2 \in Nat : /\ c + 1 = n * q2 + e2 /\ e2 <= n
                           /\ linkID_' = HealthyLink(e2)
  <2>1. PICK x : x = n * q
    OBVIOUS
  <2>2. x \in Nat /\ n * (q + 1) = x + n
    BY <1>3, <2>1, ProductIsMonotonic
  <2>3. CASE e = n
    <3>1. q + 1 \in Nat /\ 1 \in Nat /\ c + 1 = n * (q + 1) + 1 /\ 1 <= n
      BY <1>3, <1>6, <2>1, <2>2, <2>3
    <3> QED BY <1>8, <2>3, <3>1
  <2>4. CASE e # n
    <3>1. e + 1 \in Nat /\ c + 1 = n * q + (e + 1) /\ e + 1 <= n
      BY <1>3, <1>6, <2>1, <2>2, <2>4
    <3> QED BY <1>8, <2>4, <3>1
  <2> QED BY <2>3, <2>4
<1>11. Shares'
  <2>1. PICK q2 \in Nat, e2 \in Nat : /\ c + 1 = n * q2 + e2 /\ e2 <= n
                                      /\ linkID_' = HealthyLink(e2)
    BY <1>10
  <2>2. MiddleShare(c + 1, q2, e2)'
    BY <1>2, <1>7, <1>9, <2>1 DEF MiddleShare
  <2>3. c + 1 \in Nat
    OBVIOUS
  <2> QED BY <1>1, <2>2, <2>3 DEF Shares
<1>12. SharedExactly
  BY <1>1, <1>8 DEF SharedExactly
<1> QED BY <1>1, <1>11, <1>12, SentKeepsShare

(* The other packets of a flowcell.                                          *)
LEMMA RestShares ==
  ASSUME PathInv, ShareInv, Aligned, SendWeightedRest
  PROVE  ShareInv'
<1>1. /\ TypeOK /\ CanSend /\ Sent /\ ~ StartsFlowcell
      /\ ndatapack_' = ndatapack_ + 1 /\ flowCellMod_' = flowCellMod_
      /\ linkID_' = linkID_ /\ toggleWeakSpines_' = toggleWeakSpines_
      /\ sinceWeak' = sinceWeak /\ rfactor' = rfactor /\ flow' = flow
      /\ detection' = detection
  BY DEF PathInv, SendWeightedRest, Sent, turns, weighting
<1>2. /\ numDirectPartialFailurePaths' = numDirectPartialFailurePaths
      /\ FailedSpine' = FailedSpine /\ InTheMiddle' = InTheMiddle
  BY <1>1, FlowStays
<1>3. Shares
  BY <1>1 DEF ShareInv, CanSend
<1>4. CASE Len(flow.failedLinks) > 1
  <2>1. PICK c \in Nat, m \in Nat : SeveralShare(c, m)
    BY <1>3, <1>4 DEF Shares
  <2>2. Counts(c, m)'
    BY <1>1, <2>1, RestCounts DEF SeveralShare
  <2>3. SeveralShare(c, m)'
    BY <1>1, <1>2, <2>1, <2>2 DEF SeveralShare
  <2>4. Shares'
    BY <1>1, <1>4, <2>3 DEF Shares
  <2> QED BY <1>1, <2>4, SentKeepsShare
<1>5. CASE ~ (Len(flow.failedLinks) > 1) /\ InTheMiddle
  <2>1. PICK c \in Nat, q \in Nat, e \in Nat : MiddleShare(c, q, e)
    BY <1>3, <1>5 DEF Shares
  <2>2. Counts(c, rfactor)'
    <3>1. PICK m : m = rfactor
      OBVIOUS
    <3>2. m \in Nat /\ Counts(c, m)
      BY <1>1, <2>1, <3>1 DEF MiddleShare, TypeOK
    <3>3. Counts(c, m)'
      BY <1>1, <3>2, RestCounts
    <3> QED BY <1>1, <3>1, <3>3 DEF Counts
  <2>3. MiddleShare(c, q, e)'
    BY <1>1, <1>2, <2>1, <2>2 DEF MiddleShare, HealthyLink
  <2>4. Shares'
    BY <1>1, <1>2, <1>3, <1>5, <2>3 DEF Shares
  <2> QED BY <1>1, <2>4, SentKeepsShare
<1>6. CASE ~ (Len(flow.failedLinks) > 1) /\ ~ InTheMiddle
  <2>1. ~ StartsAtTurn
    <3>1. 0 % flowcellSizePkts_ = 0
      BY SizesAssumption
    <3> QED BY <1>1, <3>1 DEF StartsAtTurn, StartsFlowcell
  <2>2. PICK c \in Nat, m \in Nat, k \in Nat, q \in Nat, r \in Nat : SingleShare(c, m, k, q, r)
    BY <1>3, <1>6, <2>1 DEF Shares
  <2>3. Counts(c, m)'
    BY <1>1, <2>2, RestCounts DEF SingleShare
  <2>4. SingleShare(c, m, k, q, r)'
    BY <1>1, <1>2, <2>2, <2>3 DEF SingleShare, LinkAfterFailed
  <2>5. Shares'
    BY <1>1, <1>2, <1>3, <1>6, <2>4 DEF Shares
  <2> QED BY <1>1, <2>5, SentKeepsShare
<1> QED BY <1>4, <1>5, <1>6

(* The first packet leaves rfactor flowcells before the turn.                *)
LEMMA FirstShares ==
  ASSUME PathInv, ShareInv, FirstPacket
  PROVE  ShareInv'
<1>1. /\ flow' = flow /\ detection' = detection /\ pc' = "send" /\ linkID_' = FirstLink
      /\ rfactor' = Rfactor /\ flowCellMod_' = flowcellSizePkts_ * rfactor'
      /\ ndatapack_' = 0 /\ toggleWeakSpines_' = 0 /\ sinceWeak' = 0
  BY DEF FirstPacket, ShareInv
<1>2. SUFFICES ASSUME Aligned PROVE Shares'
  BY <1>1, FlowStays DEF ShareInv
<1>3. FailedSpine' = FailedSpine /\ InTheMiddle' = InTheMiddle
  BY <1>1, FlowStays
<1>4. PICK R, n : R = Rfactor /\ n = numUplinks - 1
  OBVIOUS
<1>5. R \in Nat \ {0} /\ n \in Nat /\ linkID_' = n
  BY <1>1, <1>2, <1>4, AlignedFacts, UplinksAssumption
<1>6. Counts(0, R)'
  <2>1. PICK F : F = flowcellSizePkts_
    OBVIOUS
  <2>2. F \in Nat \ {0} /\ F * 0 = 0 /\ 0 <= F * 0 /\ F * 0 < 0 + F /\ R > 0
    BY <1>5, <2>1, SizesAssumption
  <2> QED BY <1>1, <1>4, <2>1, <2>2 DEF Counts
<1>7. /\ 0 + R = R + 0 /\ 0 <= R /\ 0 + 1 * R = R + 0 /\ 0 <= 1 * R /\ 0 <= 0
      /\ 0 = n * 0 + 0 /\ 0 <= n
  BY <1>5
<1>8. CASE Len(flow.failedLinks) > 1
  <2>1. SeveralShare(0, R)'
    BY <1>1, <1>4, <1>6, <1>7 DEF SeveralShare
  <2> QED BY <1>1, <1>5, <1>8, <2>1 DEF Shares
<1>9. CASE ~ (Len(flow.failedLinks) > 1) /\ InTheMiddle
  <2>1. MiddleShare(0, 0, 0)'
    BY <1>1, <1>4, <1>5, <1>6, <1>7 DEF MiddleShare, HealthyLink
  <2> QED BY <1>1, <1>3, <1>5, <1>9, <2>1 DEF Shares
<1>10. CASE ~ (Len(flow.failedLinks) > 1) /\ ~ InTheMiddle /\ FailedSpine = 0
  <2>1. StartsAtTurn'
    BY <1>1, <1>3, <1>4, <1>5, <1>10 DEF StartsAtTurn
  <2> QED BY <1>1, <1>3, <1>10, <2>1 DEF Shares
<1>11. CASE ~ (Len(flow.failedLinks) > 1) /\ ~ InTheMiddle /\ FailedSpine # 0
  <2>1. SingleShare(0, R, 1, 0, 0)'
    BY <1>1, <1>3, <1>4, <1>5, <1>6, <1>7, <1>11 DEF SingleShare, LinkAfterFailed
  <2> QED BY <1>1, <1>3, <1>5, <1>11, <2>1 DEF Shares
<1> QED BY <1>8, <1>9, <1>10, <1>11

(* No other packet is one of such a flow.                                    *)
LEMMA AlignedSends ==
  ASSUME PathInv, ShareInv, Aligned, pc = "send"
  PROVE  /\ ~ SendUnaware /\ ~ SendPoor /\ ~ SendSelective /\ ~ SendWeightedNone
         /\ ~ SendWeightedFar /\ ~ SendWeightedFull /\ ~ SendStatic /\ ~ SendProbabilistic
<1>1. /\ KnowsFailure /\ flow.realisticFailure_ /\ flow.roundRobin_ /\ flow.failureCase_ = 1
      /\ ~ flow.selectiveSpraying_
  BY DEF Aligned, Weighted
<1>2. flow.failureCase_ # 2
  BY <1>1
<1>3. ASSUME Len(flow.failedLinks) > 1 PROVE flowCellMod_ # 0 /\ numDirectFailures_ # 0
  <2>1. PICK c \in Nat, m \in Nat : SeveralShare(c, m)
    BY <1>3 DEF ShareInv, Shares
  <2>2. flowCellMod_ # 0
    BY <2>1, SizesAssumption, ProductIsMonotonic DEF SeveralShare, Counts
  <2>3. PICK d : d = numDirectFailures_
    OBVIOUS
  <2>4. d > 0
    BY <1>3, <2>3, AlignedFacts
  <2>5. d # 0
    BY <2>4
  <2> QED BY <2>2, <2>3, <2>5
<1> QED BY <1>1, <1>2, <1>3
  DEF SendUnaware, SendPoor, SendSelective, Selective, SendWeightedNone, SendWeightedFar,
      SeveralFailures, SendWeightedFull, SendStatic, Static, SendProbabilistic

(* The other packets keep the flow, and the clock does not go back.          *)
LEMMA OtherSteps ==
  ASSUME PathInv, ShareInv, ~ Aligned \/ pc # "send",
         \/ SendUnaware \/ SendPoor \/ SendSelective \/ SendWeightedRest
         \/ SendWeightedSeveral \/ SendWeightedNone \/ SendWeightedFar \/ SendWeightedSingle
         \/ SendWeightedFull \/ SendStatic \/ SendProbabilistic
  PROVE  ShareInv'
<1>1. CanSend /\ (Sent \/ Crash)
  BY DEF SendUnaware, SendPoor, SendSelective, SendWeightedRest, SendWeightedSeveral,
         SendWeightedNone, SendWeightedFar, SendWeightedSingle, SendWeightedFull, SendStatic,
         SendProbabilistic
<1>2. flow' = flow /\ detection' = detection /\ pc' # "first" /\ ~ Aligned
  BY <1>1 DEF Sent, Crash, CanSend
<1> QED BY <1>2, OtherFlows

LEMMA DetectShares ==
  ASSUME PathInv, ShareInv, Detect
  PROVE  ShareInv'
<1>1. UNCHANGED <<pc, flow, linkID_, ndatapack_, flowCellMod_, toggleWeakSpines_, sinceWeak>>
  BY DEF Detect, turns
<1>2. ~ Aligned'
  <2>1. flow.startsDetected => detection' = "over"
    BY DEF Detect, ShareInv
  <2> QED BY <1>1, <2>1 DEF Aligned, Weighted, KnowsFailure, Detect
<1>3. detection' # "before"
  BY DEF Detect
<1> QED BY <1>1, <1>2, <1>3 DEF ShareInv

LEMMA ShareStays ==
  ASSUME ShareInv, UNCHANGED vars
  PROVE  ShareInv'
<1>1. UNCHANGED <<pc, flow, linkID_, ndatapack_, flowCellMod_, toggleWeakSpines_, sinceWeak,
                  rfactor, detection>>
  BY DEF vars, turns, weighting
<1>2. /\ numDirectPartialFailurePaths' = numDirectPartialFailurePaths
      /\ FailedSpine' = FailedSpine /\ Aligned' = Aligned /\ InTheMiddle' = InTheMiddle
  BY <1>1, FlowStays
<1>3. ASSUME Shares PROVE Shares'
  <2>1. \A c, m : SeveralShare(c, m)' = SeveralShare(c, m)
    BY <1>1, <1>2 DEF SeveralShare, Counts
  <2>2. \A c, m, k, q, r : SingleShare(c, m, k, q, r)' = SingleShare(c, m, k, q, r)
    BY <1>1, <1>2 DEF SingleShare, Counts, LinkAfterFailed
  <2>3. StartsAtTurn' = StartsAtTurn
    BY <1>1, <1>2 DEF StartsAtTurn
  <2>4. \A c, q, e : MiddleShare(c, q, e)' = MiddleShare(c, q, e)
    BY <1>1, <1>2 DEF MiddleShare, Counts, HealthyLink
  <2> QED BY <1>1, <1>2, <1>3, <2>1, <2>2, <2>3, <2>4 DEF Shares
<1> QED BY <1>1, <1>2, <1>3 DEF ShareInv

(* Every step keeps the counts, and shares as they say.                      *)
LEMMA StepShares ==
  PathInv /\ ShareInv /\ [Next]_vars =>
    /\ ShareInv'
    /\ [NewFlowcell /\ Aligned =>
          IF linkID_' \in DirectSpines
          THEN /\ ~ InTheMiddle
               /\ ndatapack_ = 0 \/ toggleWeakSpines_ > 0 \/ sinceWeak >= rfactor
          ELSE /\ toggleWeakSpines_ = 0
               /\ \/ InTheMiddle
                  \/ sinceWeak < rfactor * (IF FailedSpine = 0 /\ Len(flow.failedLinks) = 1
                                            THEN 2 ELSE 1)]_vars
<1> SUFFICES ASSUME PathInv, ShareInv, [Next]_vars
             PROVE  ShareInv' /\ (Next /\ NewFlowcell /\ Aligned => SharedExactly)
  BY DEF SharedExactly
<1>1. CASE UNCHANGED vars
  <2>1. ~ NewFlowcell
    <3>1. ndatapack_ \in Nat /\ ndatapack_' = ndatapack_
      BY <1>1 DEF PathInv, TypeOK, vars
    <3>2. ndatapack_' # ndatapack_ + 1
      BY <3>1
    <3> QED BY <3>2 DEF NewFlowcell
  <2> QED BY <1>1, <2>1, ShareStays
<1>2. CASE FirstPacket \/ Detect
  <2>1. ~ NewFlowcell
    <3>1. ndatapack_ \in Nat /\ ndatapack_' = ndatapack_
      BY <1>2 DEF PathInv, TypeOK, FirstPacket, Detect
    <3>2. ndatapack_' # ndatapack_ + 1
      BY <3>1
    <3> QED BY <3>2 DEF NewFlowcell
  <2> QED BY <1>2, <2>1, FirstShares, DetectShares
<1>3. CASE /\ \/ SendUnaware \/ SendPoor \/ SendSelective \/ SendWeightedRest
              \/ SendWeightedSeveral \/ SendWeightedNone \/ SendWeightedFar
              \/ SendWeightedSingle \/ SendWeightedFull \/ SendStatic \/ SendProbabilistic
           /\ ~ Aligned
  BY <1>3, OtherSteps
<1>4. CASE /\ \/ SendUnaware \/ SendPoor \/ SendSelective \/ SendWeightedRest
              \/ SendWeightedSeveral \/ SendWeightedNone \/ SendWeightedFar
              \/ SendWeightedSingle \/ SendWeightedFull \/ SendStatic \/ SendProbabilistic
           /\ Aligned
  <2>1. pc = "send"
    BY <1>4 DEF SendUnaware, SendPoor, SendSelective, SendWeightedRest, SendWeightedSeveral,
                SendWeightedNone, SendWeightedFar, SendWeightedSingle, SendWeightedFull,
                SendStatic, SendProbabilistic, CanSend
  <2>2. SendWeightedRest \/ SendWeightedSeveral \/ SendWeightedSingle
    BY <1>4, <2>1, AlignedSends
  <2>3. SendWeightedRest => ~ NewFlowcell
    BY DEF SendWeightedRest, NewFlowcell
  <2> QED BY <1>4, <2>2, <2>3, RestShares, SeveralShares, SingleShares, MiddleShares
<1> QED BY <1>1, <1>2, <1>3, <1>4 DEF Next

LEMMA InitShares == Init => ShareInv
BY DEF Init, ShareInv

(* For every number of uplinks, size of a flowcell and ratio, and every flow *)
(* of WFCS or WPS of which Aligned holds: it knew of the failure of links    *)
(* before it started, some failure of its leaves is partial, none is hidden  *)
(* by one of the same spine listed before it, and with several failures some *)
(* uplink is healthy.  The turn of its weak links comes after rfactor        *)
(* flowcells on healthy ones, never before and never later, but for the      *)
(* first flowcell and the first turn of a flow that starts before the failed *)
(* link; and a single weak link that is neither the first nor the last never *)
(* has its turn (flowCellMod_ and toggleWeakSpines_ in TcpAgent::output).    *)
THEOREM WeakSharesAreExact == Spec => WeakShareIsExact
<1>1. Init => ShareInv
  BY InitShares
<1>2. PathInv /\ ShareInv /\ [Next]_vars =>
        /\ ShareInv'
        /\ [NewFlowcell /\ Aligned =>
              IF linkID_' \in DirectSpines
              THEN /\ ~ InTheMiddle
                   /\ ndatapack_ = 0 \/ toggleWeakSpines_ > 0 \/ sinceWeak >= rfactor
              ELSE /\ toggleWeakSpines_ = 0
                   /\ \/ InTheMiddle
                      \/ sinceWeak < rfactor * (IF FailedSpine = 0 /\ Len(flow.failedLinks) = 1
                                                THEN 2 ELSE 1)]_vars
  BY StepShares
<1> QED BY <1>1, <1>2, PathInvariant, PTL DEF Spec, WeakShareIsExact
=============================================================================
