---------------------------- MODULE Sack1TcpProofs ----------------------------
(***************************************************************************)
(* Proofs about the sender of module Sack1Tcp before any sink and any      *)
(* network that tell it the truth.  SendMuchLeaves and SentNothing say     *)
(* what the sending at the end of a handler leaves; each branch of recv is *)
(* a lemma that gives Rebuild what it needs to restore the invariant       *)
(* SenderInv.  Modules TransferProofs, ConnectionProofs and                *)
(* BottleneckProofs use RecvPreserves and the lemmas on the other          *)
(* handlers.                                                               *)
(***************************************************************************)
EXTENDS Sack1Tcp, FiniteSetTheorems, WellFoundedInduction, TLAPS

(* The largest number of a set that has one.                               *)
LEMMA MaxIs ==
  ASSUME NEW S \in SUBSET Int, NEW m \in S, \A x \in S : x <= m
  PROVE  Max(S) = m
<1>1. \A y \in S : m >= y
  OBVIOUS
<1>2. Max(S) \in S /\ \A y \in S : Max(S) >= y
  BY <1>1 DEF Max
<1>3. Max(S) \in Int /\ m \in Int
  BY <1>2
<1> QED BY <1>2, <1>3

(* What output does for segments below those sent and an interval above.   *)
LEMMA Outputting ==
  ASSUME NEW a \in Int, NEW b \in Int, NEW resent \in SUBSET (0 .. maxseq_),
         NEW fresh, fresh = a .. b, maxseq_ \in Nat, a >= 0, a <= maxseq_ + 1,
         BagToSet(data) \subseteq 0 .. maxseq_,
         Output(resent, fresh, TRUE)
  PROVE  /\ maxseq_' = AtLeast(maxseq_, b)
         /\ rtx_timer_' = TRUE
         /\ BagToSet(data') = BagToSet(data) \union resent \union (a .. b)
         /\ BagToSet(data') \subseteq 0 .. maxseq_'
<1> DEFINE S == {maxseq_} \union resent \union fresh
           m == AtLeast(maxseq_, b)
<1>1. maxseq_' = Max(S) /\ rtx_timer_' = TRUE
  BY DEF Output
<1>2. m \in S /\ S \in SUBSET Int /\ \A x \in S : x <= m
  BY DEF AtLeast
<1>3. Max(S) = m
  BY <1>2, MaxIs
<1>4. BagToSet(data') = BagToSet(data) \union resent \union fresh
  BY DEF Output, BagToSet, SetToBag, (+)
<1>5. BagToSet(data') \subseteq 0 .. maxseq_'
  <2>1. maxseq_' >= maxseq_ /\ maxseq_' >= b /\ maxseq_' \in Int
    BY <1>1, <1>3 DEF AtLeast
  <2>2. \A s \in BagToSet(data') : s \in 0 .. maxseq_ \/ s \in a .. b
    BY <1>4
  <2> QED BY <2>1, <2>2
<1> QED BY <1>1, <1>3, <1>4, <1>5

(* A set of natural numbers that is bounded has a greatest one.            *)
LEMMA GreatestSegment ==
  ASSUME NEW S, NEW k \in Int, S \subseteq 0 .. k, S # {}
  PROVE  Max(S) \in S /\ \A y \in S : Max(S) >= y
<1> DEFINE T == {i \in 0 .. k : k - i \in S}
<1>1. T \subseteq Nat
  OBVIOUS
<1>2. PICK x \in S : TRUE
  OBVIOUS
<1>3. k - x \in T
  <2>1. x \in 0 .. k /\ k - (k - x) = x
    OBVIOUS
  <2> QED BY <2>1
<1>4. PICK m \in T : \A y \in T : ~ (<<y, m>> \in OpToRel(<, Nat))
  BY <1>1, <1>3, NatLessThanWellFounded, WFMin
<1>5. \A y \in T : <<y, m>> \in Nat \X Nat
  BY <1>1
<1>6. \A y \in T : ~ (y < m)
  BY <1>4, <1>5 DEF OpToRel
<1>7. k - m \in S /\ m \in 0 .. k
  BY <1>4
<1>8. ASSUME NEW y \in S PROVE k - m >= y
  <2>1. y \in 0 .. k /\ k - (k - y) = y
    OBVIOUS
  <2>2. k - y \in T
    BY <2>1
  <2>3. ~ (k - y < m)
    BY <1>6, <2>2
  <2> QED BY <1>7, <2>1, <2>3
<1> HIDE DEF T
<1> QED BY <1>7, <1>8 DEF Max

(* Where send_much goes on after the holes it sends again.                 *)
FirstAfter(t, resent) == IF resent = {} THEN t ELSE AtLeast(t, Max(resent) + 1)

LEMMA FirstAfterIs ==
  ASSUME NEW t \in Int, NEW m \in Int, NEW resent, resent \subseteq 0 .. m
  PROVE  /\ FirstAfter(t, resent) \in Int /\ FirstAfter(t, resent) >= t
         /\ FirstAfter(t, resent) <= AtLeast(t, m + 1)
         /\ resent = {} => FirstAfter(t, resent) = t
<1>1. CASE resent = {}
  BY <1>1 DEF FirstAfter, AtLeast
<1>2. CASE resent # {}
  <2>1. Max(resent) \in resent
    BY <1>2, GreatestSegment
  <2>2. PICK x : x = Max(resent) /\ x \in 0 .. m
    BY <2>1
  <2> QED BY <1>2, <2>2 DEF FirstAfter, AtLeast
<1> QED BY <1>1, <1>2

(* What send_much leaves, whichever handler calls it.                      *)
LEMMA SendMuchLeaves ==
  ASSUME NEW t \in Int, NEW pipe \in Int, NEW marked,
         maxseq_ \in Nat, BagToSet(data) \subseteq 0 .. maxseq_, wnd_ \in Nat,
         curseq_ \in Int, maxseq_ < curseq_,
         NEW last \in -1 .. maxseq_, last_ack_' = last,
         NEW high \in last .. maxseq_, highest_ack_' = high,
         NEW cwnd \in Nat, cwnd_' = cwnd, fastrecov_' \in BOOLEAN,
         t >= last + 1, t <= maxseq_ + 1, marked \subseteq 0 .. maxseq_,
         SendMuch(t, pipe, marked, TRUE)
  PROVE  \E m \in maxseq_ .. curseq_ - 1, s \in Int :
           /\ maxseq_' = m /\ t_seqno_' = s
           /\ t <= s /\ s <= m + 1
           /\ s <= m => m = maxseq_
           /\ ~ fastrecov_' => m <= AtLeast(maxseq_, last + cwnd) /\ retran' = marked
           /\ rtx_timer_' = TRUE
           /\ pipe_' \in Int
           /\ retran' \subseteq 0 .. maxseq_
           /\ BagToSet(data') \subseteq 0 .. m
<1> DEFINE room   == cwnd - pipe
           holes  == IF fastrecov_' THEN Holes(marked) ELSE {}
           resent == IF recover_' > 0 THEN FirstOf(room, holes) ELSE {}
           first  == FirstAfter(t, resent)
           bound  == IF fastrecov_'
                     THEN AtMost(high + wnd_, first + room - Cardinality(resent) - 1)
                     ELSE last + window(cwnd)
           top    == IF resent = holes THEN AtMost(bound, curseq_ - 1) ELSE first - 1
           fresh  == IF resent = holes THEN first .. AtMost(bound, curseq_ - 1) ELSE {}
<1>1. holes \subseteq 0 .. maxseq_ /\ (~ fastrecov_' => holes = {})
  BY DEF Holes
<1>2. resent \subseteq holes
  BY DEF FirstOf
<1>3. resent \subseteq 0 .. maxseq_ /\ IsFiniteSet(resent) /\ Cardinality(resent) \in Nat
  <2>1. resent \subseteq 0 .. maxseq_  BY <1>1, <1>2
  <2>2. IsFiniteSet(0 .. maxseq_)  BY FS_Interval
  <2> QED BY <2>1, <2>2, FS_Subset, FS_CardinalityType
<1>0. first \in Int /\ first >= t /\ first <= maxseq_ + 1
  <2>1. first <= AtLeast(t, maxseq_ + 1) /\ first \in Int /\ first >= t
    BY <1>3, FirstAfterIs
  <2> QED BY <2>1 DEF AtLeast
<1> HIDE DEF first
<1>4. bound \in Int /\ top \in Int /\ fresh = first .. top /\ top <= curseq_ - 1
  <2>1. bound \in Int  BY <1>0, <1>3 DEF AtMost, window
  <2>2. CASE resent = holes  BY <2>1, <2>2 DEF AtMost
  <2>3. CASE resent # holes
    <3>1. fresh = {} /\ top = first - 1  BY <2>3
    <3>2. first .. (first - 1) = {}  BY <1>0
    <3> QED BY <1>0, <3>1, <3>2, <2>1
  <2> QED BY <2>2, <2>3
<1>5. Cardinality(fresh) = IF first > top THEN 0 ELSE top - first + 1
  BY <1>0, <1>4, FS_Interval
<1>6. /\ Output(resent, fresh, TRUE)
      /\ t_seqno_' = first + Cardinality(fresh)
      /\ pipe_' = IF fastrecov_' THEN pipe + Cardinality(resent) + Cardinality(fresh) ELSE 0
      /\ retran' = marked \union resent
  BY DEF SendMuch, first, FirstAfter
<1> HIDE DEF room, holes, resent, bound, top, fresh
<1>7. /\ maxseq_' = AtLeast(maxseq_, top)
      /\ rtx_timer_' = TRUE
      /\ BagToSet(data') \subseteq 0 .. maxseq_'
  <2>1. Output(resent, fresh, TRUE)  BY <1>4, <1>6
  <2>2. first >= 0 /\ first <= maxseq_ + 1  BY <1>0
  <2>3. resent \in SUBSET (0 .. maxseq_)  BY <1>3
  <2> QED BY <2>1, <2>2, <2>3, <1>0, <1>4, Outputting
<1>8. maxseq_' \in maxseq_ .. curseq_ - 1
  BY <1>4, <1>7 DEF AtLeast
<1>9. /\ t_seqno_' \in t .. maxseq_' + 1
      /\ t_seqno_' <= maxseq_' => maxseq_' = maxseq_
  BY <1>0, <1>4, <1>5, <1>6, <1>7 DEF AtLeast
<1>10. pipe_' \in Int
  BY <1>3, <1>4, <1>5, <1>6
<1>11. ~ fastrecov_' => top <= last + cwnd \/ top <= maxseq_
  <2> SUFFICES ASSUME ~ fastrecov_' PROVE top <= last + cwnd \/ top <= maxseq_
    OBVIOUS
  <2>1. bound <= last + cwnd
    BY DEF bound, window, AtMost
  <2>2. CASE resent = holes
    BY <2>1, <2>2, <1>4 DEF top, AtMost
  <2>3. CASE resent # holes
    BY <1>0, <2>3 DEF top
  <2> QED BY <2>2, <2>3
<1>12. ~ fastrecov_' => maxseq_' <= AtLeast(maxseq_, last + cwnd)
  BY <1>4, <1>7, <1>11 DEF AtLeast
<1>13. retran' \subseteq 0 .. maxseq_ /\ (~ fastrecov_' => retran' = marked)
  BY <1>1, <1>2, <1>3, <1>6
<1> DEFINE m == AtLeast(maxseq_, top)
           s == first + Cardinality(fresh)
<1>14. m \in maxseq_ .. curseq_ - 1 /\ s \in Int /\ maxseq_' = m /\ t_seqno_' = s
  BY <1>0, <1>3, <1>4, <1>5, <1>6, <1>7, <1>8
<1>15. t <= s /\ s <= m + 1 /\ (s <= m => m = maxseq_)
  BY <1>0, <1>4, <1>5 DEF AtLeast
<1> HIDE DEF m, s
<1> QED BY <1>7, <1>10, <1>12, <1>13, <1>14, <1>15

-------------------------------------------------------------------------------
(* The inductive invariant.                                                *)

(* Until the SYN is acknowledged nothing else is sent.                     *)
SynIsAlone == highest_ack_ = -1 => maxseq_ <= 0 /\ cwnd_ = 1 /\ ~ fastrecov_

RecoverIsSent == recover_ = 0 \/ recover_ <= maxseq_

ClosedIsAcked == closed_ => curseq_ > 0 /\ highest_ack_ >= curseq_ - 1

SenderInv ==
  /\ SenderTypeOK /\ RecoveryIsSound
  /\ SynIsAlone /\ RecoverIsSent /\ ClosedIsAcked

(* What the sender has been told, when R is what the sink has.             *)
KnowsOnly(R) == 0 .. highest_ack_ \subseteq R /\ sacked \subseteq R

(* An ACK tells what the sink has.                                         *)
IsTrueAck(ack, R) ==
  /\ ack.seqno \in 0 .. maxseq_
  /\ 0 .. ack.seqno \subseteq R
  /\ ack.sacked \subseteq R
  /\ \A s \in ack.sacked : s > ack.seqno

-------------------------------------------------------------------------------
(* What it leaves when nothing is sent.                                    *)
LEMMA SentNothing ==
  ASSUME SendNothing, maxseq_ \in Nat, BagToSet(data) \subseteq 0 .. maxseq_,
         rtx_timer_ = TRUE
  PROVE  /\ maxseq_' = maxseq_ /\ t_seqno_' = t_seqno_ /\ retran' = retran
         /\ pipe_' = pipe_ /\ rtx_timer_' = TRUE
         /\ BagToSet(data') \subseteq 0 .. maxseq_
<1>1. Output({}, {}, rtx_timer_)
  BY DEF SendNothing
<1>2. {maxseq_} \union {} \union {} = {maxseq_}
  OBVIOUS
<1>3. Max({maxseq_}) = maxseq_
  <2> DEFINE S == {maxseq_}
  <2>1. S \in SUBSET Int /\ maxseq_ \in S /\ \A x \in S : x <= maxseq_
    OBVIOUS
  <2> QED BY <2>1, MaxIs
<1>4. maxseq_' = maxseq_
  BY <1>1, <1>2, <1>3 DEF Output
<1>5. BagToSet(data') = BagToSet(data)
  BY <1>1 DEF Output, BagToSet, SetToBag, (+)
<1>6. rtx_timer_' = TRUE
  BY <1>1 DEF Output
<1> QED BY <1>4, <1>5, <1>6 DEF SendNothing

(* An ACK arrives: what recv meets.  w is the window after ecn().          *)
Receiving(ack, w, R) ==
  /\ SenderInv /\ KnowsOnly(R) /\ R \subseteq 0 .. maxseq_
  /\ IsTrueAck(ack, R) /\ w \in AfterEcn(ack)

WindowType == [cwnd : 1 .. maxcwnd_, ssthresh : 2 .. wnd_,
               action : {"none", "ecn", "dupack", "timeout"}, recover : 0 .. maxseq_]

(* Half of a window is a window.                                           *)
LEMMA HalfIsSmaller ==
  ASSUME NEW n \in Nat
  PROVE  n \div 2 \in 0 .. n
OBVIOUS

(* slowdown() leaves a window of at least one.                             *)
LEMMA SlowedType ==
  ASSUME NEW n \in 0 .. maxcwnd_, NEW r \in 0 .. maxseq_,
         NEW a \in {"none", "ecn", "dupack", "timeout"}
  PROVE  Slowed(n, n, a, r) \in WindowType
BY SenderAssumption DEF Slowed, WindowType, AtLeast

(* So does halving the window.                                             *)
LEMMA HalvedType ==
  ASSUME NEW w \in WindowType, NEW r \in 0 .. maxseq_,
         NEW a \in {"none", "ecn", "dupack", "timeout"}
  PROVE  Halved(w, a, r) \in WindowType
<1>1. window(w.cwnd) \in 0 .. maxcwnd_
  BY SenderAssumption DEF window, AtMost, WindowType
<1>2. window(w.cwnd) \div 2 \in 0 .. maxcwnd_
  BY <1>1, HalfIsSmaller, SenderAssumption
<1> QED BY <1>2, SlowedType DEF Halved

(* opencwnd() keeps to the limit of the window.                            *)
LEMMA OpenedType ==
  ASSUME NEW w \in WindowType, NEW e, NEW c \in Opened(w, e)
  PROVE  c \in 1 .. maxcwnd_
<1>1. w.cwnd \in 1 .. maxcwnd_ /\ maxcwnd_ \in Nat
  BY SenderAssumption DEF WindowType
<1>2. c \in {AtMost(w.cwnd, maxcwnd_), AtMost(w.cwnd + 1, maxcwnd_), w.cwnd}
  BY DEF Opened
<1> QED BY <1>1, <1>2 DEF AtMost

(* What every branch of recv can rely on.                                  *)
LEMMA Reception ==
  ASSUME NEW R, NEW ack, NEW w, Receiving(ack, w, R)
  PROVE  /\ maxseq_ \in Nat /\ wnd_ \in Nat /\ curseq_ \in Nat /\ maxseq_ < curseq_
         /\ rtx_timer_ = TRUE
         /\ conf.size \in Nat /\ curseq_ = conf.size + 1
         /\ ack.seqno \in 0 .. maxseq_ /\ 0 .. ack.seqno \subseteq R
         /\ ack.sacked \subseteq R /\ \A s \in ack.sacked : s > ack.seqno
         /\ recover_ \in 0 .. maxseq_
         /\ w \in WindowType /\ w.recover >= recover_
         /\ ~ conf.ecn_ => w.recover = recover_
<1> USE DEF Receiving
<1>1. /\ ack.seqno \in 0 .. maxseq_ /\ 0 .. ack.seqno \subseteq R
      /\ ack.sacked \subseteq R /\ \A s \in ack.sacked : s > ack.seqno
  BY DEF IsTrueAck
<1>2. conf.size \in Nat /\ conf \in AllSettings
  BY SenderAssumption DEF SenderInv, SenderTypeOK, AllSettings
<1>3. maxseq_ \in Nat /\ wnd_ \in Nat /\ maxcwnd_ \in Nat
  BY <1>1, <1>2, SenderAssumption DEF SenderInv, SenderTypeOK
<1>4. curseq_ = conf.size + 1 /\ maxseq_ < curseq_ /\ rtx_timer_ = TRUE
  <2>1. curseq_ = conf.size + 1 /\ maxseq_ < curseq_
    BY <1>1, <1>2, <1>3 DEF SenderInv, SenderTypeOK
  <2>2. rtx_timer_ = (maxseq_ # -1)
    BY DEF SenderInv, SenderTypeOK
  <2>3. maxseq_ # -1
    BY <1>3
  <2> QED BY <2>1, <2>2, <2>3
<1>5. recover_ \in 0 .. maxseq_
  BY <1>2, <1>3 DEF SenderInv, SenderTypeOK, RecoverIsSent
<1>6. R \subseteq 0 .. maxseq_
  OBVIOUS
<1>7. Window \in WindowType
  BY <1>5 DEF SenderInv, SenderTypeOK, Window, WindowType
<1>8. CutWindows \subseteq 0 .. maxcwnd_
  <2> DEFINE n == window(cwnd_)
  <2>1. cwnd_ \in 1 .. maxcwnd_
    BY DEF SenderInv, SenderTypeOK
  <2>2. n \in 0 .. maxcwnd_
    BY <2>1, <1>3 DEF window, AtMost
  <2>3. n \div 2 \in 0 .. n
    BY <2>2, <1>3, HalfIsSmaller
  <2>4. CutWindows \subseteq (n \div 2) .. n \union {n \div 2}
    BY DEF CutWindows
  <2> HIDE DEF n
  <2> QED BY <2>2, <2>3, <2>4, <1>3
<1>9. /\ w \in WindowType /\ w.recover >= recover_
      /\ ~ conf.ecn_ => w.recover = recover_
  <2>1. CASE w = Window
    <3>1. w.recover = recover_  BY <2>1 DEF Window
    <3> QED BY <3>1, <2>1, <1>5, <1>7
  <2>2. CASE w # Window
    <3>1. conf.ecn_ /\ \E n \in CutWindows : w = Slowed(n, n, "ecn", maxseq_)
      BY <2>2 DEF AfterEcn
    <3>2. PICK n \in CutWindows : w = Slowed(n, n, "ecn", maxseq_)
      BY <3>1
    <3>3. w \in WindowType
      BY <3>2, <1>3, <1>8, SlowedType
    <3>4. w.recover = maxseq_
      BY <3>2 DEF Slowed
    <3> QED BY <1>5, <3>1, <3>3, <3>4
  <2> QED BY <2>1, <2>2
<1>10. ack.sacked \subseteq R
  BY <1>1, <1>6
<1>11. curseq_ \in Nat
  BY <1>2, <1>4
<1> QED BY <1>1, <1>2, <1>3, <1>4, <1>5, <1>9, <1>10, <1>11

(* What a step of the sender leaves.                                       *)
Kept(R) == SenderInv' /\ KnowsOnly(R)' /\ maxseq_ <= maxseq_'

(* The invariant again, from what a branch of recv leaves.                 *)
LEMMA Rebuild ==
  ASSUME NEW R, NEW ack, NEW w, Receiving(ack, w, R), UNCHANGED <<curseq_, wnd_init_, conf>>,
         NEW v \in WindowType, SetWindow(v),
         NEW h \in 0 .. maxseq_, highest_ack_' = h, highest_ack_ <= h, 0 .. h \subseteq R,
         NEW l \in -1 .. h, last_ack_' = l,
         NEW m \in maxseq_ .. curseq_ - 1, maxseq_' = m,
         NEW s \in l + 1 .. m + 1, t_seqno_' = s,
         dupacks_' \in Nat, pipe_' \in Int, rtx_timer_' = TRUE,
         fastrecov_' \in BOOLEAN, timeout_' \in BOOLEAN, closed_' \in BOOLEAN,
         sacked' \subseteq R, retran' \subseteq 0 .. maxseq_,
         BagToSet(data') \subseteq 0 .. m,
         closed_' => closed_ \/ h >= curseq_ - 1,
         ~ fastrecov_' => l = h /\ (dupacks_' = 0 => sacked' = {} /\ retran' = {}),
         fastrecov_' => ~ timeout_' /\ h <= v.recover /\ (~ conf.ecn_ => h < v.recover),
         ~ conf.ecn_ /\ s <= m =>
           ~ fastrecov_' /\ m <= v.recover /\ (h = 0 => timeout_')
  PROVE  Kept(R)
<1>1. /\ maxseq_ \in Nat /\ wnd_ \in Nat /\ curseq_ \in Nat /\ maxseq_ < curseq_
      /\ conf.size \in Nat /\ curseq_ = conf.size + 1
  BY Reception
<1>2. SenderTypeOK /\ ClosedIsAcked
  BY DEF Receiving, SenderInv
<1>3. v.cwnd \in 1 .. maxcwnd_ /\ v.ssthresh \in 2 .. wnd_ /\ v.recover \in 0 .. maxseq_
      /\ v.action \in {"none", "ecn", "dupack", "timeout"}
  BY DEF WindowType
<1>4. cwnd_' = v.cwnd /\ ssthresh_' = v.ssthresh /\ recover_' = v.recover
      /\ last_cwnd_action_' = v.action
  BY DEF SetWindow
<1>5. R \subseteq 0 .. maxseq_
  BY DEF Receiving
<1>6. m \in Nat /\ m <= conf.size /\ m >= maxseq_
  BY <1>1
<1>7. SenderTypeOK'
  <2>1. conf' \in Settings /\ curseq_' \in {0, conf'.size + 1}
    BY <1>2 DEF SenderTypeOK
  <2>2. maxseq_' \in -1 .. conf'.size /\ maxseq_' < curseq_'
    BY <1>1, <1>6
  <2>3. highest_ack_' \in -1 .. maxseq_' /\ last_ack_' \in -1 .. highest_ack_'
    BY <1>1, <1>6
  <2>4. t_seqno_' \in last_ack_' + 1 .. maxseq_' + 1
    BY <1>1, <1>6
  <2>5. cwnd_' \in 1 .. maxcwnd_ /\ ssthresh_' \in 2 .. wnd_ /\ wnd_init_' \in 1 .. 2
        /\ last_cwnd_action_' \in {"none", "ecn", "dupack", "timeout"}
    BY <1>2, <1>3, <1>4 DEF SenderTypeOK
  <2>6. recover_' \in 0 .. conf'.size
    BY <1>1, <1>3, <1>4
  <2>7. sacked' \subseteq 0 .. maxseq_' /\ retran' \subseteq 0 .. maxseq_'
        /\ BagToSet(data') \subseteq 0 .. maxseq_'
    BY <1>1, <1>5, <1>6
  <2>8. rtx_timer_' = (maxseq_' # -1)
    <3>1. maxseq_' # -1  BY <1>6
    <3> QED BY <3>1
  <2> QED BY <2>1, <2>2, <2>3, <2>4, <2>5, <2>6, <2>7, <2>8 DEF SenderTypeOK
<1>8. RecoveryIsSound'
  <2>1. EmptyOutsideRecovery'
    BY DEF EmptyOutsideRecovery
  <2>2. RecoveryHasAnEnd'
    BY <1>1, <1>3, <1>4, <1>6 DEF RecoveryHasAnEnd
  <2>3. BehindOnlyAfterTimeout'
    BY <1>4 DEF BehindOnlyAfterTimeout
  <2> QED BY <2>1, <2>2, <2>3 DEF RecoveryIsSound
<1>9. KnowsOnly(R)'
  BY DEF KnowsOnly
<1>11. SynIsAlone' /\ RecoverIsSent'
  BY <1>3, <1>4, <1>6, <1>1 DEF SynIsAlone, RecoverIsSent
<1>12. ClosedIsAcked'
  <2>1. highest_ack_ \in Int  BY <1>2 DEF SenderTypeOK
  <2>2. closed_' => curseq_' > 0 /\ h >= curseq_ - 1
    BY <2>1, <1>1, <1>2 DEF ClosedIsAcked
  <2> QED BY <2>2 DEF ClosedIsAcked
<1> QED BY <1>6, <1>7, <1>8, <1>9, <1>11, <1>12 DEF SenderInv, Kept

(* An ACK that is taken for new, in recovery or not.                       *)
LEMMA AfterNewAck ==
  ASSUME NEW R, NEW ack, NEW w, Receiving(ack, w, R), NEW v \in WindowType, SetWindow(v),
         NewAck(ack.seqno), SendAfterNewAck(ack.seqno), fastrecov_' = FALSE,
         UNCHANGED <<curseq_, wnd_init_, conf>>, highest_ack_ <= ack.seqno,
         ~ conf.ecn_ /\ AtLeast(t_seqno_, ack.seqno + 1) <= maxseq_
           => maxseq_ <= v.recover /\ ack.seqno # 0
  PROVE  Kept(R)
<1> DEFINE q == ack.seqno
           t == AtLeast(t_seqno_, q + 1)
<1>1. /\ maxseq_ \in Nat /\ wnd_ \in Nat /\ curseq_ \in Nat /\ maxseq_ < curseq_
      /\ conf.size \in Nat /\ curseq_ = conf.size + 1
      /\ q \in 0 .. maxseq_ /\ 0 .. q \subseteq R
  BY Reception
<1>2. SenderTypeOK /\ ClosedIsAcked
  BY DEF Receiving, SenderInv
<1>3. v.cwnd \in 1 .. maxcwnd_ /\ v.ssthresh \in 2 .. wnd_ /\ v.recover \in 0 .. maxseq_
      /\ v.action \in {"none", "ecn", "dupack", "timeout"}
  BY DEF WindowType
<1>4. t_seqno_ \in Int /\ t_seqno_ <= maxseq_ + 1
  BY <1>1, <1>2 DEF SenderTypeOK
<1>5. t \in Int /\ t >= q + 1 /\ t <= maxseq_ + 1
  BY <1>1, <1>4 DEF AtLeast
<1>6. SendMuch(t, 0, {}, TRUE)
  <2>1. SendMuch(t, 0, {}, NewTimer(q, t))
    BY DEF SendAfterNewAck
  <2>2. NewTimer(q, t) = TRUE
    BY <1>1, <1>5 DEF NewTimer
  <2> QED BY <2>1, <2>2
<1>7. /\ last_ack_' = q /\ highest_ack_' = q /\ dupacks_' = 0 /\ timeout_' = FALSE
      /\ sacked' = {} /\ closed_' = (closed_ \/ Done(q))
  BY DEF NewAck
<1>8. cwnd_' = v.cwnd /\ ssthresh_' = v.ssthresh /\ recover_' = v.recover
      /\ last_cwnd_action_' = v.action
  BY DEF SetWindow
<1>9. BagToSet(data) \subseteq 0 .. maxseq_
  BY <1>2 DEF SenderTypeOK
<1> HIDE DEF t
<1>10. PICK m \in maxseq_ .. curseq_ - 1, s \in Int :
           /\ maxseq_' = m /\ t_seqno_' = s
           /\ t <= s /\ s <= m + 1
           /\ s <= m => m = maxseq_
           /\ retran' = {}
           /\ rtx_timer_' = TRUE
           /\ pipe_' \in Int
           /\ BagToSet(data') \subseteq 0 .. m
  <2> DEFINE c == v.cwnd
  <2>1. c \in Nat /\ cwnd_' = c
    BY <1>3, <1>8, SenderAssumption
  <2>2. /\ q \in -1 .. maxseq_ /\ q \in q .. maxseq_
        /\ curseq_ \in Int /\ 0 \in Int /\ {} \subseteq 0 .. maxseq_
    BY <1>1
  <2>3. last_ack_' = q /\ highest_ack_' = q /\ fastrecov_' \in BOOLEAN
    BY <1>7
  <2> HIDE DEF q, c
  <2> QED BY <1>1, <1>5, <1>6, <1>9, <2>1, <2>2, <2>3, SendMuchLeaves
<1>11. dupacks_' \in Nat /\ rtx_timer_' = TRUE /\ fastrecov_' \in BOOLEAN
       /\ timeout_' \in BOOLEAN /\ closed_' \in BOOLEAN
       /\ (closed_' => closed_ \/ q >= curseq_ - 1)
  BY <1>2, <1>7, <1>10 DEF SenderTypeOK, Done
<1>12. s \in q + 1 .. m + 1
  BY <1>1, <1>5, <1>10
<1>13. ~ conf.ecn_ /\ s <= m => m <= v.recover /\ q # 0
  <2> SUFFICES ASSUME ~ conf.ecn_, s <= m PROVE m <= v.recover /\ q # 0
    OBVIOUS
  <2>1. t <= maxseq_ /\ m = maxseq_
    BY <1>1, <1>5, <1>10
  <2> QED BY <2>1 DEF t
<1>14. q \in -1 .. q /\ sacked' \subseteq R /\ retran' \subseteq 0 .. maxseq_
  BY <1>1, <1>7, <1>10
<1> HIDE DEF q
<1> QED BY <1>1, <1>7, <1>10, <1>11, <1>12, <1>13, <1>14, Rebuild DEF q

(* The next segment is beyond those sent, unless BehindOnlyAfterTimeout.   *)
LEMMA NewAckPreserves ==
  ASSUME NEW R, NEW ack, NEW w, Receiving(ack, w, R), RecvNewAck(ack, w)
  PROVE  Kept(R)
<1> DEFINE q == ack.seqno
<1>1. /\ maxseq_ \in Nat /\ q \in 0 .. maxseq_ /\ w \in WindowType
      /\ ~ conf.ecn_ => w.recover = recover_
  BY Reception
<1>2. SenderTypeOK /\ RecoveryIsSound /\ SynIsAlone
  BY DEF Receiving, SenderInv
<1>3. PICK c \in Opened(w, ack.ecnecho) :
        SetWindow([w EXCEPT !.cwnd = IF q = 0 THEN wnd_init_ ELSE c])
  BY DEF RecvNewAck
<1> DEFINE v == [w EXCEPT !.cwnd = IF q = 0 THEN wnd_init_ ELSE c]
<1>4. c \in 1 .. maxcwnd_
  BY <1>1, <1>3, OpenedType
<1>5. v \in WindowType /\ v.recover = w.recover
  <2>1. wnd_init_ \in 1 .. maxcwnd_
    BY <1>2, SenderAssumption DEF SenderTypeOK
  <2> QED BY <1>1, <1>4, <2>1 DEF WindowType
<1>6. ~ fastrecov_ /\ q > last_ack_ /\ last_ack_ = highest_ack_
  BY <1>2 DEF RecvNewAck, IsNew, RecoveryIsSound, EmptyOutsideRecovery
<1>7. fastrecov_' = FALSE
  BY <1>2, <1>6 DEF RecvNewAck, SenderTypeOK
<1>8. highest_ack_ <= q /\ highest_ack_ \in Int /\ t_seqno_ \in Int /\ recover_ \in Int
  BY <1>1, <1>2, <1>6 DEF SenderTypeOK
<1>9. ~ conf.ecn_ /\ AtLeast(t_seqno_, q + 1) <= maxseq_ => maxseq_ <= v.recover /\ q # 0
  <2> SUFFICES ASSUME ~ conf.ecn_, AtLeast(t_seqno_, q + 1) <= maxseq_
               PROVE  maxseq_ <= v.recover /\ q # 0
    OBVIOUS
  <2>1. t_seqno_ <= maxseq_ /\ q + 1 <= maxseq_
    BY <1>1, <1>8 DEF AtLeast
  <2>2. maxseq_ <= recover_
    BY <1>2, <2>1 DEF RecoveryIsSound, BehindOnlyAfterTimeout
  <2>3. q # 0
    BY <1>1, <1>2, <1>6, <1>8, <2>1 DEF SynIsAlone, SenderTypeOK
  <2> QED BY <1>1, <1>5, <2>2, <2>3
<1> HIDE DEF v
<1> QED BY <1>3, <1>5, <1>7, <1>8, <1>9, AfterNewAck DEF RecvNewAck, v

(* The end of a recovery is beyond every partial ACK in it.                *)
LEMMA EndRecoveryPreserves ==
  ASSUME NEW R, NEW ack, NEW w, Receiving(ack, w, R), EndRecovery(ack, w)
  PROVE  Kept(R)
<1> DEFINE q == ack.seqno
           v == [w EXCEPT !.recover = 0]
<1>1. /\ maxseq_ \in Nat /\ q \in 0 .. maxseq_ /\ w \in WindowType /\ recover_ \in 0 .. maxseq_
      /\ w.recover >= recover_
  BY Reception
<1>2. SenderTypeOK /\ RecoveryIsSound
  BY DEF Receiving, SenderInv
<1>3. v \in WindowType /\ w.recover \in Int
  BY <1>1 DEF WindowType
<1>4. fastrecov_ /\ q >= w.recover
  BY DEF EndRecovery
<1>5. highest_ack_ <= recover_ /\ highest_ack_ \in Int /\ t_seqno_ \in Int
  BY <1>1, <1>2, <1>4 DEF SenderTypeOK, RecoveryIsSound, RecoveryHasAnEnd
<1>6. highest_ack_ <= q
  BY <1>1, <1>3, <1>4, <1>5
<1>7. ~ conf.ecn_ => t_seqno_ > maxseq_
  BY <1>1, <1>2, <1>4, <1>5 DEF RecoveryIsSound, BehindOnlyAfterTimeout
<1>8. ~ (~ conf.ecn_ /\ AtLeast(t_seqno_, q + 1) <= maxseq_)
  BY <1>1, <1>5, <1>7 DEF AtLeast
<1> HIDE DEF v
<1> QED BY <1>3, <1>6, <1>8, AfterNewAck DEF EndRecovery, v

(* The parts of the invariant and of the window that the branches use.     *)
LEMMA Handled ==
  ASSUME NEW R, NEW ack, NEW w, Receiving(ack, w, R)
  PROVE  /\ highest_ack_ \in -1 .. maxseq_ /\ last_ack_ \in -1 .. highest_ack_
         /\ t_seqno_ \in last_ack_ + 1 .. maxseq_ + 1
         /\ dupacks_ \in Nat /\ pipe_ \in Int /\ cwnd_ \in Nat
         /\ fastrecov_ \in BOOLEAN /\ timeout_ \in BOOLEAN /\ closed_ \in BOOLEAN
         /\ sacked \subseteq R /\ retran \subseteq 0 .. maxseq_
         /\ BagToSet(data) \subseteq 0 .. maxseq_
         /\ 0 .. highest_ack_ \subseteq R
         /\ w.cwnd \in Nat /\ w.recover \in 0 .. maxseq_
         /\ ~ fastrecov_ => last_ack_ = highest_ack_
<1>1. SenderTypeOK /\ KnowsOnly(R) /\ EmptyOutsideRecovery
  BY DEF Receiving, SenderInv, RecoveryIsSound
<1>2. /\ highest_ack_ \in -1 .. maxseq_ /\ last_ack_ \in -1 .. highest_ack_
      /\ t_seqno_ \in last_ack_ + 1 .. maxseq_ + 1
  BY <1>1 DEF SenderTypeOK
<1>3. /\ dupacks_ \in Nat /\ pipe_ \in Int
      /\ fastrecov_ \in BOOLEAN /\ timeout_ \in BOOLEAN /\ closed_ \in BOOLEAN
      /\ sacked \subseteq R /\ retran \subseteq 0 .. maxseq_
      /\ BagToSet(data) \subseteq 0 .. maxseq_
  BY <1>1 DEF SenderTypeOK, KnowsOnly
<1>4. 0 .. highest_ack_ \subseteq R /\ (~ fastrecov_ => last_ack_ = highest_ack_)
  BY <1>1 DEF KnowsOnly, EmptyOutsideRecovery
<1>5. cwnd_ \in Nat
  BY <1>1, SenderAssumption DEF SenderTypeOK
<1>6. w.cwnd \in Nat /\ w.recover \in 0 .. maxseq_
  <2>1. w \in WindowType  BY Reception
  <2> QED BY <2>1, SenderAssumption DEF WindowType
<1> QED BY <1>2, <1>3, <1>4, <1>5, <1>6

(* An ACK without news may still let send_much send.                       *)
LEMMA NoNewsPreserves ==
  ASSUME NEW R, NEW ack, NEW w, Receiving(ack, w, R), RecvNoNews(ack, w)
  PROVE  Kept(R)
<1> DEFINE h == highest_ack_
<1>1. /\ maxseq_ \in Nat /\ ack.seqno \in 0 .. maxseq_ /\ w \in WindowType
      /\ curseq_ \in Nat /\ maxseq_ < curseq_ /\ rtx_timer_ = TRUE /\ wnd_ \in Nat
      /\ ~ conf.ecn_ => w.recover = recover_
  BY Reception
<1>2. /\ ~ fastrecov_ /\ h = last_ack_ /\ h \in 0 .. maxseq_
      /\ t_seqno_ \in h + 1 .. maxseq_ + 1
  <2>1. ~ fastrecov_ /\ (ack.seqno < last_ack_ \/ ack.seqno = last_ack_)
    BY DEF RecvNoNews
  <2>2. /\ h \in -1 .. maxseq_ /\ h = last_ack_
        /\ t_seqno_ \in last_ack_ + 1 .. maxseq_ + 1
    BY <2>1, Handled
  <2> QED BY <1>1, <2>1, <2>2
<1>3. highest_ack_' = h /\ last_ack_' = h /\ SetWindow(w) /\ fastrecov_' = FALSE
      /\ UNCHANGED <<curseq_, wnd_init_, conf, dupacks_, sacked, timeout_, closed_>>
  BY <1>2, Handled DEF RecvNoNews
<1>4. \E m \in maxseq_ .. curseq_ - 1, s \in Int :
         /\ maxseq_' = m /\ t_seqno_' = s
         /\ t_seqno_ <= s /\ s <= m + 1
         /\ s <= m => m = maxseq_
         /\ retran' = retran
         /\ rtx_timer_' = TRUE
         /\ pipe_' \in Int
         /\ BagToSet(data') \subseteq 0 .. m
  <2>1. CASE dupacks_ = 0
    <3> DEFINE c == w.cwnd
               t == t_seqno_
    <3>1. SendMuch(t_seqno_, pipe_, retran, TRUE)
      BY <1>1, <1>2, <2>1 DEF RecvNoNews
    <3>2. c \in Nat /\ cwnd_' = c
      BY <1>3, Handled DEF SetWindow
    <3>3. fastrecov_' \in BOOLEAN /\ ~ fastrecov_'
      BY <1>3
    <3>4. h \in -1 .. maxseq_ /\ h \in h .. maxseq_ /\ curseq_ \in Int
          /\ t_seqno_ \in Int /\ t_seqno_ >= h + 1 /\ t_seqno_ <= maxseq_ + 1
      BY <1>1, <1>2
    <3>5. pipe_ \in Int /\ retran \subseteq 0 .. maxseq_ /\ BagToSet(data) \subseteq 0 .. maxseq_
      BY Handled
    <3> HIDE DEF c, h
    <3> QED BY <1>1, <1>3, <3>1, <3>2, <3>3, <3>4, <3>5, SendMuchLeaves
  <2>2. CASE dupacks_ # 0
    <3>1. SendNothing
      BY <1>2, <2>2 DEF RecvNoNews
    <3>2. maxseq_ \in maxseq_ .. curseq_ - 1 /\ t_seqno_ \in Int
          /\ t_seqno_ <= maxseq_ + 1 /\ t_seqno_ <= t_seqno_
      BY <1>1, <1>2
    <3> QED BY <1>1, <3>1, <3>2, Handled, SentNothing
  <2> QED BY <2>1, <2>2
<1>5. PICK m \in maxseq_ .. curseq_ - 1, s \in Int :
         /\ maxseq_' = m /\ t_seqno_' = s
         /\ t_seqno_ <= s /\ s <= m + 1
         /\ s <= m => m = maxseq_
         /\ retran' = retran
         /\ rtx_timer_' = TRUE
         /\ pipe_' \in Int
         /\ BagToSet(data') \subseteq 0 .. m
  BY <1>4
<1>6. s \in h + 1 .. m + 1
  BY <1>1, <1>2, <1>5
<1>7. /\ dupacks_' \in Nat /\ timeout_' \in BOOLEAN /\ closed_' \in BOOLEAN
      /\ fastrecov_' \in BOOLEAN /\ ~ fastrecov_'
      /\ sacked' \subseteq R /\ retran' \subseteq 0 .. maxseq_
      /\ (closed_' => closed_)
  BY <1>3, <1>5, Handled
<1>8. RecoveryIsSound
  BY DEF Receiving, SenderInv
<1>9. dupacks_' = 0 => sacked' = {} /\ retran' = {}
  BY <1>2, <1>3, <1>5, <1>8 DEF RecoveryIsSound, EmptyOutsideRecovery
<1>10. ~ conf.ecn_ /\ s <= m => m <= w.recover /\ (h = 0 => timeout_')
  <2> SUFFICES ASSUME ~ conf.ecn_, s <= m PROVE m <= w.recover /\ (h = 0 => timeout_')
    OBVIOUS
  <2>1. t_seqno_ <= maxseq_ /\ m = maxseq_
    BY <1>1, <1>2, <1>5
  <2> QED BY <1>1, <1>3, <1>8, <2>1 DEF RecoveryIsSound, BehindOnlyAfterTimeout
<1>11. h <= h /\ 0 .. h \subseteq R /\ h \in -1 .. h
  BY <1>2, Handled
<1> HIDE DEF h
<1> QED BY <1>1, <1>2, <1>3, <1>5, <1>6, <1>7, <1>9, <1>10, <1>11, Rebuild DEF h

(* A duplicate ACK with news: something above it has arrived.              *)
LEMMA Duplicated ==
  ASSUME NEW R, NEW ack, NEW w, Receiving(ack, w, R), DuplicateAck(ack)
  PROVE  /\ ~ fastrecov_ /\ ~ timeout_ /\ last_ack_ = highest_ack_
         /\ highest_ack_ \in 0 .. maxseq_ - 1
         /\ highest_ack_' = highest_ack_ /\ last_ack_' = highest_ack_
         /\ dupacks_' \in Nat /\ dupacks_' # 0
         /\ sacked' \subseteq R
         /\ UNCHANGED <<curseq_, wnd_init_, conf, timeout_, closed_>>
         /\ ~ conf.ecn_ /\ t_seqno_ <= maxseq_ => maxseq_ <= recover_ /\ highest_ack_ # 0
<1>1. /\ maxseq_ \in Nat /\ ack.seqno \in 0 .. maxseq_
      /\ ack.sacked \subseteq R /\ \A s \in ack.sacked : s > ack.seqno
  BY Reception
<1>2. ~ fastrecov_ /\ ~ timeout_ /\ ack.seqno = last_ack_
  BY DEF DuplicateAck
<1>3. last_ack_ = highest_ack_
  BY <1>2, Handled
<1>4. PICK r \in ack.sacked : r \notin sacked
  BY DEF DuplicateAck
<1>5. highest_ack_ \in 0 .. maxseq_ - 1
  <2>1. r \in 0 .. maxseq_  BY <1>1, <1>4 DEF Receiving
  <2> QED BY <1>1, <1>2, <1>3, <1>4, <2>1
<1>6. dupacks_ \in Nat /\ sacked \subseteq R
  BY Handled
<1>7. /\ highest_ack_' = highest_ack_ /\ last_ack_' = highest_ack_
      /\ dupacks_' = dupacks_ + 1
      /\ UNCHANGED <<curseq_, wnd_init_, conf, timeout_, closed_>>
      /\ sacked' \subseteq sacked \union ack.sacked
  BY <1>3 DEF DuplicateAck, Reported
<1>8. BehindOnlyAfterTimeout
  BY DEF Receiving, SenderInv, RecoveryIsSound
<1>9. ~ conf.ecn_ /\ t_seqno_ <= maxseq_ => maxseq_ <= recover_ /\ highest_ack_ # 0
  BY <1>2, <1>8 DEF BehindOnlyAfterTimeout
<1> QED BY <1>1, <1>2, <1>3, <1>5, <1>6, <1>7, <1>9

(* send_one sends one segment, which may be one sent before.               *)
LEMMA LimitedTransmitPreserves ==
  ASSUME NEW R, NEW ack, NEW w, Receiving(ack, w, R), LimitedTransmit(ack, w)
  PROVE  Kept(R)
<1> DEFINE h == highest_ack_
           m == AtLeast(maxseq_, t_seqno_)
           s == t_seqno_ + 1
<1>1. /\ maxseq_ \in Nat /\ w \in WindowType /\ curseq_ \in Nat /\ maxseq_ < curseq_
      /\ rtx_timer_ = TRUE
      /\ ~ conf.ecn_ => w.recover = recover_
  BY Reception
<1>2. /\ DuplicateAck(ack) /\ SetWindow(w) /\ t_seqno_ < curseq_ /\ t_seqno_' = s
      /\ UNCHANGED <<fastrecov_, pipe_, retran>>
      /\ Output({}, {t_seqno_}, TRUE)
  <2>1. Output({}, {t_seqno_}, rtx_timer_)  BY DEF LimitedTransmit
  <2>2. Output({}, {t_seqno_}, TRUE)  BY <1>1, <2>1
  <2> QED BY <2>2 DEF LimitedTransmit, MaySendOne
<1>3. /\ ~ fastrecov_ /\ ~ timeout_ /\ last_ack_ = h /\ h \in 0 .. maxseq_ - 1
      /\ highest_ack_' = h /\ last_ack_' = h /\ dupacks_' \in Nat /\ dupacks_' # 0
      /\ sacked' \subseteq R
      /\ UNCHANGED <<curseq_, wnd_init_, conf, timeout_, closed_>>
      /\ ~ conf.ecn_ /\ t_seqno_ <= maxseq_ => maxseq_ <= recover_ /\ h # 0
  BY <1>2, Duplicated
<1>4. t_seqno_ \in h + 1 .. maxseq_ + 1
  BY <1>3, Handled
<1>5. m \in maxseq_ .. curseq_ - 1 /\ s \in h + 1 .. m + 1 /\ (s <= m => m = maxseq_)
      /\ (s <= m => t_seqno_ <= maxseq_)
  BY <1>1, <1>2, <1>3, <1>4 DEF AtLeast
<1>6. maxseq_' = m /\ rtx_timer_' = TRUE /\ BagToSet(data') \subseteq 0 .. m
  <2>1. {t_seqno_} = t_seqno_ .. t_seqno_ /\ t_seqno_ \in Int /\ t_seqno_ >= 0
        /\ t_seqno_ <= maxseq_ + 1 /\ {} \in SUBSET (0 .. maxseq_)
    BY <1>1, <1>3, <1>4
  <2>2. BagToSet(data) \subseteq 0 .. maxseq_  BY Handled
  <2> QED BY <1>1, <1>2, <2>1, <2>2, Outputting
<1>7. /\ pipe_' \in Int /\ fastrecov_' = FALSE /\ timeout_' \in BOOLEAN /\ closed_' \in BOOLEAN
      /\ retran' \subseteq 0 .. maxseq_ /\ (closed_' => closed_)
  BY <1>2, <1>3, Handled
<1>8. ~ conf.ecn_ /\ s <= m => m <= w.recover /\ h # 0
  <2> SUFFICES ASSUME ~ conf.ecn_, s <= m PROVE m <= w.recover /\ h # 0
    OBVIOUS
  <2>1. t_seqno_ <= maxseq_ /\ m = maxseq_
    BY <1>5
  <2>2. maxseq_ <= recover_ /\ h # 0 /\ w.recover = recover_
    BY <1>1, <1>2, <2>1, Duplicated
  <2> QED BY <2>1, <2>2
<1>9. h \in 0 .. maxseq_ /\ h <= h /\ 0 .. h \subseteq R /\ h \in -1 .. h
  BY <1>1, <1>3, Handled
<1> HIDE DEF h, m, s
<1> QED BY <1>1, <1>2, <1>3, <1>5, <1>6, <1>7, <1>8, <1>9, Rebuild DEF h

(* Both kinds of fast retransmit, with the window v they leave.            *)
LEMMA RetransmitPreserves ==
  ASSUME NEW R, NEW ack, NEW w, Receiving(ack, w, R), DuplicateAck(ack), StartRecovery,
         NEW v \in WindowType, SetWindow(v), highest_ack_ <= v.recover,
         ~ conf.ecn_ => v.recover = maxseq_ /\ t_seqno_ > maxseq_
  PROVE  Kept(R)
<1> DEFINE h == highest_ack_
<1>1. /\ maxseq_ \in Nat /\ curseq_ \in Nat /\ maxseq_ < curseq_
  BY Reception
<1>2. /\ ~ timeout_ /\ last_ack_ = h /\ h \in 0 .. maxseq_ - 1
      /\ highest_ack_' = h /\ last_ack_' = h /\ dupacks_' \in Nat /\ dupacks_' # 0
      /\ sacked' \subseteq R
      /\ UNCHANGED <<curseq_, wnd_init_, conf, timeout_, closed_>>
  BY Duplicated
<1>3. t_seqno_ \in h + 1 .. maxseq_ + 1
  BY <1>2, Handled
<1>4. /\ fastrecov_' = TRUE /\ pipe_' = maxseq_ - highest_ack_ - numdupacks_
      /\ retran' = retran \union {h + 1} /\ Output({h + 1}, {}, TRUE) /\ t_seqno_' = t_seqno_
  BY <1>2 DEF StartRecovery
<1>5. maxseq_' = maxseq_ /\ rtx_timer_' = TRUE /\ BagToSet(data') \subseteq 0 .. maxseq_
  <2> DEFINE N == {h + 1}
             S == {maxseq_} \union N \union {}
  <2>1. N \subseteq 0 .. maxseq_
    BY <1>1, <1>2
  <2>2. S \in SUBSET Int /\ maxseq_ \in S /\ \A x \in S : x <= maxseq_
    BY <1>1, <2>1
  <2>3. Max(S) = maxseq_
    BY <2>2, MaxIs
  <2>4. Output(N, {}, TRUE)  BY <1>4
  <2> HIDE DEF N
  <2>5. BagToSet(data') = BagToSet(data) \union N
    BY <2>4 DEF Output, BagToSet, SetToBag, (+)
  <2>6. maxseq_' = maxseq_ /\ rtx_timer_' = TRUE
    BY <2>3, <2>4 DEF Output
  <2> QED BY <2>1, <2>5, <2>6, Handled
<1>6. /\ timeout_' \in BOOLEAN /\ closed_' \in BOOLEAN /\ (closed_' => closed_)
      /\ fastrecov_' \in BOOLEAN
  BY <1>2, <1>4, Handled
<1>7. retran' \subseteq 0 .. maxseq_
  <2>1. retran \subseteq 0 .. maxseq_  BY Handled
  <2> QED BY <1>1, <1>2, <1>4, <2>1
<1>8. pipe_' \in Int
  BY <1>1, <1>2, <1>4, SenderAssumption
<1>9. h \in 0 .. maxseq_ /\ h <= h /\ 0 .. h \subseteq R /\ h \in -1 .. h
      /\ h < maxseq_ /\ maxseq_ \in maxseq_ .. curseq_ - 1
  BY <1>1, <1>2, Handled
<1>10. ~ conf.ecn_ => ~ (t_seqno_ <= maxseq_) /\ h < v.recover
  BY <1>1, <1>3, <1>9
<1> HIDE DEF h
<1> QED BY <1>1, <1>2, <1>3, <1>4, <1>5, <1>6, <1>7, <1>8, <1>9, <1>10, Rebuild DEF h

(* MayRecover excludes a sender that is behind after a timeout.            *)
LEMMA FastRetransmitPreserves ==
  ASSUME NEW R, NEW ack, NEW w, Receiving(ack, w, R), FastRetransmit(ack, w)
  PROVE  Kept(R)
<1> DEFINE v == Halved(w, "dupack", maxseq_)
<1>1. /\ maxseq_ \in Nat /\ w \in WindowType /\ recover_ \in 0 .. maxseq_
      /\ ~ conf.ecn_ => w.recover = recover_
  BY Reception
<1>2. DuplicateAck(ack) /\ StartRecovery /\ SetWindow(v) /\ MayRecover(w)
  BY DEF FastRetransmit
<1>3. v \in WindowType /\ v.recover = maxseq_
  <2>1. maxseq_ \in 0 .. maxseq_  BY <1>1
  <2>2. v \in WindowType  BY <1>1, <2>1, HalvedType
  <2> QED BY <2>2 DEF Halved, Slowed
<1>4. highest_ack_ \in 0 .. maxseq_ - 1
  BY <1>2, Duplicated
<1>5. ~ conf.ecn_ => t_seqno_ > maxseq_
  <2> SUFFICES ASSUME ~ conf.ecn_, t_seqno_ <= maxseq_ PROVE FALSE
    <3>1. t_seqno_ \in last_ack_ + 1 .. maxseq_ + 1 /\ last_ack_ \in -1 .. highest_ack_
      BY Handled
    <3> QED BY <1>1, <1>4, <3>1
  <2>1. maxseq_ <= recover_ /\ highest_ack_ # 0
    BY <1>2, Duplicated
  <2>2. highest_ack_ > recover_
    BY <1>1, <1>2, <2>1 DEF MayRecover
  <2> QED BY <1>1, <1>4, <2>1, <2>2
<1>6. highest_ack_ <= v.recover /\ (~ conf.ecn_ => v.recover = maxseq_ /\ t_seqno_ > maxseq_)
  BY <1>1, <1>3, <1>4, <1>5
<1> HIDE DEF v
<1> QED BY <1>2, <1>3, <1>6, RetransmitPreserves

(* The recovery ends where the cut for the mark said.                      *)
LEMMA EcnRetransmitPreserves ==
  ASSUME NEW R, NEW ack, NEW w, Receiving(ack, w, R), EcnRetransmit(ack, w)
  PROVE  Kept(R)
<1> DEFINE v == IF conf.dctcp_ THEN Halved(w, "dupack", w.recover)
                ELSE [w EXCEPT !.action = "dupack"]
<1>1. maxseq_ \in Nat /\ w \in WindowType /\ w.recover \in 0 .. maxseq_
  BY Reception DEF WindowType
<1>2. DuplicateAck(ack) /\ StartRecovery /\ SetWindow(v) /\ ~ MayRecover(w) /\ conf.ecn_
  BY DEF EcnRetransmit
<1>3. v \in WindowType /\ v.recover = w.recover
  <2>1. CASE conf.dctcp_
    <3>1. Halved(w, "dupack", w.recover) \in WindowType  BY <1>1, HalvedType
    <3>2. Halved(w, "dupack", w.recover).recover = w.recover  BY DEF Halved, Slowed
    <3> QED BY <2>1, <3>1, <3>2
  <2>2. CASE ~ conf.dctcp_
    BY <1>1, <2>2 DEF WindowType
  <2> QED BY <2>1, <2>2
<1>4. highest_ack_ \in 0 .. maxseq_ - 1
  BY <1>2, Duplicated
<1>5. highest_ack_ <= v.recover
  BY <1>1, <1>2, <1>3, <1>4 DEF MayRecover
<1> HIDE DEF v
<1> QED BY <1>2, <1>3, <1>5, RetransmitPreserves

(* The other duplicate ACKs send nothing.                                  *)
LEMMA CountDuplicatePreserves ==
  ASSUME NEW R, NEW ack, NEW w, Receiving(ack, w, R), CountDuplicate(ack, w)
  PROVE  Kept(R)
<1> DEFINE h == highest_ack_
           s == t_seqno_
<1>1. /\ maxseq_ \in Nat /\ w \in WindowType /\ curseq_ \in Nat /\ maxseq_ < curseq_
      /\ rtx_timer_ = TRUE
      /\ ~ conf.ecn_ => w.recover = recover_
  BY Reception
<1>2. DuplicateAck(ack) /\ SetWindow(w) /\ fastrecov_' = fastrecov_ /\ SendNothing
  BY DEF CountDuplicate
<1>3. /\ ~ fastrecov_ /\ ~ timeout_ /\ last_ack_ = h /\ h \in 0 .. maxseq_ - 1
      /\ highest_ack_' = h /\ last_ack_' = h /\ dupacks_' \in Nat /\ dupacks_' # 0
      /\ sacked' \subseteq R
      /\ UNCHANGED <<curseq_, wnd_init_, conf, timeout_, closed_>>
  BY <1>2, Duplicated
<1>4. /\ maxseq_' = maxseq_ /\ t_seqno_' = s /\ retran' = retran
      /\ pipe_' = pipe_ /\ rtx_timer_' = TRUE
      /\ BagToSet(data') \subseteq 0 .. maxseq_
  BY <1>1, <1>2, Handled, SentNothing
<1>5. s \in h + 1 .. maxseq_ + 1 /\ maxseq_ \in maxseq_ .. curseq_ - 1
  <2>1. s \in last_ack_ + 1 .. maxseq_ + 1  BY Handled
  <2> QED BY <1>1, <1>3, <2>1
<1>6. /\ pipe_' \in Int /\ fastrecov_' \in BOOLEAN /\ ~ fastrecov_'
      /\ timeout_' \in BOOLEAN /\ closed_' \in BOOLEAN
      /\ retran' \subseteq 0 .. maxseq_ /\ (closed_' => closed_)
  BY <1>2, <1>3, <1>4, Handled
<1>7. ~ conf.ecn_ /\ s <= maxseq_ => maxseq_ <= w.recover /\ h # 0
  BY <1>1, <1>2, Duplicated
<1>8. h \in 0 .. maxseq_ /\ h <= h /\ 0 .. h \subseteq R /\ h \in -1 .. h
  BY <1>1, <1>3, Handled
<1> HIDE DEF h, s
<1> QED BY <1>1, <1>2, <1>3, <1>4, <1>5, <1>6, <1>7, <1>8, Rebuild DEF h

(* What either branch of recovery sends, from the window it is left with.  *)
LEMMA RecoveringPreserves ==
  ASSUME NEW R, NEW ack, NEW w, Receiving(ack, w, R), fastrecov_, SetWindow(w),
         ack.seqno < w.recover,
         NEW h \in 0 .. maxseq_, highest_ack_' = h, highest_ack_ <= h, h <= w.recover,
         ~ conf.ecn_ => h < w.recover, 0 .. h \subseteq R,
         UNCHANGED <<curseq_, last_ack_, wnd_init_, fastrecov_, timeout_, closed_, conf>>,
         sacked' \subseteq R, dupacks_' \in Nat,
         NEW pipe \in Int, SendMuch(t_seqno_, pipe, retran, TRUE)
  PROVE  Kept(R)
<1> DEFINE l == last_ack_
           c == w.cwnd
<1>1. /\ maxseq_ \in Nat /\ w \in WindowType /\ curseq_ \in Nat /\ maxseq_ < curseq_
      /\ wnd_ \in Nat
  BY Reception
<1>2. /\ highest_ack_ \in -1 .. maxseq_ /\ l \in -1 .. highest_ack_
      /\ t_seqno_ \in l + 1 .. maxseq_ + 1 /\ c \in Nat /\ w.recover \in 0 .. maxseq_
  BY Handled
<1>3. l \in -1 .. h /\ l \in -1 .. maxseq_ /\ h \in l .. maxseq_
  BY <1>1, <1>2
<1>4. PICK m \in maxseq_ .. curseq_ - 1, s \in Int :
         /\ maxseq_' = m /\ t_seqno_' = s
         /\ t_seqno_ <= s /\ s <= m + 1
         /\ s <= m => m = maxseq_
         /\ rtx_timer_' = TRUE
         /\ pipe_' \in Int
         /\ retran' \subseteq 0 .. maxseq_
         /\ BagToSet(data') \subseteq 0 .. m
  <2>1. cwnd_' = c /\ last_ack_' = l
    BY DEF SetWindow
  <2>2. fastrecov_' \in BOOLEAN /\ retran \subseteq 0 .. maxseq_
        /\ BagToSet(data) \subseteq 0 .. maxseq_
    BY Handled
  <2>3. curseq_ \in Int /\ t_seqno_ \in Int /\ t_seqno_ >= l + 1 /\ t_seqno_ <= maxseq_ + 1
    BY <1>1, <1>2
  <2> HIDE DEF c, l
  <2> QED BY <1>1, <1>2, <1>3, <2>1, <2>2, <2>3, SendMuchLeaves
<1>5. s \in l + 1 .. m + 1
  BY <1>1, <1>2, <1>3, <1>4
<1>6. ~ timeout_ /\ (~ conf.ecn_ => t_seqno_ > maxseq_)
  <2>1. RecoveryIsSound  BY DEF Receiving, SenderInv
  <2> QED BY <1>1, <1>2, <2>1 DEF RecoveryIsSound, RecoveryHasAnEnd, BehindOnlyAfterTimeout
<1>7. ~ (~ conf.ecn_ /\ s <= m)
  BY <1>1, <1>2, <1>4, <1>6
<1>8. fastrecov_' \in BOOLEAN /\ timeout_' \in BOOLEAN /\ closed_' \in BOOLEAN
      /\ fastrecov_' /\ ~ timeout_' /\ (closed_' => closed_)
  BY <1>6, Handled
<1>9. last_ack_' = l
  OBVIOUS
<1> HIDE DEF l
<1> QED BY <1>1, <1>3, <1>4, <1>5, <1>7, <1>8, <1>9, Rebuild

(* A partial ACK is below the end of the recovery.                         *)
LEMMA PartialAckPreserves ==
  ASSUME NEW R, NEW ack, NEW w, Receiving(ack, w, R), PartialAck(ack, w)
  PROVE  Kept(R)
<1> DEFINE q == ack.seqno
           pipe == pipe_ - 2
<1>1. /\ maxseq_ \in Nat /\ q \in 0 .. maxseq_ /\ 0 .. q \subseteq R
      /\ ack.sacked \subseteq R
  BY Reception
<1>2. highest_ack_ \in -1 .. maxseq_ /\ w.recover \in 0 .. maxseq_ /\ pipe_ \in Int
      /\ dupacks_ \in Nat /\ sacked \subseteq R
  BY Handled
<1>3. fastrecov_ /\ q < w.recover /\ q > highest_ack_ /\ highest_ack_' = q /\ SetWindow(w)
      /\ UNCHANGED <<curseq_, last_ack_, dupacks_, wnd_init_, fastrecov_, timeout_, closed_, conf>>
  BY DEF PartialAck
<1>4. sacked' \subseteq R /\ dupacks_' \in Nat
  BY <1>1, <1>2, <1>3 DEF PartialAck, Reported
<1>5. SendMuch(t_seqno_, pipe, retran, TRUE)
  <2>1. SendMuch(t_seqno_, pipe, retran, NewTimer(q, t_seqno_))
    BY DEF PartialAck
  <2>2. NewTimer(q, t_seqno_) = TRUE
    BY <1>1, <1>2, <1>3 DEF NewTimer
  <2> QED BY <2>1, <2>2
<1>6. pipe \in Int /\ highest_ack_ <= q /\ q <= w.recover
  BY <1>1, <1>2, <1>3
<1> HIDE DEF pipe
<1> QED BY <1>1, <1>3, <1>4, <1>5, <1>6, RecoveringPreserves

(* A recovery has begun, so the SYN is acknowledged.                       *)
LEMMA RecoveryDupAckPreserves ==
  ASSUME NEW R, NEW ack, NEW w, Receiving(ack, w, R), RecoveryDupAck(ack, w)
  PROVE  Kept(R)
<1> DEFINE h == highest_ack_
           pipe == pipe_ - 1
<1>1. /\ maxseq_ \in Nat /\ ack.sacked \subseteq R /\ rtx_timer_ = TRUE
      /\ recover_ \in 0 .. maxseq_ /\ w.recover >= recover_
  BY Reception
<1>2. /\ h \in -1 .. maxseq_ /\ w.recover \in 0 .. maxseq_ /\ pipe_ \in Int
      /\ dupacks_ \in Nat /\ sacked \subseteq R /\ 0 .. h \subseteq R
  BY Handled
<1>3. fastrecov_ /\ ack.seqno < w.recover /\ highest_ack_' = h /\ SetWindow(w)
      /\ UNCHANGED <<curseq_, last_ack_, wnd_init_, fastrecov_, timeout_, closed_, conf>>
  BY DEF RecoveryDupAck
<1>4. sacked' \subseteq R /\ dupacks_' \in Nat
  <2>1. sacked' \subseteq R
    BY <1>1, <1>2 DEF RecoveryDupAck, Reported
  <2>2. dupacks_' = dupacks_ + (IF sacked' \subseteq sacked THEN 0 ELSE 1)
    BY DEF RecoveryDupAck
  <2>3. dupacks_' = dupacks_ + 0 \/ dupacks_' = dupacks_ + 1
    BY <2>2
  <2> QED BY <1>2, <2>1, <2>3
<1>5. SendMuch(t_seqno_, pipe, retran, TRUE)
  <2>1. SendMuch(t_seqno_, pipe, retran, rtx_timer_)
    BY DEF RecoveryDupAck
  <2> QED BY <1>1, <2>1
<1>6. pipe \in Int /\ h \in 0 .. maxseq_ /\ h <= h
  <2>1. h # -1
    BY <1>3 DEF Receiving, SenderInv, SynIsAlone
  <2> QED BY <1>1, <1>2, <2>1
<1>7. h <= w.recover /\ (~ conf.ecn_ => h < w.recover)
  <2>1. h <= recover_ /\ (~ conf.ecn_ => h < recover_)
    BY <1>3 DEF Receiving, SenderInv, RecoveryIsSound, RecoveryHasAnEnd
  <2> QED BY <1>1, <1>2, <2>1
<1> HIDE DEF pipe
<1> QED BY <1>1, <1>2, <1>3, <1>4, <1>5, <1>6, <1>7, RecoveringPreserves

(* One of the branches of recv.                                            *)
Handles(ack, w) ==
  \/ RecvNewAck(ack, w)
  \/ RecvNoNews(ack, w)
  \/ LimitedTransmit(ack, w)
  \/ FastRetransmit(ack, w)
  \/ EcnRetransmit(ack, w)
  \/ CountDuplicate(ack, w)
  \/ EndRecovery(ack, w)
  \/ PartialAck(ack, w)
  \/ RecoveryDupAck(ack, w)

(* Every branch of recv keeps the invariant.                               *)
LEMMA RecvPreserves ==
  ASSUME NEW R, NEW ack, NEW w, Receiving(ack, w, R), Handles(ack, w)
  PROVE  Kept(R)
BY NewAckPreserves, NoNewsPreserves, LimitedTransmitPreserves, FastRetransmitPreserves,
   EcnRetransmitPreserves, CountDuplicatePreserves, EndRecoveryPreserves,
   PartialAckPreserves, RecoveryDupAckPreserves DEF Handles

(* Where an ACK moves the ACK points.                                      *)
LEMMA RecvAdvances ==
  ASSUME NEW R, NEW ack, NEW w, Receiving(ack, w, R), Handles(ack, w)
  PROVE  highest_ack_' >= highest_ack_ /\ last_ack_' >= last_ack_
<1>1. /\ maxseq_ \in Nat /\ ack.seqno \in 0 .. maxseq_ /\ recover_ \in 0 .. maxseq_
      /\ w.recover >= recover_
  BY Reception
<1>2. /\ highest_ack_ \in -1 .. maxseq_ /\ last_ack_ \in -1 .. highest_ack_
      /\ w.recover \in 0 .. maxseq_
  BY Handled
<1>3. CASE RecvNewAck(ack, w)
  <2>1. last_ack_ = highest_ack_ /\ ack.seqno > last_ack_
    BY <1>3, Handled DEF RecvNewAck, IsNew
  <2>2. highest_ack_' = ack.seqno /\ last_ack_' = ack.seqno
    BY <1>3 DEF RecvNewAck, NewAck
  <2> QED BY <1>1, <1>2, <2>1, <2>2
<1>4. CASE UNCHANGED <<highest_ack_, last_ack_>>
  BY <1>2, <1>4
<1>5. CASE EndRecovery(ack, w)
  <2>1. fastrecov_ /\ ack.seqno >= w.recover
    BY <1>5 DEF EndRecovery
  <2>2. highest_ack_ <= recover_
    BY <2>1 DEF Receiving, SenderInv, RecoveryIsSound, RecoveryHasAnEnd
  <2>3. highest_ack_' = ack.seqno /\ last_ack_' = ack.seqno
    BY <1>5 DEF EndRecovery, NewAck
  <2> QED BY <1>1, <1>2, <2>1, <2>2, <2>3
<1>6. CASE PartialAck(ack, w)
  BY <1>1, <1>2, <1>6 DEF PartialAck
<1> QED
  BY <1>3, <1>4, <1>5, <1>6
  DEF Handles, RecvNoNews, LimitedTransmit, FastRetransmit, EcnRetransmit, CountDuplicate,
      DuplicateAck, RecoveryDupAck

-------------------------------------------------------------------------------
(* The other steps: of the application, of the timer, of the network.      *)

LEMMA BagLosesOne ==
  ASSUME NEW B, NEW x
  PROVE  BagToSet(B (-) SetToBag({x})) \subseteq BagToSet(B)
<1> DEFINE E == SetToBag({x})
<1>1. B (-) E = LET C == [e \in DOMAIN B |-> IF e \in DOMAIN E THEN B[e] - E[e] ELSE B[e]]
                IN [e \in {d \in DOMAIN C : C[d] > 0} |-> C[e]]
  BY DEF (-)
<1> QED BY <1>1 DEF BagToSet

(* A packet is sent.                                                       *)
LEMMA BagGainsOne ==
  ASSUME NEW B, NEW x
  PROVE  BagToSet(B (+) SetToBag({x})) = BagToSet(B) \union {x}
BY DEF BagToSet, SetToBag, (+)

(* The flow starts with its SYN.                                           *)
LEMMA SendMsgPreserves ==
  ASSUME NEW R, SenderInv, KnowsOnly(R), SendMsg
  PROVE  Kept(R)
<1>1. /\ curseq_ = 0 /\ curseq_' = conf.size + 1
      /\ Output({}, {0}, FALSE)
      /\ t_seqno_' = 1
      /\ UNCHANGED <<last_ack_, highest_ack_, dupacks_, windowVars, wnd_init_, fastrecov_, pipe_,
                     sacked, retran, timeout_, closed_, conf>>
  BY DEF SendMsg
<1>2. SenderTypeOK /\ RecoveryIsSound /\ SynIsAlone /\ ClosedIsAcked /\ RecoverIsSent
  BY DEF SenderInv
<1>3. conf.size \in Nat /\ conf.size >= 1
  BY <1>2, SenderAssumption DEF SenderTypeOK, AllSettings
<1>4. maxseq_ = -1 /\ highest_ack_ = -1 /\ last_ack_ = -1
  BY <1>1, <1>2, <1>3 DEF SenderTypeOK
<1>5. ~ fastrecov_ /\ ~ closed_ /\ cwnd_ = 1
  BY <1>1, <1>2, <1>4 DEF SynIsAlone, ClosedIsAcked
<1>6. sacked = {} /\ retran = {} /\ BagToSet(data) = {}
  BY <1>2, <1>4 DEF SenderTypeOK
<1>7. maxseq_' = 0
  <2> DEFINE S == {maxseq_} \union {} \union {0}
  <2>1. S \in SUBSET Int /\ 0 \in S /\ \A x \in S : x <= 0
    BY <1>4
  <2>2. Max(S) = 0
    BY <2>1, MaxIs
  <2> QED BY <1>1, <2>2 DEF Output
<1>8. rtx_timer_' = TRUE
  BY <1>1 DEF Output
<1>9. BagToSet(data') \subseteq {0}
  BY <1>1, <1>6 DEF Output, BagToSet, SetToBag, (+)
<1>10. SenderTypeOK'
  <2> USE DEF windowVars
  <2>1. /\ conf' \in Settings
        /\ curseq_' \in {0, conf'.size + 1}
        /\ maxseq_' \in -1 .. conf'.size /\ maxseq_' < curseq_'
    BY <1>1, <1>2, <1>3, <1>7 DEF SenderTypeOK
  <2>2. /\ highest_ack_' \in -1 .. maxseq_' /\ last_ack_' \in -1 .. highest_ack_'
        /\ t_seqno_' \in last_ack_' + 1 .. maxseq_' + 1
        /\ dupacks_' \in Nat /\ pipe_' \in Int
    BY <1>1, <1>2, <1>4, <1>7 DEF SenderTypeOK
  <2>3. /\ cwnd_' \in 1 .. maxcwnd_ /\ ssthresh_' \in 2 .. wnd_ /\ wnd_init_' \in 1 .. 2
        /\ last_cwnd_action_' \in {"none", "ecn", "dupack", "timeout"}
        /\ recover_' \in 0 .. conf'.size
    BY <1>1, <1>2 DEF SenderTypeOK
  <2>4. fastrecov_' \in BOOLEAN /\ timeout_' \in BOOLEAN /\ closed_' \in BOOLEAN
    BY <1>1, <1>2 DEF SenderTypeOK
  <2>5. rtx_timer_' = (maxseq_' # -1)
    <3>1. maxseq_' # -1  BY <1>7
    <3> QED BY <1>8, <3>1
  <2>6. /\ sacked' \subseteq 0 .. maxseq_' /\ retran' \subseteq 0 .. maxseq_'
        /\ BagToSet(data') \subseteq 0 .. maxseq_'
    BY <1>1, <1>6, <1>7, <1>9
  <2> QED BY <2>1, <2>2, <2>3, <2>4, <2>5, <2>6 DEF SenderTypeOK
<1>11. RecoveryIsSound'
  <2> USE DEF windowVars
  <2>1. ~ fastrecov_'  BY <1>1, <1>5
  <2>2. EmptyOutsideRecovery'
    BY <1>1, <1>4, <1>6 DEF EmptyOutsideRecovery
  <2>3. BehindOnlyAfterTimeout'
    BY <1>1, <1>7 DEF BehindOnlyAfterTimeout
  <2> QED BY <2>1, <2>2, <2>3 DEF RecoveryIsSound, RecoveryHasAnEnd
<1>12. KnowsOnly(R)' /\ maxseq_ <= maxseq_'
  BY <1>1, <1>4, <1>7 DEF KnowsOnly
<1>13. SynIsAlone' /\ ClosedIsAcked'
  BY <1>1, <1>4, <1>5, <1>7 DEF SynIsAlone, ClosedIsAcked, windowVars
<1>14. RecoverIsSent'
  BY <1>1, <1>2, <1>4, <1>7 DEF RecoverIsSent, windowVars, SenderTypeOK
<1> QED BY <1>10, <1>11, <1>12, <1>13, <1>14 DEF SenderInv, Kept

(* The timer expires: send_much starts again after highest_ack_.           *)
LEMMA TimeoutPreserves ==
  ASSUME NEW R, SenderInv, KnowsOnly(R), Timeout
  PROVE  Kept(R)
<1> DEFINE h == highest_ack_
           t == h + 1
           c == TimedOutWindow
<1>1. SenderTypeOK /\ SynIsAlone /\ ClosedIsAcked
  BY DEF SenderInv
<1>2. /\ rtx_timer_ /\ dupacks_' = 0 /\ fastrecov_' = FALSE /\ timeout_' = TRUE
      /\ last_ack_' = h /\ highest_ack_' = h /\ sacked' = {}
      /\ wnd_init_' = (IF h = -1 THEN 1 ELSE wnd_init_)
      /\ cwnd_' = c /\ ssthresh_' = TimedOutThresh /\ last_cwnd_action_' = "timeout"
      /\ recover_' = maxseq_
      /\ curseq_' = curseq_ /\ closed_' = closed_ /\ conf' = conf
  BY DEF Timeout, TimeoutFrom, SetWindow
<1>3. SendMuch(t, 0, {}, TRUE)
  BY DEF Timeout, TimeoutFrom
<1>4. conf.size \in Nat /\ conf.size >= 1 /\ maxcwnd_ \in Nat /\ maxcwnd_ >= 2 /\ wnd_ \in Nat
      /\ wnd_ >= maxcwnd_
  BY <1>1, SenderAssumption DEF SenderTypeOK, AllSettings
<1>5. maxseq_ \in Nat /\ maxseq_ <= conf.size /\ curseq_ = conf.size + 1 /\ h \in -1 .. maxseq_
  <2>1. maxseq_ # -1  BY <1>1, <1>2 DEF SenderTypeOK
  <2> QED BY <1>1, <1>4, <2>1 DEF SenderTypeOK
<1>6. c \in 1 .. maxcwnd_ /\ TimedOutThresh \in 2 .. wnd_
  <2> DEFINE n == window(cwnd_)
  <2>1. cwnd_ \in 1 .. maxcwnd_ /\ ssthresh_ \in 2 .. wnd_  BY <1>1 DEF SenderTypeOK
  <2>2. n \in 0 .. wnd_  BY <1>4, <2>1 DEF window, AtMost
  <2>3. n \div 2 \in 0 .. n  BY <2>2, <1>4, HalfIsSmaller
  <2>4. TimedOutThresh \in {ssthresh_, AtLeast(n \div 2, 2)}
    BY DEF TimedOutThresh
  <2> HIDE DEF n
  <2>5. AtLeast(n \div 2, 2) \in 2 .. wnd_
    BY <1>4, <2>2, <2>3 DEF AtLeast
  <2>6. c \in {cwnd_, 1}  BY DEF TimedOutWindow
  <2> HIDE DEF c
  <2> QED BY <1>4, <2>1, <2>4, <2>5, <2>6
<1> HIDE DEF h, t, c
<1>7. PICK m \in maxseq_ .. curseq_ - 1, s \in Int :
         /\ maxseq_' = m /\ t_seqno_' = s
         /\ t <= s /\ s <= m + 1
         /\ s <= m => m = maxseq_
         /\ m <= AtLeast(maxseq_, h + c)
         /\ retran' = {}
         /\ rtx_timer_' = TRUE
         /\ pipe_' \in Int
         /\ BagToSet(data') \subseteq 0 .. m
  <2>1. BagToSet(data) \subseteq 0 .. maxseq_
    BY <1>1 DEF SenderTypeOK
  <2>2. /\ h \in -1 .. maxseq_ /\ h \in h .. maxseq_ /\ c \in Nat /\ curseq_ \in Int
        /\ maxseq_ < curseq_ /\ {} \subseteq 0 .. maxseq_ /\ 0 \in Int
        /\ t \in Int /\ t >= h + 1 /\ t <= maxseq_ + 1
    BY <1>4, <1>5, <1>6 DEF t
  <2>3. fastrecov_' \in BOOLEAN /\ ~ fastrecov_'
    BY <1>2
  <2>4. /\ maxseq_ \in Nat /\ wnd_ \in Nat /\ last_ack_' = h /\ highest_ack_' = h /\ cwnd_' = c
    BY <1>2, <1>4, <1>5
  <2>5. \E m \in maxseq_ .. curseq_ - 1, s \in Int :
           /\ maxseq_' = m /\ t_seqno_' = s
           /\ t <= s /\ s <= m + 1
           /\ s <= m => m = maxseq_
           /\ ~ fastrecov_' => m <= AtLeast(maxseq_, h + c) /\ retran' = {}
           /\ rtx_timer_' = TRUE
           /\ pipe_' \in Int
           /\ retran' \subseteq 0 .. maxseq_
           /\ BagToSet(data') \subseteq 0 .. m
    BY <1>3, <2>1, <2>2, <2>3, <2>4, SendMuchLeaves
  <2> QED BY Zenon, <2>3, <2>5
<1>8. m \in Nat /\ m <= conf.size /\ m >= maxseq_ /\ s \in h + 1 .. m + 1
  BY <1>4, <1>5, <1>7 DEF t
<1>9. SenderTypeOK'
  <2>1. conf' \in Settings /\ curseq_' \in {0, conf'.size + 1}
    BY <1>1, <1>2 DEF SenderTypeOK
  <2>2. maxseq_' \in -1 .. conf'.size /\ maxseq_' < curseq_'
    BY <1>2, <1>5, <1>7, <1>8
  <2>3. highest_ack_' \in -1 .. maxseq_' /\ last_ack_' \in -1 .. highest_ack_'
        /\ t_seqno_' \in last_ack_' + 1 .. maxseq_' + 1
    BY <1>2, <1>5, <1>7, <1>8
  <2>4. /\ cwnd_' \in 1 .. maxcwnd_ /\ ssthresh_' \in 2 .. wnd_
        /\ last_cwnd_action_' \in {"none", "ecn", "dupack", "timeout"}
    BY <1>2, <1>6
  <2>5. wnd_init_' \in 1 .. 2
    BY <1>1, <1>2 DEF SenderTypeOK
  <2>6. recover_' \in 0 .. conf'.size /\ dupacks_' \in Nat
    BY <1>2, <1>4, <1>5, <1>7, <1>8
  <2>7. fastrecov_' \in BOOLEAN /\ timeout_' \in BOOLEAN /\ closed_' \in BOOLEAN
    BY <1>1, <1>2 DEF SenderTypeOK
  <2>8. sacked' \subseteq 0 .. maxseq_' /\ retran' \subseteq 0 .. maxseq_'
        /\ BagToSet(data') \subseteq 0 .. maxseq_'
    BY <1>2, <1>7
  <2>9. rtx_timer_' = (maxseq_' # -1)
    <3>1. maxseq_' # -1  BY <1>7, <1>8
    <3>2. rtx_timer_' = TRUE  BY <1>7
    <3> QED BY <3>1, <3>2
  <2> QED BY <1>7, <2>1, <2>2, <2>3, <2>4, <2>5, <2>6, <2>7, <2>8, <2>9 DEF SenderTypeOK
<1>10. RecoveryIsSound'
  <2>1. EmptyOutsideRecovery'
    BY <1>2, <1>7 DEF EmptyOutsideRecovery
  <2>2. RecoveryHasAnEnd'
    BY <1>2 DEF RecoveryHasAnEnd
  <2>3. s <= m => m <= maxseq_
    BY <1>5, <1>7
  <2>4. BehindOnlyAfterTimeout'
    BY <1>2, <1>7, <2>3 DEF BehindOnlyAfterTimeout
  <2> QED BY <2>1, <2>2, <2>4 DEF RecoveryIsSound
<1>11. KnowsOnly(R)' /\ maxseq_ <= maxseq_'
  BY <1>2, <1>5, <1>7, <1>8 DEF KnowsOnly, h
<1>12. ClosedIsAcked'
  BY <1>1, <1>2 DEF ClosedIsAcked, h
<1>13. SynIsAlone'
  <2> SUFFICES ASSUME h = -1 PROVE m <= 0 /\ c = 1
    BY <1>2, <1>7 DEF SynIsAlone
  <2>1. maxseq_ <= 0 /\ cwnd_ = 1
    BY <1>1 DEF SynIsAlone, h
  <2>2. c = 1
    BY <2>1 DEF c, TimedOutWindow
  <2> QED BY <1>5, <1>7, <2>1, <2>2 DEF AtLeast
<1>14. RecoverIsSent'
  BY <1>2, <1>7, <1>8 DEF RecoverIsSent
<1> QED BY <1>9, <1>10, <1>11, <1>12, <1>13, <1>14 DEF SenderInv, Kept

(* A step of the network: the sender does nothing.                         *)
LEMMA NetworkPreserves ==
  ASSUME SenderInv,
         UNCHANGED <<curseq_, t_seqno_, maxseq_, last_ack_, highest_ack_, dupacks_, windowVars,
                     wnd_init_, fastrecov_, pipe_, sacked, retran, timeout_, rtx_timer_, closed_,
                     conf>>,
         BagToSet(data') \subseteq BagToSet(data)
  PROVE  SenderInv'
<1> USE DEF windowVars
<1>1. SenderTypeOK'
  <2> USE DEF SenderInv, SenderTypeOK
  <2>1. /\ conf' \in Settings
        /\ curseq_' \in {0, conf'.size + 1}
        /\ maxseq_' \in -1 .. conf'.size /\ maxseq_' < curseq_'
    OBVIOUS
  <2>2. /\ highest_ack_' \in -1 .. maxseq_' /\ last_ack_' \in -1 .. highest_ack_'
        /\ t_seqno_' \in last_ack_' + 1 .. maxseq_' + 1
        /\ dupacks_' \in Nat /\ pipe_' \in Int
    OBVIOUS
  <2>3. /\ cwnd_' \in 1 .. maxcwnd_ /\ ssthresh_' \in 2 .. wnd_ /\ wnd_init_' \in 1 .. 2
        /\ last_cwnd_action_' \in {"none", "ecn", "dupack", "timeout"}
        /\ recover_' \in 0 .. conf'.size
    OBVIOUS
  <2>4. fastrecov_' \in BOOLEAN /\ timeout_' \in BOOLEAN /\ closed_' \in BOOLEAN
        /\ rtx_timer_' = (maxseq_' # -1)
    OBVIOUS
  <2>5. /\ sacked' \subseteq 0 .. maxseq_' /\ retran' \subseteq 0 .. maxseq_'
        /\ BagToSet(data') \subseteq 0 .. maxseq_'
    OBVIOUS
  <2> QED BY <2>1, <2>2, <2>3, <2>4, <2>5
<1>2. RecoveryIsSound'
  BY DEF SenderInv, RecoveryIsSound, EmptyOutsideRecovery, RecoveryHasAnEnd, BehindOnlyAfterTimeout
<1>3. SynIsAlone' /\ RecoverIsSent' /\ ClosedIsAcked'
  BY DEF SenderInv, SynIsAlone, RecoverIsSent, ClosedIsAcked
<1> QED BY <1>1, <1>2, <1>3 DEF SenderInv

(* A flow that has not started.                                            *)
LEMMA InitSenderInv == SenderInit => SenderInv
<1> SUFFICES ASSUME SenderInit PROVE SenderInv
  OBVIOUS
<1> USE DEF SenderInit
<1>1. BagToSet(data) = {}
  BY DEF BagToSet, EmptyBag, SetToBag
<1>2. conf.size \in Nat /\ maxcwnd_ \in Nat /\ maxcwnd_ >= 2 /\ wnd_ \in Nat /\ wnd_ >= 2
  BY SenderAssumption DEF AllSettings
<1>4. rtx_timer_ = (maxseq_ # -1)
  OBVIOUS
<1>5. SenderTypeOK
  <2>1. /\ conf \in Settings
        /\ curseq_ \in {0, conf.size + 1}
        /\ maxseq_ \in -1 .. conf.size /\ maxseq_ < curseq_
    BY <1>2
  <2>2. /\ highest_ack_ \in -1 .. maxseq_ /\ last_ack_ \in -1 .. highest_ack_
        /\ t_seqno_ \in last_ack_ + 1 .. maxseq_ + 1
        /\ dupacks_ \in Nat /\ pipe_ \in Int
    OBVIOUS
  <2>3. /\ cwnd_ \in 1 .. maxcwnd_ /\ ssthresh_ \in 2 .. wnd_ /\ wnd_init_ \in 1 .. 2
        /\ last_cwnd_action_ \in {"none", "ecn", "dupack", "timeout"}
        /\ recover_ \in 0 .. conf.size
    BY <1>2
  <2>4. fastrecov_ \in BOOLEAN /\ timeout_ \in BOOLEAN /\ closed_ \in BOOLEAN
    OBVIOUS
  <2>5. /\ sacked \subseteq 0 .. maxseq_ /\ retran \subseteq 0 .. maxseq_
        /\ BagToSet(data) \subseteq 0 .. maxseq_
    BY <1>1
  <2> QED BY <1>4, <2>1, <2>2, <2>3, <2>4, <2>5 DEF SenderTypeOK
<1>6. RecoveryIsSound
  BY DEF RecoveryIsSound, EmptyOutsideRecovery, RecoveryHasAnEnd, BehindOnlyAfterTimeout
<1>7. SynIsAlone /\ RecoverIsSent /\ ClosedIsAcked
  BY DEF SynIsAlone, RecoverIsSent, ClosedIsAcked
<1> QED BY <1>5, <1>6, <1>7 DEF SenderInv

-------------------------------------------------------------------------------
(* The bag of segments that are sent.                                      *)

(* A packet leaves a bag.                                                  *)
LEMMA BagMinus ==
  ASSUME NEW B, IsABag(B), NEW x, NEW C, C = B (-) SetToBag({x})
  PROVE  /\ IsABag(C)
         /\ \A s \in BagToSet(C) : s \in BagToSet(B) /\ C[s] <= B[s]
<1> DEFINE E == SetToBag({x})
           D == [e \in DOMAIN B |-> IF e \in DOMAIN E THEN B[e] - E[e] ELSE B[e]]
<1>1. C = [e \in {d \in DOMAIN D : D[d] > 0} |-> D[e]]
  BY DEF (-)
<1>2. \A e \in DOMAIN E : E[e] = 1
  BY DEF SetToBag
<1>3. \A e \in DOMAIN B : B[e] \in Nat
  BY DEF IsABag
<1>4. \A e \in DOMAIN D : D[e] \in Int /\ D[e] <= B[e]
  BY <1>2, <1>3
<1> HIDE DEF D, E
<1>5. DOMAIN C \subseteq DOMAIN D /\ \A e \in DOMAIN C : C[e] = D[e] /\ D[e] > 0
  BY <1>1
<1>6. \A e \in DOMAIN C : C[e] \in Nat /\ C[e] > 0
  BY <1>4, <1>5
<1>7. C = [e \in DOMAIN C |-> C[e]]
  BY <1>1
<1>8. IsABag(C)
  BY <1>6, <1>7 DEF IsABag
<1>9. DOMAIN D = DOMAIN B
  BY DEF D
<1> QED BY <1>4, <1>5, <1>8, <1>9 DEF BagToSet

(* Packets enter it.                                                       *)
LEMMA BagPlus ==
  ASSUME NEW B, IsABag(B), NEW S, NEW C, C = B (+) SetToBag(S)
  PROVE  /\ IsABag(C)
         /\ \A s \in BagToSet(C) : s \notin S => s \in BagToSet(B) /\ C[s] = B[s]
         /\ \A s \in BagToSet(B) \union S : s \in BagToSet(C)
         /\ \A s \in BagToSet(B) : C[s] >= B[s] /\ (s \in S => C[s] > B[s])
<1> DEFINE E == SetToBag(S)
<1>1. C = [e \in DOMAIN B \union DOMAIN E |->
             (IF e \in DOMAIN B THEN B[e] ELSE 0) + (IF e \in DOMAIN E THEN E[e] ELSE 0)]
  BY DEF (+)
<1>2. DOMAIN E = S /\ \A e \in S : E[e] = 1
  BY DEF SetToBag
<1>3. \A e \in DOMAIN B : B[e] \in Nat /\ B[e] > 0
  BY DEF IsABag
<1> HIDE DEF E
<1>4. DOMAIN C = DOMAIN B \union S
  BY <1>1, <1>2
<1>5. \A e \in DOMAIN C : C[e] \in Nat /\ C[e] > 0
  BY <1>1, <1>2, <1>3
<1>6. C = [e \in DOMAIN C |-> C[e]]
  BY <1>1
<1>7. IsABag(C)
  BY <1>5, <1>6 DEF IsABag
<1>8. ASSUME NEW s \in DOMAIN C, s \notin S PROVE s \in DOMAIN B /\ C[s] = B[s]
  BY <1>1, <1>2, <1>3, <1>4, <1>8
<1>9. \A s \in DOMAIN B : C[s] >= B[s] /\ (s \in S => C[s] > B[s])
  BY <1>1, <1>2, <1>3
<1> QED BY <1>4, <1>7, <1>8, <1>9 DEF BagToSet

(* output() adds to the bag what it sends, and nothing else.               *)
LEMMA OutputBag ==
  ASSUME IsABag(data), NEW resent, NEW fresh, NEW t, Output(resent, fresh, t)
  PROVE  /\ IsABag(data')
         /\ \A s \in BagToSet(data') :
              s \notin resent \union fresh => s \in BagToSet(data) /\ data'[s] = data[s]
         /\ \A s \in resent \union fresh :
              s \in BagToSet(data') /\ (s \in BagToSet(data) => data'[s] > data[s])
         /\ \A s \in BagToSet(data) : s \in BagToSet(data') /\ data'[s] >= data[s]
<1>1. PICK B : B = data (+) SetToBag(resent)
  OBVIOUS
<1>2. /\ IsABag(B)
      /\ \A s \in BagToSet(B) : s \notin resent => s \in BagToSet(data) /\ B[s] = data[s]
      /\ \A s \in BagToSet(data) \union resent : s \in BagToSet(B)
      /\ \A s \in BagToSet(data) : B[s] >= data[s] /\ (s \in resent => B[s] > data[s])
  BY <1>1, BagPlus
<1>3. data' = B (+) SetToBag(fresh)
  BY <1>1 DEF Output
<1>4. /\ IsABag(data')
      /\ \A s \in BagToSet(data') : s \notin fresh => s \in BagToSet(B) /\ data'[s] = B[s]
      /\ \A s \in BagToSet(B) \union fresh : s \in BagToSet(data')
      /\ \A s \in BagToSet(B) : data'[s] >= B[s] /\ (s \in fresh => data'[s] > B[s])
  BY <1>2, <1>3, BagPlus
<1>5. ASSUME NEW s \in BagToSet(data'), s \notin resent \union fresh
      PROVE  s \in BagToSet(data) /\ data'[s] = data[s]
  BY <1>2, <1>4, <1>5
<1>6. ASSUME NEW s \in resent \union fresh, s \in BagToSet(data)
      PROVE  data'[s] > data[s]
  <2>1. s \in BagToSet(B) /\ s \in BagToSet(data')
    BY <1>2, <1>4, <1>6
  <2>2. data[s] \in Nat /\ B[s] \in Nat /\ data'[s] \in Nat
    BY <1>2, <1>4, <1>6, <2>1 DEF IsABag, BagToSet
  <2>3. B[s] >= data[s] /\ data'[s] >= B[s]
    BY <1>2, <1>4, <1>6, <2>1
  <2>4. B[s] > data[s] \/ data'[s] > B[s]
    BY <1>2, <1>4, <1>6, <2>1
  <2> QED BY <2>2, <2>3, <2>4
<1>7. ASSUME NEW s \in BagToSet(data)
      PROVE  s \in BagToSet(data') /\ data'[s] >= data[s]
  <2>1. s \in BagToSet(B) /\ s \in BagToSet(data')
    BY <1>2, <1>4, <1>7
  <2>2. data[s] \in Nat /\ B[s] \in Nat /\ data'[s] \in Nat
    BY <1>2, <1>4, <1>7, <2>1 DEF IsABag, BagToSet
  <2>3. B[s] >= data[s] /\ data'[s] >= B[s]
    BY <1>2, <1>4, <1>7, <2>1
  <2> QED BY <2>1, <2>2, <2>3
<1> QED BY <1>2, <1>4, <1>5, <1>6, <1>7

(* Every branch of recv, and the other steps of the sender, end with       *)
(* output(), or with none.                                                 *)
Outputs == \E resent, fresh, t : Output(resent, fresh, t)

LEMMA SendMuchOutputs ==
  ASSUME NEW t, NEW pipe, NEW marked, NEW timer, SendMuch(t, pipe, marked, timer)
  PROVE  Outputs
BY DEF SendMuch, Outputs

LEMMA HandlesOutputs ==
  ASSUME NEW ack, NEW w, Handles(ack, w)
  PROVE  Outputs
<1>1. CASE RecvNewAck(ack, w)
  BY <1>1, SendMuchOutputs DEF RecvNewAck, SendAfterNewAck
<1>2. CASE RecvNoNews(ack, w)
  BY <1>2, SendMuchOutputs DEF RecvNoNews, SendNothing, Outputs
<1>3. CASE LimitedTransmit(ack, w)
  BY <1>3 DEF LimitedTransmit, Outputs
<1>4. CASE FastRetransmit(ack, w)
  BY <1>4 DEF FastRetransmit, StartRecovery, Outputs
<1>5. CASE EcnRetransmit(ack, w)
  BY <1>5 DEF EcnRetransmit, StartRecovery, Outputs
<1>6. CASE CountDuplicate(ack, w)
  BY <1>6 DEF CountDuplicate, SendNothing, Outputs
<1>7. CASE EndRecovery(ack, w)
  BY <1>7, SendMuchOutputs DEF EndRecovery, SendAfterNewAck
<1>8. CASE PartialAck(ack, w)
  BY <1>8, SendMuchOutputs DEF PartialAck
<1>9. CASE RecoveryDupAck(ack, w)
  BY <1>9, SendMuchOutputs DEF RecoveryDupAck
<1> QED BY <1>1, <1>2, <1>3, <1>4, <1>5, <1>6, <1>7, <1>8, <1>9 DEF Handles

-------------------------------------------------------------------------------
(* The numbers that are sent.                                              *)

(* A step sends the holes of resent, and the segments from k up to the new *)
(* t_seqno_.                                                               *)
Sends(resent, k) ==
  /\ \E timer : Output(resent, k .. t_seqno_' - 1, timer)
  /\ k \in Int /\ t_seqno_' \in Int /\ k <= t_seqno_'
  /\ resent \subseteq 0 .. maxseq_

LEMMA SendMuchSends ==
  ASSUME NEW t \in Int, NEW pipe \in Int, NEW marked, NEW timer,
         maxseq_ \in Int, curseq_ \in Int, wnd_ \in Int, SendMuch(t, pipe, marked, timer),
         NEW c \in Int, cwnd_' = c, NEW l \in Int, last_ack_' = l,
         NEW h \in Int, highest_ack_' = h, h >= -1
  PROVE  \E resent, k :
           /\ Sends(resent, k) /\ k >= t /\ k <= AtLeast(t, maxseq_ + 1)
           /\ resent \subseteq Holes(marked)
           /\ retran' = marked \union resent
           /\ ~ fastrecov_' => resent = {} /\ k = t
<1> DEFINE room   == c - pipe
           holes  == IF fastrecov_' THEN Holes(marked) ELSE {}
           resent == IF recover_' > 0 THEN FirstOf(room, holes) ELSE {}
           first  == FirstAfter(t, resent)
           last   == IF fastrecov_'
                     THEN AtMost(h + wnd_, first + room - Cardinality(resent) - 1)
                     ELSE l + window(c)
           fresh  == IF resent = holes THEN first .. AtMost(last, curseq_ - 1) ELSE {}
<1>1. /\ Output(resent, fresh, timer) /\ t_seqno_' = first + Cardinality(fresh)
      /\ retran' = marked \union resent
  BY DEF SendMuch, FirstAfter
<1>2. resent \subseteq holes /\ holes \subseteq Holes(marked) /\ (~ fastrecov_' => holes = {})
  BY DEF FirstOf
<1>3. Holes(marked) \subseteq 0 .. maxseq_
  <2>1. Holes(marked) \subseteq h + 1 .. maxseq_
    BY DEF Holes
  <2> QED BY <2>1
<1>4. resent \subseteq 0 .. maxseq_ /\ Cardinality(resent) \in Nat
  <2>1. resent \subseteq 0 .. maxseq_
    BY <1>2, <1>3
  <2>2. IsFiniteSet(0 .. maxseq_)
    BY FS_Interval
  <2> QED BY <2>1, <2>2, FS_Subset, FS_CardinalityType
<1> HIDE DEF resent, holes
<1>0. /\ first \in Int /\ first >= t /\ first <= AtLeast(t, maxseq_ + 1)
      /\ ~ fastrecov_' => resent = {} /\ first = t
  BY <1>2, <1>4, FirstAfterIs
<1> HIDE DEF first
<1>5. last \in Int
  BY <1>0, <1>4 DEF AtMost, window
<1> HIDE DEF last
<1>6. PICK top \in Int : fresh = first .. top /\ top >= first - 1
  <2>1. AtMost(last, curseq_ - 1) \in Int
    BY <1>5 DEF AtMost
  <2>2. CASE resent = holes /\ AtMost(last, curseq_ - 1) >= first
    BY <1>0, <2>1, <2>2
  <2>3. CASE ~ (resent = holes /\ AtMost(last, curseq_ - 1) >= first)
    <3>1. fresh = {} /\ first .. (first - 1) = {}
      BY <1>0, <2>1, <2>3
    <3> HIDE DEF fresh
    <3>2. fresh = first .. (first - 1)
      BY <3>1
    <3>3. PICK top : top = first - 1
      OBVIOUS
    <3>4. top \in Int /\ top >= first - 1
      BY <1>0, <3>3
    <3> QED BY <3>2, <3>3, <3>4
  <2> QED BY <2>2, <2>3
<1>7. Cardinality(first .. top) = top - first + 1
  BY <1>0, <1>6, FS_Interval
<1> HIDE DEF fresh
<1>8. t_seqno_' = top + 1
  BY <1>0, <1>1, <1>6, <1>7
<1>9. fresh = first .. t_seqno_' - 1
  BY <1>6, <1>8
<1>10. Sends(resent, first)
  BY <1>0, <1>1, <1>4, <1>6, <1>8, <1>9 DEF Sends
<1> QED BY <1>0, <1>1, <1>2, <1>10

(* What an ACK sends lies from the next segment on, but for the holes of a *)
(* recovery and the segment that starts it.                                *)
AnswersWith(resent, k) ==
  /\ Sends(resent, k) /\ k >= t_seqno_ /\ k <= maxseq_ + 1
  /\ retran' \ retran \subseteq resent
  /\ ~ fastrecov_ /\ ~ fastrecov_' => resent = {}
  /\ ~ fastrecov_ /\ fastrecov_' => resent # {}

LEMMA HandlesSends ==
  ASSUME NEW R, NEW ack, NEW w, Receiving(ack, w, R), Handles(ack, w)
  PROVE  \E resent, k : AnswersWith(resent, k)
<1>1. maxseq_ \in Nat /\ curseq_ \in Nat /\ wnd_ \in Nat /\ ack.seqno \in 0 .. maxseq_
  BY Reception
<1>2. /\ highest_ack_ \in -1 .. maxseq_ /\ last_ack_ \in -1 .. highest_ack_
      /\ t_seqno_ \in last_ack_ + 1 .. maxseq_ + 1 /\ pipe_ \in Int
  BY Handled
<1>3. PICK c, l, h : c = cwnd_' /\ l = last_ack_' /\ h = highest_ack_'
  OBVIOUS
<1>4. c \in Int /\ l \in Int /\ h \in Int /\ h >= -1 /\ fastrecov_' \in BOOLEAN
  <2>1. Kept(R)
    BY RecvPreserves
  <2>2. /\ c \in 1 .. maxcwnd_ /\ h \in -1 .. maxseq_' /\ l \in -1 .. h
        /\ fastrecov_' \in BOOLEAN
    BY <1>3, <2>1 DEF Kept, SenderInv, SenderTypeOK
  <2> QED BY <2>2
<1>5. ASSUME NEW t \in Int, t >= t_seqno_, t <= maxseq_ + 1, fastrecov_' => fastrecov_,
             NEW pipe \in Int, NEW marked, marked \subseteq retran, NEW timer,
             SendMuch(t, pipe, marked, timer)
      PROVE  \E resent, k : AnswersWith(resent, k)
  <2>1. PICK resent, k : /\ Sends(resent, k) /\ k >= t /\ k <= AtLeast(t, maxseq_ + 1)
                         /\ retran' = marked \union resent
                         /\ ~ fastrecov_' => resent = {}
    BY <1>1, <1>3, <1>4, <1>5, SendMuchSends
  <2>2. retran' \ retran \subseteq resent
    BY <1>5, <2>1
  <2>3. k \in Int /\ k >= t_seqno_ /\ k <= maxseq_ + 1
    <3>1. k \in Int /\ t_seqno_ \in Int
      BY <1>2, <2>1 DEF Sends
    <3> QED BY <1>1, <1>5, <2>1, <3>1 DEF AtLeast
  <2> QED BY <1>5, <2>1, <2>2, <2>3 DEF AnswersWith
<1>6. t_seqno_ \in Int /\ t_seqno_ >= t_seqno_ /\ t_seqno_ <= maxseq_ + 1
      /\ t_seqno_ .. (t_seqno_ - 1) = {}
  BY <1>1, <1>2
<1>7. PICK t : t = AtLeast(t_seqno_, ack.seqno + 1) /\ t \in Int
               /\ t >= t_seqno_ /\ t <= maxseq_ + 1
  BY <1>1, <1>6 DEF AtLeast
<1>8. ASSUME SendNothing, fastrecov_' = fastrecov_ PROVE AnswersWith({}, t_seqno_)
  BY <1>2, <1>6, <1>8 DEF SendNothing, Sends, AnswersWith
<1>9. CASE RecvNewAck(ack, w) \/ EndRecovery(ack, w)
  <2>1. SendMuch(t, 0, {}, NewTimer(ack.seqno, t)) /\ (fastrecov_' => fastrecov_)
    BY <1>7, <1>9 DEF RecvNewAck, EndRecovery, SendAfterNewAck
  <2>2. {} \subseteq retran /\ 0 \in Int
    OBVIOUS
  <2> QED BY <1>5, <1>7, <2>1, <2>2
<1>10. CASE RecvNoNews(ack, w)
  <2>1. CASE SendNothing
    BY <1>8, <1>10, <2>1 DEF RecvNoNews
  <2>2. CASE SendMuch(t_seqno_, pipe_, retran, rtx_timer_)
    BY <1>2, <1>5, <1>6, <1>10, <2>2 DEF RecvNoNews
  <2> QED BY <1>10, <2>1, <2>2 DEF RecvNoNews
<1>11. CASE LimitedTransmit(ack, w)
  <2>1. Output({}, {t_seqno_}, rtx_timer_) /\ t_seqno_' = t_seqno_ + 1
    BY <1>11 DEF LimitedTransmit
  <2>2. {t_seqno_} = t_seqno_ .. (t_seqno_' - 1)
    BY <1>6, <2>1
  <2>3. Sends({}, t_seqno_)
    BY <1>6, <2>1, <2>2 DEF Sends
  <2>4. UNCHANGED <<fastrecov_, retran>>
    BY <1>11 DEF LimitedTransmit
  <2> QED BY <1>2, <1>6, <2>3, <2>4 DEF AnswersWith
<1>12. CASE CountDuplicate(ack, w)
  BY <1>8, <1>12 DEF CountDuplicate
<1>13. CASE FastRetransmit(ack, w) \/ EcnRetransmit(ack, w)
  <2>1. DuplicateAck(ack) /\ StartRecovery
    BY <1>13 DEF FastRetransmit, EcnRetransmit
  <2>2. last_ack_ + 1 \in 0 .. maxseq_
    BY <1>1, <2>1, Duplicated
  <2>3. PICK n : n = t_seqno_' /\ n = t_seqno_
    BY <2>1 DEF StartRecovery
  <2>4. n .. n - 1 = {} /\ n \in Int
    BY <1>6, <2>3
  <2>5. Output({last_ack_ + 1}, t_seqno_ .. t_seqno_' - 1, TRUE)
    BY <2>1, <2>3, <2>4 DEF StartRecovery
  <2>6. {last_ack_ + 1} \subseteq 0 .. maxseq_
    BY <2>2
  <2>7. Sends({last_ack_ + 1}, t_seqno_)
    <3>1. t_seqno_ \in Int /\ t_seqno_' \in Int /\ t_seqno_ <= t_seqno_'
      BY <2>3, <2>4
    <3> QED BY <2>5, <2>6, <3>1 DEF Sends
  <2>8. fastrecov_' /\ retran' \ retran \subseteq {last_ack_ + 1}
    BY <1>1, <2>1, Duplicated DEF StartRecovery
  <2> QED BY <1>6, <2>7, <2>8 DEF AnswersWith
<1>14. CASE PartialAck(ack, w) \/ RecoveryDupAck(ack, w)
  <2>1. pipe_ - 2 \in Int /\ pipe_ - 1 \in Int
    BY <1>2
  <2>2. fastrecov_' => fastrecov_
    BY <1>14 DEF PartialAck, RecoveryDupAck
  <2> QED BY <1>5, <1>6, <1>14, <2>1, <2>2 DEF PartialAck, RecoveryDupAck
<1> QED BY <1>9, <1>10, <1>11, <1>12, <1>13, <1>14 DEF Handles

(* What sending leaves in maxseq_.                                         *)
LEMMA SendsTop ==
  ASSUME maxseq_ \in Int, NEW resent, NEW k, Sends(resent, k)
  PROVE  /\ maxseq_' \in Int /\ maxseq_' >= maxseq_
         /\ maxseq_' > maxseq_ => maxseq_' = t_seqno_' - 1 /\ k <= maxseq_'
         /\ t_seqno_' > k => maxseq_' >= t_seqno_' - 1
<1>1. PICK n, timer : n = t_seqno_' /\ Output(resent, k .. n - 1, timer)
  BY DEF Sends
<1>2. k \in Int /\ n \in Int /\ k <= n /\ resent \subseteq 0 .. maxseq_
  BY <1>1 DEF Sends
<1> DEFINE S == {maxseq_} \union resent \union (k .. n - 1)
           m == IF n > k THEN AtLeast(maxseq_, n - 1) ELSE maxseq_
<1>3. m \in S /\ S \in SUBSET Int /\ \A x \in S : x <= m
  BY <1>2 DEF AtLeast
<1>4. maxseq_' = Max(S)
  BY <1>1 DEF Output
<1> HIDE DEF S
<1>5. maxseq_' = m
  BY <1>3, <1>4, MaxIs
<1>6. CASE n > k
  <2>1. m \in Int /\ m >= maxseq_ /\ m >= n - 1 /\ (m > maxseq_ => m = n - 1)
    BY <1>2, <1>6 DEF AtLeast
  <2> HIDE DEF m
  <2>2. m > maxseq_ => k <= m
    BY <1>2, <1>6, <2>1
  <2> QED BY <1>1, <1>5, <2>1, <2>2
<1>7. CASE ~ (n > k)
  <2>1. m = maxseq_
    BY <1>7
  <2> HIDE DEF m
  <2>2. maxseq_' = maxseq_ /\ t_seqno_' = n
    BY <1>1, <1>5, <2>1
  <2>3. PICK old : old = maxseq_
    OBVIOUS
  <2>4. maxseq_' = old /\ old \in Int
    BY <2>2, <2>3
  <2>5. old >= old /\ ~ (old > old)
    BY <2>4
  <2> QED BY <1>2, <1>7, <2>2, <2>3, <2>4, <2>5
<1> QED BY <1>2, <1>6, <1>7
===============================================================================
