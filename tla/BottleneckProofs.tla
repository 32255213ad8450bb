--------------------------- MODULE BottleneckProofs ---------------------------
(***************************************************************************)
(* Proofs about module Bottleneck.  Its invariant has a part for each      *)
(* component: the flow (the sender's SenderInv of Sack1TcpProofs and ACKs  *)
(* that tell the truth), the clock, DCTCP's window of alpha, FlowBender's  *)
(* intervals, the queue, and the segments that tell of a cut.  Each part   *)
(* has lemmas on the functions that the handlers apply to its record, and  *)
(* is kept by every step.  CutInv, at the end, follows the news of a cut   *)
(* from the sender through the queue to the sink.                          *)
(***************************************************************************)
EXTENDS Bottleneck, Sack1TcpProofs, WellFoundedInduction, SequenceTheorems

-------------------------------------------------------------------------------
(* The clock.                                                              *)

(* A short holds what fits in it, and what is too small for it comes out   *)
(* larger.                                                                 *)
LEMMA ShortHolds ==
  ASSUME NEW n \in Int
  PROVE  /\ Short(n) \in Int
         /\ n <= ShortMax => Short(n) >= n
         /\ n <= ShortMax /\ n >= 0 - ShortMax - 1 => Short(n) = n
<1> DEFINE N == 2 * (ShortMax + 1)
           x == n + ShortMax + 1
<1>1. N \in Nat \ {0} /\ x \in Int
  BY RttAssumption
<1>2. Short(n) = (x % N) - ShortMax - 1
  BY DEF Short
<1>3. PICK M \in Nat \ {0}, y \in Int : M = N /\ y = x
  BY <1>1
<1>4. PICK k \in Int, r \in 0 .. M - 1 : y = M * k + r /\ r = y % M
  <2>1. y % M \in 0 .. M - 1 /\ y = M * (y \div M) + (y % M) /\ y \div M \in Int
    OBVIOUS
  <2> QED BY <2>1
<1>5. y < M => r >= y
  <2>1. CASE k >= 1
    <3>1. M * k >= M
      BY <2>1
    <3>2. M * k \in Int
      OBVIOUS
    <3> QED BY <1>4, <3>1, <3>2
  <2>2. CASE k <= 0
    <3>1. M * k <= 0
      BY <2>2
    <3>2. M * k \in Int
      OBVIOUS
    <3> QED BY <1>4, <3>1, <3>2
  <2> QED BY <2>1, <2>2
<1>6. y < M /\ y >= 0 => r = y
  <2>1. M * k \in Int
    OBVIOUS
  <2>2. CASE k >= 1
    <3>1. M * k >= M
      BY <2>2
    <3> QED BY <1>4, <2>1, <3>1
  <2>3. CASE k <= -1
    <3>1. M * k <= -M
      BY <2>3
    <3> QED BY <1>4, <2>1, <3>1
  <2>4. CASE k = 0
    <3>1. M * k = 0
      BY <2>4
    <3> QED BY <1>4, <3>1
  <2> QED BY <2>2, <2>3, <2>4
<1>7. y = n + ShortMax + 1 /\ M = 2 * (ShortMax + 1) /\ Short(n) = r - ShortMax - 1
  BY <1>2, <1>3, <1>4
<1> QED BY <1>4, <1>5, <1>6, <1>7, RttAssumption

(* The timeout covers the sample that it is computed from.                 *)
LEMMA UpdatedCovers ==
  ASSUME NEW e \in Estimates, NEW m \in Nat
  PROVE  LET f == Updated(e, m) IN
           /\ f \in Estimates
           /\ f.rtt_active_ = e.rtt_active_ /\ f.rtt_seq_ = e.rtt_seq_ /\ f.t_rtt_ = m
           /\ Abs(m - e.t_srtt_ \div 8) <= ShortMax => f.t_rtxcur_ >= m
<1> DEFINE a      == e.t_srtt_ \div 8
           b      == e.t_rttvar_ \div 4
           delta  == Short(m - a)
           change == Short(Short(Abs(delta)) - b)
           srtt   == Positive(e.t_srtt_ + delta)
           rttvar == Positive(e.t_rttvar_ + change)
<1>1. e.t_srtt_ \in Nat /\ e.t_rttvar_ \in Nat
  BY DEF Estimates
<1>2. a \in Nat /\ b \in Nat /\ 8 * a <= e.t_srtt_ /\ b <= e.t_rttvar_
  BY <1>1
<1> HIDE DEF a, b
<1>3. delta \in Int /\ change \in Int
  <2>1. delta \in Int
    BY <1>2, ShortHolds
  <2>2. Abs(delta) \in Int
    BY <2>1 DEF Abs
  <2>3. Short(Abs(delta)) - b \in Int
    BY <1>2, <2>2, ShortHolds
  <2> QED BY <2>1, <2>3, ShortHolds
<1>4. ASSUME Abs(m - a) <= ShortMax
      PROVE  delta = m - a /\ change >= Abs(m - a) - b
  <2>1. m - a \in Int /\ m - a <= ShortMax /\ m - a >= 0 - ShortMax - 1
    BY <1>2, <1>4, RttAssumption DEF Abs
  <2>2. delta = m - a
    BY <2>1, ShortHolds
  <2>3. PICK d \in Nat : d = Abs(m - a)
    BY <2>1 DEF Abs
  <2>4. Short(d) = d /\ d <= ShortMax
    BY <1>4, <2>3, ShortHolds, RttAssumption
  <2>5. d - b \in Int /\ d - b <= ShortMax
    BY <1>2, <2>4, RttAssumption
  <2>6. Short(d - b) >= d - b
    BY <2>5, ShortHolds
  <2> QED BY <2>2, <2>3, <2>4, <2>6
<1> HIDE DEF delta, change
<1>5. /\ srtt \in Nat /\ rttvar \in Nat
      /\ srtt >= e.t_srtt_ + delta /\ rttvar >= e.t_rttvar_ + change
  BY <1>1, <1>3 DEF Positive
<1>6. Updated(e, m) = [e EXCEPT !.t_rtt_ = m, !.t_srtt_ = srtt, !.t_rttvar_ = rttvar,
                                !.t_rtxcur_ = Rtxcur(srtt, rttvar)]
  BY DEF Updated, delta, change, a, b
<1> HIDE DEF srtt, rttvar
<1>7. Rtxcur(srtt, rttvar) \in Nat
  BY <1>5 DEF Rtxcur
<1>8. ASSUME Abs(m - a) <= ShortMax PROVE Rtxcur(srtt, rttvar) >= m
  <2>1. PICK d \in Int, v \in Nat : d = m - a /\ v = Abs(d)
    BY <1>2 DEF Abs
  <2>2. v = d \/ v = 0 - d
    BY <2>1 DEF Abs
  <2>3. srtt >= 8 * a + d /\ rttvar >= v
    BY <1>1, <1>2, <1>3, <1>4, <1>5, <1>8, <2>1
  <2>4. 8 * rttvar + srtt >= 8 * m
    BY <1>2, <1>5, <2>1, <2>2, <2>3
  <2> QED BY <1>5, <2>4 DEF Rtxcur
<1>9. Updated(e, m) \in Estimates
  BY <1>5, <1>6, <1>7 DEF Estimates
<1> QED BY <1>6, <1>8, <1>9 DEF a, Estimates
(* What a handler that times no segment makes of the estimate: another one *)
(* of the same segment.                                                    *)
Retimes(e, f) ==
  f \in Estimates /\ f.rtt_seq_ = e.rtt_seq_ /\ (f.rtt_active_ => e.rtt_active_)

(* A sample that it takes is covered by its timeout, if a short can hold   *)
(* the difference to the mean.                                             *)
Covers(e, f) ==
  f.t_rtt_ # e.t_rtt_ /\ (e.t_srtt_ = 0 \/ Abs(f.t_rtt_ - e.t_srtt_ \div 8) <= ShortMax)
    => f.t_rtxcur_ >= f.t_rtt_

(* rtt_backoff doubles the timeout, up to maxrto_; the mean it keeps or    *)
(* clears.                                                                 *)
LEMMA BackoffDoubles ==
  ASSUME NEW e \in Estimates
  PROVE  LET f == rtt_backoff(e) IN
           /\ f \in Estimates /\ f.rtt_seq_ = e.rtt_seq_ /\ f.rtt_active_ = e.rtt_active_
           /\ f.t_rtt_ = e.t_rtt_ /\ f.t_srtt_ \in {0, e.t_srtt_}
           /\ rtt_timeout(f) = Smaller(maxrto_, 2 * rtt_timeout(e))
<1> DEFINE doubles == e.t_backoff_ < 64 \/ rtt_timeout(e) < maxrto_
           b       == e.t_backoff_
           c       == IF doubles THEN 2 * b ELSE b
           f       == rtt_backoff(e)
           X       == Larger(e.t_rtxcur_, minrto_)
<1>1. b \in Nat \ {0} /\ c \in Nat \ {0} /\ X \in Nat /\ X >= 2
  BY RttAssumption DEF Estimates, Larger
<1>2. e.t_srtt_ \div 8 \in Nat /\ e.t_rttvar_ \in Nat
  BY DEF Estimates
<1>3. f = IF c > 8
          THEN [e EXCEPT !.t_backoff_ = c, !.t_rttvar_ = @ + e.t_srtt_ \div 8, !.t_srtt_ = 0]
          ELSE [e EXCEPT !.t_backoff_ = c]
  BY DEF rtt_backoff
<1> HIDE DEF f, c
<1>4. f \in Estimates /\ f.rtt_seq_ = e.rtt_seq_ /\ f.rtt_active_ = e.rtt_active_
  <2> HIDE DEF b, X
  <2>1. CASE c > 8
    <3>1. e.t_rttvar_ + e.t_srtt_ \div 8 \in Nat
      BY <1>2
    <3>2. f = [e EXCEPT !.t_backoff_ = c, !.t_rttvar_ = e.t_rttvar_ + e.t_srtt_ \div 8,
                        !.t_srtt_ = 0]
      BY <1>3, <2>1
    <3> QED BY <1>1, <3>1, <3>2 DEF Estimates
  <2>2. CASE ~ (c > 8)
    <3>1. f = [e EXCEPT !.t_backoff_ = c]
      BY <1>3, <2>2
    <3> QED BY <1>1, <3>1 DEF Estimates
  <2> QED BY <2>1, <2>2
<1>5. f.t_rtt_ = e.t_rtt_ /\ f.t_srtt_ \in {0, e.t_srtt_} /\ f.t_rtxcur_ = e.t_rtxcur_
  BY <1>3 DEF Estimates
<1>6. f.t_backoff_ = c
  BY <1>3 DEF Estimates
<1>7. /\ rtt_timeout(e) = Larger(2, Smaller(maxrto_, X * b))
      /\ rtt_timeout(f) = Larger(2, Smaller(maxrto_, X * c))
  BY <1>5, <1>6 DEF rtt_timeout
<1> HIDE DEF X, b
<1>8. X * b \in Nat /\ X * b >= 2
  <2>1. X * b \in Nat /\ X * b >= X * 1 /\ X * 1 = X
    BY <1>1
  <2> QED BY <1>1, <2>1
<1>9. CASE doubles
  <2>1. c = 2 * b
    BY <1>9 DEF c
  <2>2. X * c = 2 * (X * b)
    BY <1>1, <2>1
  <2>3. PICK y \in Nat : y = X * b /\ y >= 2 /\ X * c = 2 * y
    BY <1>8, <2>2
  <2> HIDE DEF doubles
  <2>4. rtt_timeout(f) = Smaller(maxrto_, 2 * rtt_timeout(e))
    BY <1>7, <2>3, RttAssumption DEF Smaller, Larger
  <2> QED BY <1>4, <1>5, <2>4 DEF f
<1>10. CASE ~ doubles
  <2>1. c = b /\ ~ (rtt_timeout(e) < maxrto_)
    BY <1>10 DEF c
  <2>2. PICK y \in Nat : y = X * b /\ y >= 2 /\ X * c = y
    BY <1>8, <2>1
  <2> HIDE DEF doubles
  <2>3. rtt_timeout(f) = Smaller(maxrto_, 2 * rtt_timeout(e))
    BY <1>7, <2>1, <2>2, RttAssumption DEF Smaller, Larger
  <2> QED BY <1>4, <1>5, <2>3 DEF f
<1> QED BY <1>9, <1>10

(* reset_rtx_timer: nothing is timed any more, and a backoff doubles.      *)
LEMMA TimerResetRetimes ==
  ASSUME NEW e \in Estimates, NEW backoff \in BOOLEAN
  PROVE  LET f == TimerReset(e, backoff) IN
           /\ Retimes(e, f) /\ ~ f.rtt_active_ /\ f.t_rtt_ = e.t_rtt_
           /\ backoff => rtt_timeout(f) = Smaller(maxrto_, 2 * rtt_timeout(e))
<1> DEFINE g == IF backoff THEN rtt_backoff(e) ELSE e
           f == TimerReset(e, backoff)
<1>1. /\ g \in Estimates /\ g.rtt_seq_ = e.rtt_seq_ /\ g.t_rtt_ = e.t_rtt_
      /\ backoff => rtt_timeout(g) = Smaller(maxrto_, 2 * rtt_timeout(e))
  BY BackoffDoubles
<1>2. f = [g EXCEPT !.rtt_active_ = FALSE]
  BY DEF TimerReset
<1> HIDE DEF f, g
<1>3. /\ f \in Estimates /\ f.rtt_seq_ = g.rtt_seq_ /\ f.t_rtt_ = g.t_rtt_
      /\ f.t_rtxcur_ = g.t_rtxcur_ /\ f.t_backoff_ = g.t_backoff_ /\ ~ f.rtt_active_
  BY <1>1, <1>2 DEF Estimates
<1>4. rtt_timeout(f) = rtt_timeout(g)
  BY <1>3 DEF rtt_timeout
<1> QED BY <1>1, <1>3, <1>4 DEF f, Retimes

(* ecn times no segment and takes no sample.                               *)
LEMMA EcnBackedOffRetimes ==
  ASSUME NEW e \in Estimates, NEW smallWindow
  PROVE  LET f == EcnBackedOff(e, smallWindow) IN
           Retimes(e, f) /\ f.t_rtt_ = e.t_rtt_ /\ f.t_srtt_ \in {0, e.t_srtt_}
<1>1. CASE smallWindow /\ e.ecn_backoff_
  BY <1>1, BackoffDoubles DEF EcnBackedOff, Retimes
<1>2. CASE ~ (smallWindow /\ e.ecn_backoff_)
  BY <1>2 DEF EcnBackedOff, Retimes, Estimates
<1> QED BY <1>1, <1>2

(* The first sample sets the timeout to three of it.                       *)
LEMMA SampleCovers ==
  ASSUME NEW e \in Estimates, NEW tao \in Nat
  PROVE  LET f == rtt_update(e, tao) IN
           /\ f \in Estimates /\ f.rtt_active_ = e.rtt_active_ /\ f.rtt_seq_ = e.rtt_seq_
           /\ Covers(e, f)
<1> DEFINE m == Larger(tao, 1)
<1>1. m \in Nat
  BY DEF Larger
<1>2. CASE e.t_srtt_ = 0
  <2>1. rtt_update(e, tao) = FirstSample(e, m)
    BY <1>2 DEF rtt_update
  <2> HIDE DEF m
  <2>2. 8 * m \in Nat /\ 2 * m \in Nat /\ Rtxcur(8 * m, 2 * m) = 3 * m
    BY <1>1 DEF Rtxcur
  <2>3. 3 * m \in Nat /\ 3 * m >= m
    BY <1>1
  <2>4. PICK f : f = [e EXCEPT !.t_rtt_ = m, !.t_srtt_ = 8 * m, !.t_rttvar_ = 2 * m,
                               !.t_rtxcur_ = 3 * m]
    OBVIOUS
  <2>5. rtt_update(e, tao) = f
    BY Zenon, <2>1, <2>2, <2>4 DEF FirstSample
  <2>6. /\ f \in Estimates /\ f.rtt_active_ = e.rtt_active_ /\ f.rtt_seq_ = e.rtt_seq_
        /\ f.t_rtt_ = m /\ f.t_rtxcur_ = 3 * m
    BY <1>1, <2>2, <2>3, <2>4 DEF Estimates
  <2>7. Covers(e, f)
    BY <2>3, <2>6 DEF Covers
  <2> QED BY <2>5, <2>6, <2>7
<1>3. CASE e.t_srtt_ # 0
  <2>1. PICK f : f = rtt_update(e, tao) /\ f = Updated(e, m)
    BY <1>3 DEF rtt_update
  <2> HIDE DEF m
  <2>2. /\ f \in Estimates
        /\ f.rtt_active_ = e.rtt_active_ /\ f.rtt_seq_ = e.rtt_seq_ /\ f.t_rtt_ = m
        /\ Abs(m - e.t_srtt_ \div 8) <= ShortMax => f.t_rtxcur_ >= m
    BY <1>1, <2>1, UpdatedCovers
  <2>3. Covers(e, f)
    BY <1>3, <2>2 DEF Covers
  <2> QED BY <2>1, <2>2, <2>3
<1> QED BY <1>2, <1>3

(* newack: a sample that a short can hold is covered.                      *)
LEMMA SampledRetimes ==
  ASSUME NEW e \in Estimates, NEW seqno, NEW ecnecho, NEW tao \in Nat
  PROVE  LET f == Sampled(e, seqno, ecnecho, tao) IN Retimes(e, f) /\ Covers(e, f)
<1> DEFINE keeps == e.ect_ /\ e.ecn_backoff_ /\ ecnecho
           ended == IF keeps THEN e ELSE [e EXCEPT !.t_backoff_ = 1, !.ecn_backoff_ = FALSE]
           g     == [ended EXCEPT !.rtt_active_ = FALSE]
<1>1. CASE ~ e.rtt_active_ \/ seqno < e.rtt_seq_
  BY <1>1 DEF Sampled, Retimes, Covers
<1>2. CASE ~ (~ e.rtt_active_ \/ seqno < e.rtt_seq_)
  <2>1. Sampled(e, seqno, ecnecho, tao) = rtt_update(g, tao)
    BY <1>2 DEF Sampled
  <2>2. ended \in Estimates /\ ended.t_rtt_ = e.t_rtt_ /\ ended.t_srtt_ = e.t_srtt_
        /\ ended.rtt_seq_ = e.rtt_seq_
    <3> HIDE DEF keeps
    <3>1. CASE keeps
      BY <3>1
    <3>2. CASE ~ keeps
      <4>1. PICK y : y = [e EXCEPT !.t_backoff_ = 1]
        OBVIOUS
      <4>2. /\ y \in Estimates
            /\ y.t_rtt_ = e.t_rtt_ /\ y.t_srtt_ = e.t_srtt_ /\ y.rtt_seq_ = e.rtt_seq_
        BY <4>1 DEF Estimates
      <4>3. ended = [y EXCEPT !.ecn_backoff_ = FALSE]
        BY <3>2, <4>1 DEF Estimates
      <4> HIDE DEF ended
      <4> QED BY <4>2, <4>3 DEF Estimates
    <3> QED BY <3>1, <3>2
  <2> HIDE DEF ended
  <2>3. g \in Estimates /\ g.t_rtt_ = e.t_rtt_ /\ g.t_srtt_ = e.t_srtt_
        /\ g.rtt_seq_ = e.rtt_seq_ /\ ~ g.rtt_active_
    BY <2>2 DEF Estimates
  <2> HIDE DEF g
  <2>4. PICK f : f = Sampled(e, seqno, ecnecho, tao) /\ f = rtt_update(g, tao)
    BY <2>1
  <2>5. /\ f \in Estimates /\ f.rtt_active_ = g.rtt_active_ /\ f.rtt_seq_ = g.rtt_seq_
        /\ Covers(g, f)
    BY <2>3, <2>4, SampleCovers
  <2>6. Retimes(e, f)
    BY <2>3, <2>5 DEF Retimes
  <2>7. Covers(e, f)
    BY <2>3, <2>5 DEF Covers
  <2> QED BY <2>4, <2>6, <2>7
<1> QED BY <1>1, <1>2

(* recv_newack_helper touches what it knows of marks alone.                *)
LEMMA HelpedRetimes ==
  ASSUME NEW e \in Estimates, NEW ecnecho \in BOOLEAN
  PROVE  LET f == HelpedNewAck(e, ecnecho) IN
           Retimes(e, f) /\ f.t_rtt_ = e.t_rtt_ /\ f.t_rtxcur_ = e.t_rtxcur_
BY DEF HelpedNewAck, Retimes, Estimates

(* output() times a new segment, if none is timed.                         *)
LEMMA TimingTimes ==
  ASSUME NEW e \in Estimates, NEW seqno \in Int, e.rtt_seq_ < seqno
  PROVE  LET f == Timing(e, seqno) IN
           /\ f \in Estimates /\ f.rtt_active_
           /\ f.rtt_seq_ = (IF e.rtt_active_ THEN e.rtt_seq_ ELSE seqno)
           /\ f.t_rtt_ = e.t_rtt_ /\ f.t_rtxcur_ = e.t_rtxcur_
           /\ f.t_backoff_ = e.t_backoff_
<1>1. e.rtt_seq_ \in Int /\ Larger(e.rtt_seq_, seqno) = seqno
  BY DEF Estimates, Larger
<1> QED BY <1>1 DEF Timing, Estimates

-------------------------------------------------------------------------------
(* Marks that come back.                                                   *)

(* No more segments are counted as marked than are counted.                *)
CountsMarks(d) ==
  /\ d \in Feedback
  /\ d.dctcp_marked <= d.dctcp_total /\ d.markedAckPkts_F <= d.totalAckPkts

(* What update_dctcp_alpha is given, and what it leaves: an ACK adds to    *)
(* the counts, and may start the next window of alpha.                     *)
Countable(d, seqno, ecnecho, highest, flowBender) ==
  /\ CountsMarks(d) /\ seqno \in Nat /\ highest \in Int /\ highest >= -1
  /\ ecnecho \in BOOLEAN /\ flowBender \in BOOLEAN

CountsAnAck(d, f, seqno, marked) ==
  /\ CountsMarks(f)
  /\ f.dctcp_maxseq = d.dctcp_maxseq
  /\ f.dctcp_alpha_update_seq =
       IF EndsWindow(d, seqno) THEN d.dctcp_maxseq ELSE d.dctcp_alpha_update_seq
  /\ f.numRTTsCongested_ = d.numRTTsCongested_ /\ f.defttl_ = d.defttl_
  /\ f.markedAckPkts_F > 0 => d.markedAckPkts_F > 0 \/ marked

(* So it does.                                                             *)
LEMMA AckCounts ==
  ASSUME NEW d, NEW seqno, NEW ecnecho, NEW highest, NEW flowBender,
         Countable(d, seqno, ecnecho, highest, flowBender)
  PROVE  CountsAnAck(d, update_dctcp_alpha(d, seqno, ecnecho, highest, flowBender), seqno,
                     flowBender /\ ecnecho)
<1>0. /\ CountsMarks(d) /\ seqno \in Nat /\ highest \in Int /\ highest >= -1
      /\ ecnecho \in BOOLEAN /\ flowBender \in BOOLEAN
  BY DEF Countable
<1> USE <1>0 DEF CountsAnAck
<1> DEFINE acked    == AckedBytes(seqno, highest)
           marked   == IF ecnecho THEN acked ELSE 0
           interval == IF flowBender THEN 1 ELSE 0
           c        == Counted(d, acked, ecnecho, flowBender)
           f        == update_dctcp_alpha(d, seqno, ecnecho, highest, flowBender)
<1>1. acked \in Nat
  BY DEF AckedBytes
<1> HIDE DEF acked
<1>2. marked \in Nat /\ marked <= acked /\ (marked > 0 => ecnecho)
  BY <1>1
<1> HIDE DEF marked
<1>3. PICK a, b \in Nat : /\ a = interval * acked /\ b = interval * marked
                          /\ b <= a /\ (b > 0 => flowBender /\ ecnecho)
  <2>1. CASE flowBender
    BY <1>1, <1>2, <2>1
  <2>2. CASE ~ flowBender
    BY <1>1, <1>2, <2>2
  <2> QED BY <2>1, <2>2
<1>4. c = [d EXCEPT !.dctcp_total = @ + acked, !.dctcp_marked = @ + marked,
                    !.totalAckPkts = @ + a, !.markedAckPkts_F = @ + b]
  BY <1>3 DEF Counted, marked
<1> HIDE DEF c
<1>5. CountsMarks(c)
  <2> HIDE DEF interval
  <2>1. d \in Feedback /\ d.dctcp_marked <= d.dctcp_total /\ d.markedAckPkts_F <= d.totalAckPkts
    BY DEF CountsMarks
  <2>2. c \in Feedback
    <3>1. PICK total, some, all, many :
            /\ total = d.dctcp_total + acked /\ some = d.dctcp_marked + marked
            /\ all = d.totalAckPkts + a /\ many = d.markedAckPkts_F + b
      OBVIOUS
    <3>2. PICK g : g = [d EXCEPT !.dctcp_total = total, !.dctcp_marked = some]
      OBVIOUS
    <3>3. /\ d.dctcp_total \in Nat /\ d.dctcp_marked \in Nat
          /\ d.totalAckPkts \in Nat /\ d.markedAckPkts_F \in Nat
      BY <2>1 DEF Feedback
    <3>4. total \in Nat /\ some \in Nat /\ all \in Nat /\ many \in Nat
      BY <1>1, <1>2, <1>3, <3>1, <3>3
    <3>5. g \in Feedback
      BY <2>1, <3>2, <3>4 DEF Feedback
    <3>6. c = [g EXCEPT !.totalAckPkts = all, !.markedAckPkts_F = many]
      BY <1>4, <2>1, <3>1, <3>2 DEF Feedback
    <3> QED BY <3>4, <3>5, <3>6 DEF Feedback
  <2>3. /\ c.dctcp_total = d.dctcp_total + acked /\ c.dctcp_marked = d.dctcp_marked + marked
        /\ c.totalAckPkts = d.totalAckPkts + a /\ c.markedAckPkts_F = d.markedAckPkts_F + b
    BY <1>4, <2>1 DEF Feedback
  <2>4. c.dctcp_marked <= c.dctcp_total /\ c.markedAckPkts_F <= c.totalAckPkts
    BY <1>1, <1>2, <1>3, <2>1, <2>3 DEF Feedback
  <2> QED BY <2>2, <2>4 DEF CountsMarks
<1>6. /\ c.dctcp_maxseq = d.dctcp_maxseq
      /\ c.dctcp_alpha_update_seq = d.dctcp_alpha_update_seq
      /\ c.numRTTsCongested_ = d.numRTTsCongested_ /\ c.defttl_ = d.defttl_
      /\ c.markedAckPkts_F > 0 => d.markedAckPkts_F > 0 \/ (flowBender /\ ecnecho)
  BY <1>3, <1>4 DEF CountsMarks, Feedback
<1>7. f = AlphaUpdated(c, seqno)
  BY DEF update_dctcp_alpha, c, acked
<1>8. EndsWindow(c, seqno) <=> EndsWindow(d, seqno)
  BY <1>6 DEF EndsWindow
<1> HIDE DEF f
<1>9. CASE EndsWindow(d, seqno)
  <2>1. f = [c EXCEPT !.dctcp_alpha_update_seq = c.dctcp_maxseq,
                      !.dctcp_total = 0, !.dctcp_marked = 0]
    BY <1>7, <1>8, <1>9 DEF AlphaUpdated
  <2>2. CountsMarks(f)
    <3>1. f \in Feedback
      BY <1>5, <2>1 DEF CountsMarks, Feedback
    <3>2. /\ f.dctcp_total = 0 /\ f.dctcp_marked = 0
          /\ f.totalAckPkts = c.totalAckPkts /\ f.markedAckPkts_F = c.markedAckPkts_F
      BY <1>5, <2>1 DEF CountsMarks, Feedback
    <3> QED BY <1>5, <3>1, <3>2 DEF CountsMarks
  <2>3. /\ f.dctcp_maxseq = c.dctcp_maxseq /\ f.dctcp_alpha_update_seq = c.dctcp_maxseq
        /\ f.numRTTsCongested_ = c.numRTTsCongested_ /\ f.defttl_ = c.defttl_
        /\ f.markedAckPkts_F = c.markedAckPkts_F
    BY <1>5, <2>1 DEF CountsMarks, Feedback
  <2> QED BY <1>6, <1>9, <2>2, <2>3 DEF f
<1>10. CASE ~ EndsWindow(d, seqno)
  <2>1. f = c
    BY <1>7, <1>8, <1>10 DEF AlphaUpdated
  <2> QED BY <1>5, <1>6, <1>10, <2>1 DEF f
<1> QED BY <1>9, <1>10

(* output() of a segment raises dctcp_maxseq to it, and nothing else.      *)
LEMMA SentRaisesMaxseq ==
  ASSUME NEW d, CountsMarks(d), NEW seqno \in Nat
  PROVE  LET f == DctcpSent(d, seqno) IN
           /\ CountsMarks(f)
           /\ f.dctcp_maxseq >= d.dctcp_maxseq /\ f.dctcp_maxseq >= seqno
           /\ f.dctcp_alpha_update_seq = d.dctcp_alpha_update_seq
           /\ f.numRTTsCongested_ = d.numRTTsCongested_ /\ f.defttl_ = d.defttl_
           /\ f.markedAckPkts_F = d.markedAckPkts_F
BY DEF DctcpSent, CountsMarks, Feedback

(* The flow takes another path.                                            *)
LEMMA ReroutedMoves ==
  ASSUME NEW d, CountsMarks(d)
  PROVE  LET f == Rerouted(d) IN
           /\ CountsMarks(f) /\ f.defttl_ # d.defttl_ /\ f.numRTTsCongested_ = 0
           /\ f.dctcp_maxseq = d.dctcp_maxseq
           /\ f.dctcp_alpha_update_seq = d.dctcp_alpha_update_seq
<1>1. PICK t \in 0 .. Ttls - 1 : t = d.defttl_
  BY DEF CountsMarks, Feedback
<1>2. PICK u \in 0 .. Ttls - 1 : u = (t + 1) % Ttls /\ u # t
  <2>1. Ttls \in Nat /\ Ttls >= 2
    BY DctcpAssumption
  <2>2. CASE t + 1 < Ttls
    <3>1. (t + 1) % Ttls = t + 1
      BY <2>1, <2>2
    <3> QED BY <2>1, <2>2, <3>1
  <2>3. CASE t + 1 = Ttls
    <3>1. (t + 1) % Ttls = 0
      BY <2>1, <2>3
    <3> QED BY <2>1, <2>3, <3>1
  <2> QED BY <2>1, <2>2, <2>3
<1>3. 0 \in 0 .. flowBender_N - 1
  BY DctcpAssumption
<1>4. Rerouted(d) = [d EXCEPT !.defttl_ = u, !.numRTTsCongested_ = 0]
  BY <1>1, <1>2 DEF Rerouted
<1> QED BY <1>1, <1>2, <1>3, <1>4 DEF CountsMarks, Feedback

(* A new interval starts from nothing.                                     *)
LEMMA IntervalStarts ==
  ASSUME NEW d, CountsMarks(d)
  PROVE  LET f == NewInterval(d) IN
           /\ CountsMarks(f) /\ f.markedAckPkts_F = 0
           /\ f.defttl_ = d.defttl_ /\ f.numRTTsCongested_ = d.numRTTsCongested_
           /\ f.dctcp_maxseq = d.dctcp_maxseq
           /\ f.dctcp_alpha_update_seq = d.dctcp_alpha_update_seq
<1>1. PICK f : f = NewInterval(d) /\ f = [d EXCEPT !.totalAckPkts = 0, !.markedAckPkts_F = 0]
  BY DEF NewInterval
<1>2. f \in Feedback
  <2>1. PICK g : g = [d EXCEPT !.totalAckPkts = 0]
    OBVIOUS
  <2>2. g \in Feedback
    BY <2>1 DEF CountsMarks, Feedback
  <2>3. f = [g EXCEPT !.markedAckPkts_F = 0]
    BY <1>1, <2>1 DEF CountsMarks, Feedback
  <2> QED BY <2>2, <2>3 DEF Feedback
<1>3. /\ f.totalAckPkts = 0 /\ f.markedAckPkts_F = 0
      /\ f.dctcp_marked = d.dctcp_marked /\ f.dctcp_total = d.dctcp_total
      /\ f.defttl_ = d.defttl_ /\ f.numRTTsCongested_ = d.numRTTsCongested_
      /\ f.dctcp_maxseq = d.dctcp_maxseq
      /\ f.dctcp_alpha_update_seq = d.dctcp_alpha_update_seq
  BY <1>1 DEF CountsMarks, Feedback
<1>4. CountsMarks(f)
  BY <1>2, <1>3 DEF CountsMarks
<1> QED BY <1>1, <1>3, <1>4

(* A timeout starts the window of alpha at the next segment, and FlowBender *)
(* takes another path.                                                     *)
LEMMA TimeoutRestarts ==
  ASSUME NEW d, CountsMarks(d), NEW t \in Nat, NEW flowBender \in BOOLEAN
  PROVE  LET f == FeedbackTimeout(d, t, flowBender) IN
           /\ CountsMarks(f)
           /\ f.dctcp_maxseq = t /\ f.dctcp_alpha_update_seq = t
           /\ flowBender => f.numRTTsCongested_ = 0 /\ f.markedAckPkts_F = 0
           /\ ~ flowBender => /\ f.numRTTsCongested_ = d.numRTTsCongested_
                              /\ f.markedAckPkts_F = d.markedAckPkts_F
                              /\ f.defttl_ = d.defttl_
<1> DEFINE r == [d EXCEPT !.dctcp_alpha_update_seq = t, !.dctcp_maxseq = t]
<1>1. CountsMarks(r) /\ r.dctcp_maxseq = t /\ r.dctcp_alpha_update_seq = t
  BY DEF CountsMarks, Feedback
<1>2. /\ r.numRTTsCongested_ = d.numRTTsCongested_ /\ r.defttl_ = d.defttl_
      /\ r.markedAckPkts_F = d.markedAckPkts_F
  BY DEF CountsMarks, Feedback
<1>3. FeedbackTimeout(d, t, flowBender) = IF flowBender THEN NewInterval(Rerouted(r)) ELSE r
  BY DEF FeedbackTimeout
<1> HIDE DEF r
<1>4. CASE flowBender
  <2>1. PICK m : m = Rerouted(r)
    OBVIOUS
  <2>2. CountsMarks(m) /\ m.numRTTsCongested_ = 0
        /\ m.dctcp_maxseq = t /\ m.dctcp_alpha_update_seq = t
    BY <1>1, <2>1, ReroutedMoves
  <2> QED BY <1>3, <1>4, <2>1, <2>2, IntervalStarts
<1>5. CASE ~ flowBender
  BY <1>1, <1>2, <1>3, <1>5
<1> QED BY <1>4, <1>5

(* FlowBender's timer moves the flow at the end of enough congested        *)
(* intervals in a row.                                                     *)
LEMMA CheckCounts ==
  ASSUME NEW d, CountsMarks(d)
  PROVE  LET f == checkCongestionFB(d) IN
           /\ CountsMarks(f) /\ f.markedAckPkts_F = 0
           /\ f.dctcp_maxseq = d.dctcp_maxseq
           /\ f.dctcp_alpha_update_seq = d.dctcp_alpha_update_seq
           /\ \/ f.numRTTsCongested_ = 0 /\ f.defttl_ = d.defttl_
              \/ /\ d.markedAckPkts_F > 0 /\ f.numRTTsCongested_ = 0
                 /\ d.numRTTsCongested_ + 1 >= flowBender_N
              \/ /\ d.markedAckPkts_F > 0 /\ f.defttl_ = d.defttl_
                 /\ f.numRTTsCongested_ = d.numRTTsCongested_ + 1
<1> DEFINE n == d.numRTTsCongested_
<1>1. n \in 0 .. flowBender_N - 1 /\ flowBender_N \in Nat
  BY DctcpAssumption DEF CountsMarks, Feedback
<1>2. Congested(d) => d.markedAckPkts_F > 0
  <2>1. PICK m \in Nat, a \in Nat, T \in Nat :
          m = d.markedAckPkts_F /\ a = d.totalAckPkts /\ T = flowBender_T
    BY DctcpAssumption DEF CountsMarks, Feedback
  <2>2. T * a >= 0 /\ T * a \in Int
    BY <2>1
  <2> QED BY <2>1, <2>2 DEF Congested
<1>3. PICK g : g = IF ~ Congested(d) THEN [d EXCEPT !.numRTTsCongested_ = 0]
                   ELSE IF n + 1 >= flowBender_N THEN Rerouted(d)
                   ELSE [d EXCEPT !.numRTTsCongested_ = @ + 1]
  OBVIOUS
<1>4. checkCongestionFB(d) = NewInterval(g)
  BY <1>3 DEF checkCongestionFB
<1>5. SUFFICES
        /\ CountsMarks(g)
        /\ g.dctcp_maxseq = d.dctcp_maxseq
        /\ g.dctcp_alpha_update_seq = d.dctcp_alpha_update_seq
        /\ \/ g.numRTTsCongested_ = 0 /\ g.defttl_ = d.defttl_
           \/ d.markedAckPkts_F > 0 /\ g.numRTTsCongested_ = 0 /\ n + 1 >= flowBender_N
           \/ d.markedAckPkts_F > 0 /\ g.defttl_ = d.defttl_ /\ g.numRTTsCongested_ = n + 1
  BY <1>4, IntervalStarts
<1>6. CASE ~ Congested(d)
  <2>1. g = [d EXCEPT !.numRTTsCongested_ = 0]
    BY <1>3, <1>6
  <2> QED BY <1>1, <2>1 DEF CountsMarks, Feedback
<1>7. CASE Congested(d) /\ n + 1 >= flowBender_N
  <2>1. g = Rerouted(d)
    BY <1>3, <1>7
  <2> QED BY <1>2, <1>7, <2>1, ReroutedMoves
<1>8. CASE Congested(d) /\ ~ (n + 1 >= flowBender_N)
  <2>1. g = [d EXCEPT !.numRTTsCongested_ = n + 1]
    BY <1>3, <1>8
  <2>2. n + 1 \in 0 .. flowBender_N - 1
    BY <1>1, <1>8
  <2> HIDE DEF n
  <2>3. CountsMarks(g) /\ g.dctcp_maxseq = d.dctcp_maxseq
        /\ g.dctcp_alpha_update_seq = d.dctcp_alpha_update_seq
        /\ g.defttl_ = d.defttl_ /\ g.numRTTsCongested_ = n + 1
    BY <2>1, <2>2 DEF CountsMarks, Feedback
  <2> QED BY <1>2, <1>8, <2>3
<1> QED BY <1>6, <1>7, <1>8

-------------------------------------------------------------------------------
(* The queue.                                                              *)

(* The packets of segments up to n and of other flows.                     *)
PacketsTo(n) == [seqno : -1 .. n, ect : BOOLEAN, ce : BOOLEAN, cong_action : BOOLEAN]

(* The link is never idle while packets wait.                              *)
Waiting(P) ==
  /\ q \in Seq(P) /\ wire \in Seq(P)
  /\ Len(q) <= red.limit /\ Len(wire) <= 1
  /\ wire = <<>> => q = <<>>

(* The queue: its settings, its packets, and what the last arrival found.  *)
QueueOf(P) ==
  /\ red \in AllQueues /\ 0 < red.th_min /\ red.th_min <= red.th_max
  /\ Waiting(P)
  /\ v_ave \in 0 .. red.limit /\ curq_ \in 0 .. red.limit /\ count \in 0 .. CountBound
  /\ old \in BOOLEAN
  /\ Steps => (old <=> Above(curq_))

(* What dropping a packet of the queue leaves.                             *)
LEMMA WithoutOne ==
  ASSUME NEW P, NEW s \in Seq(P), NEW i \in 1 .. Len(s)
  PROVE  /\ Without(s, i) \in Seq(P) /\ Len(Without(s, i)) = Len(s) - 1
         /\ \A j \in 1 .. Len(s) - 1 : Without(s, i)[j] = IF j < i THEN s[j] ELSE s[j + 1]
<1>1. /\ SubSeq(s, 1, i - 1) \in Seq(P) /\ Len(SubSeq(s, 1, i - 1)) = i - 1
      /\ \A j \in 1 .. i - 1 : SubSeq(s, 1, i - 1)[j] = s[j]
  <2>1. \A j \in 1 .. i - 1 : s[j] \in P
    OBVIOUS
  <2> QED BY <2>1, SubSeqProperties
<1>2. /\ SubSeq(s, i + 1, Len(s)) \in Seq(P) /\ Len(SubSeq(s, i + 1, Len(s))) = Len(s) - i
      /\ \A j \in 1 .. Len(s) - i : SubSeq(s, i + 1, Len(s))[j] = s[i + j]
  <2>1. \A j \in i + 1 .. Len(s) : s[j] \in P
    OBVIOUS
  <2> QED BY <2>1, SubSeqProperties
<1>3. PICK a \in Seq(P), b \in Seq(P) :
        /\ a = SubSeq(s, 1, i - 1) /\ b = SubSeq(s, i + 1, Len(s))
        /\ Len(a) = i - 1 /\ Len(b) = Len(s) - i
        /\ \A j \in 1 .. i - 1 : a[j] = s[j]
        /\ \A j \in 1 .. Len(s) - i : b[j] = s[i + j]
  BY <1>1, <1>2
<1>4. Without(s, i) = a \o b
  BY <1>3 DEF Without
<1>5. /\ a \o b \in Seq(P) /\ Len(a \o b) = Len(a) + Len(b)
      /\ \A j \in 1 .. Len(a) + Len(b) :
           (a \o b)[j] = IF j <= Len(a) THEN a[j] ELSE b[j - Len(a)]
  BY ConcatProperties
<1>6. PICK k \in Nat : k = Len(s)
  OBVIOUS
<1>7. Len(Without(s, i)) = (i - 1) + (k - i)
  BY <1>3, <1>4, <1>5, <1>6
<1>8. (i - 1) + (k - i) = k - 1
  BY <1>6
<1>9. ASSUME NEW j \in 1 .. k - 1
      PROVE  (a \o b)[j] = IF j < i THEN s[j] ELSE s[j + 1]
  <2>1. (a \o b)[j] = IF j <= i - 1 THEN a[j] ELSE b[j - (i - 1)]
    BY <1>3, <1>5, <1>6, <1>8
  <2>2. CASE j < i
    <3>1. j <= i - 1 /\ j \in 1 .. i - 1
      BY <1>6, <2>2
    <3>2. a[j] = s[j]
      BY <1>3, <3>1
    <3> QED BY <2>1, <2>2, <3>1, <3>2
  <2>3. CASE ~ (j < i)
    <3>1. PICK l : l = j - (i - 1)
      OBVIOUS
    <3>2. l \in 1 .. k - i /\ i + l = j + 1 /\ ~ (j <= i - 1)
      BY <1>6, <2>3, <3>1
    <3>3. b[l] = s[i + l]
      BY <1>3, <1>6, <3>2
    <3> QED BY <2>1, <2>3, <3>1, <3>2, <3>3
  <2> QED BY <2>2, <2>3
<1> QED BY <1>4, <1>5, <1>6, <1>7, <1>8, <1>9

(* What queue lengths leave of the average.                                *)
LEMMA AverageIsBounded ==
  ASSUME NEW P, QueueOf(P), NEW ave \in Averages
  PROVE  ave \in 0 .. red.limit /\ (red.instant => ave = Len(q))
<1>1. Len(q) \in Nat /\ Len(q) <= red.limit /\ red.limit \in Nat /\ v_ave \in 0 .. red.limit
  BY DEF QueueOf, Waiting, AllQueues
<1> QED BY <1>1 DEF Averages

(* The unit of the probabilities is not zero.                              *)
LEMMA UnitIsPositive ==
  ASSUME NEW P, QueueOf(P)
  PROVE  Unit \in Nat \ {0} /\ CountBound \in Nat /\ CountBound >= 2
<1>1. PICK t \in Nat \ {0}, m \in Nat \ {0} : t = th_diff /\ m = red.max_p_inv
  BY DEF QueueOf, AllQueues, th_diff
<1>2. t * m \in Nat \ {0}
  BY <1>1
<1>3. PICK u \in Nat \ {0} : u = Unit
  BY <1>1, <1>2 DEF Unit
<1> QED BY <1>3 DEF CountBound

(* Above maxthresh_ drop_early always hits.                                *)
LEMMA DropEarlyAbove ==
  ASSUME NEW P, QueueOf(P), NEW ave \in Int, ave >= red.th_max, NEW counted \in Nat \ {0}
  PROVE  FALSE \notin DropEarly(ave, counted)
<1>1. PICK u \in Nat \ {0} : u = Unit
  BY UnitIsPositive
<1>2. (counted + 1) * u >= 2 * u /\ 2 * u >= u /\ (counted + 1) * u \in Int
  <2>1. counted - 1 \in Nat /\ (counted - 1) * u \in Nat
    BY <1>1
  <2>2. (counted + 1) * u = (counted - 1) * u + 2 * u
    BY <1>1
  <2> QED BY <1>1, <2>1, <2>2
<1> QED BY <1>1, <1>2 DEF DropEarly

-------------------------------------------------------------------------------
(* The two things that can come of an arrival.                             *)

(* A packet is dropped: the one that arrives, or one that waits.           *)
Drops(P, r) ==
  /\ wire # <<>> /\ wire' = wire
  /\ q' \in Seq(P) /\ Len(q') = Len(q)
  /\ \E i \in 1 .. Len(q) + 1 : q' = Without(Append(q, r), i)

(* The packet joins the queue, or the idle link takes it.                  *)
Joins(r) ==
  \/ wire = <<>> /\ q = <<>> /\ wire' = <<r>> /\ q' = <<>>
  \/ wire # <<>> /\ wire' = wire /\ q' = Append(q, r)

(* What enque decides for a packet p: r is the packet as it joins.         *)
Decided(p, P, ave, hit, above, over, asked, full, r) ==
  /\ ave \in Averages /\ hit \in BOOLEAN
  /\ above \in BOOLEAN /\ over \in BOOLEAN /\ asked \in BOOLEAN /\ full \in BOOLEAN
  /\ above = (ave >= red.th_min /\ Len(q) > 1)
  /\ over = (above /\ ~ red.use_mark_p /\ ave >= red.th_max)
  /\ asked = (above /\ ~ over /\ old)
  /\ full = (Len(q) >= red.limit)
  /\ r = [p EXCEPT !.ce = hit /\ MayMark(p, ave)]
  /\ v_ave' = ave /\ curq_' = Len(q) /\ UNCHANGED red
  /\ old' = IF over THEN old ELSE above
  /\ count' \in 0 .. CountBound
  /\ hit \in (IF asked THEN DropEarly(ave, count + 1) ELSE {FALSE})
  /\ r \in P
  /\ \/ (over \/ full \/ (hit /\ ~ MayMark(p, ave))) /\ Drops(P, r)
     \/ ~ over /\ ~ full /\ Joins(r)

(* An arrival is one of the two.                                           *)
LEMMA EnqueOutcome ==
  ASSUME NEW P, QueueOf(P), NEW n, P = PacketsTo(n), NEW p \in P, ~ p.ce, Enque(p)
  PROVE  \E ave, hit, above, over, asked, full, r :
           Decided(p, P, ave, hit, above, over, asked, full, r)
<1> DEFINE k == Len(q)
           full == k >= red.limit
           counted == count + 1
           Body(ave, above, over, asked, hit) ==
             LET marked == hit /\ MayMark(p, ave)
                 joined == Append(q, [p EXCEPT !.ce = @ \/ marked])
             IN
             /\ v_ave' = ave
             /\ curq_' = k
             /\ old' = IF over THEN old ELSE above
             /\ count' = IF hit \/ over \/ full THEN 0
                         ELSE IF above /\ ~ asked THEN 1
                         ELSE IF counted > CountBound THEN CountBound ELSE counted
             /\ IF over \/ full THEN \E i \in Victims(k + 1) : Transmit(Without(joined, i))
                ELSE IF hit /\ ~ marked THEN Transmit(q)
                ELSE Transmit(joined)
             /\ UNCHANGED red
<1>a. PICK ave \in Averages :
        LET above == ave >= red.th_min /\ k > 1
            over  == above /\ ~ red.use_mark_p /\ ave >= red.th_max
            asked == above /\ ~ over /\ old
        IN \E hit \in IF asked THEN DropEarly(ave, counted) ELSE {FALSE} :
             Body(ave, above, over, asked, hit)
  BY DEF Enque
<1> DEFINE above == ave >= red.th_min /\ k > 1
           over  == above /\ ~ red.use_mark_p /\ ave >= red.th_max
           asked == above /\ ~ over /\ old
<1>b. PICK hit \in IF asked THEN DropEarly(ave, counted) ELSE {FALSE} :
        Body(ave, above, over, asked, hit)
  BY <1>a
<1>c. hit \in BOOLEAN
  BY <1>b DEF DropEarly
<1> DEFINE r      == [p EXCEPT !.ce = hit /\ MayMark(p, ave)]
           joined == Append(q, r)
<1>1. /\ v_ave' = ave /\ curq_' = k /\ UNCHANGED red
      /\ old' = IF over THEN old ELSE above
      /\ count' = IF hit \/ over \/ full THEN 0
                  ELSE IF above /\ ~ asked THEN 1
                  ELSE IF counted > CountBound THEN CountBound ELSE counted
  BY <1>b
<1>2. [p EXCEPT !.ce = @ \/ (hit /\ MayMark(p, ave))] = r /\ r \in P
  BY <1>c DEF PacketsTo
<1>3. k \in Nat /\ q \in Seq(P) /\ red.limit \in Nat \ {0} /\ (wire = <<>> => k = 0)
      /\ (wire = <<>> => q = <<>>)
  BY DEF QueueOf, Waiting, AllQueues
<1>4. IF over \/ full THEN \E i \in Victims(k + 1) : Transmit(Without(joined, i))
      ELSE IF hit /\ ~ MayMark(p, ave) THEN Transmit(q)
      ELSE Transmit(joined)
  BY <1>b, <1>2
<1>5. count' \in 0 .. CountBound
  <2>1. count \in 0 .. CountBound /\ CountBound \in Nat /\ CountBound >= 2
    BY UnitIsPositive DEF QueueOf
  <2>2. \/ count' = 0 \/ count' = 1
        \/ count' = (IF counted > CountBound THEN CountBound ELSE counted)
    BY <1>1
  <2> QED BY <2>1, <2>2
<1> HIDE DEF r
<1>6. joined \in Seq(P) /\ Len(joined) = k + 1
  BY <1>2, <1>3, AppendProperties
<1>7. hit => above
  BY <1>b
<1>10. r \in P
  BY <1>2
<1>8. ASSUME over \/ full \/ (hit /\ ~ MayMark(p, ave)) PROVE Drops(P, r)
  <2>1. wire # <<>>
    BY <1>3, <1>7, <1>8
  <2>2. CASE over \/ full
    <3>1. PICK i \in Victims(k + 1) : Transmit(Without(joined, i))
      BY <1>4, <2>2
    <3>2. i \in 1 .. k + 1
      BY <1>3, <3>1 DEF Victims, QueueOf, AllQueues
    <3> HIDE DEF joined, k
    <3>3. i \in 1 .. Len(joined) /\ Len(joined) - 1 = k
      BY <1>3, <1>6, <3>2
    <3>4. Without(joined, i) \in Seq(P) /\ Len(Without(joined, i)) = k
      BY <1>6, <3>3, WithoutOne
    <3>5. wire' = wire /\ q' = Without(joined, i)
      BY <2>1, <3>1 DEF Transmit
    <3>6. \E j \in 1 .. Len(q) + 1 : q' = Without(Append(q, r), j)
      BY <3>2, <3>5 DEF joined, k
    <3> QED BY <2>1, <3>4, <3>5, <3>6 DEF Drops, k
  <2>3. CASE ~ (over \/ full)
    <3>1. Transmit(q)
      BY <1>4, <1>8, <2>3
    <3>2. wire' = wire /\ q' = q
      BY <2>1, <3>1 DEF Transmit
    <3> HIDE DEF joined, k
    <3>3. k + 1 \in 1 .. Len(joined) /\ Len(joined) - 1 = k
      BY <1>3, <1>6
    <3>4. /\ Without(joined, k + 1) \in Seq(P) /\ Len(Without(joined, k + 1)) = k
          /\ \A j \in 1 .. k :
               Without(joined, k + 1)[j] = IF j < k + 1 THEN joined[j] ELSE joined[j + 1]
      BY <1>6, <3>3, WithoutOne
    <3>5. \A j \in 1 .. k : joined[j] = q[j]
      BY <1>3, <1>10, AppendProperties DEF joined, k
    <3>6. \A j \in 1 .. k : j < k + 1
      BY <1>3
    <3>7. Without(joined, k + 1) = q
      BY <1>3, <3>4, <3>5, <3>6, SeqEqual DEF k
    <3>8. k + 1 \in 1 .. Len(q) + 1
      BY <1>3 DEF k
    <3>9. \E j \in 1 .. Len(q) + 1 : q' = Without(Append(q, r), j)
      BY <3>2, <3>7, <3>8 DEF joined
    <3> QED BY <1>3, <2>1, <3>2, <3>9 DEF Drops
  <2> QED BY <2>2, <2>3
<1>9. ASSUME ~ (over \/ full \/ (hit /\ ~ MayMark(p, ave))) PROVE Joins(r)
  <2>1. Transmit(joined)
    BY <1>4, <1>9
  <2>2. CASE wire = <<>>
    <3>1. joined = <<r>>
      BY <1>3, <2>2
    <3>2. Head(<<r>>) = r /\ Tail(<<r>>) = <<>> /\ <<r>> # <<>>
      OBVIOUS
    <3> HIDE DEF joined
    <3> QED BY <1>3, <2>1, <2>2, <3>1, <3>2 DEF Transmit, Joins
  <2>3. CASE wire # <<>>
    BY <2>1, <2>3 DEF Transmit, Joins
  <2> QED BY <2>2, <2>3
<1>11. /\ r \in P
       /\ \/ (over \/ full \/ (hit /\ ~ MayMark(p, ave))) /\ Drops(P, r)
          \/ ~ over /\ ~ full /\ Joins(r)
  BY <1>8, <1>9, <1>10
<1>12. /\ above \in BOOLEAN /\ over \in BOOLEAN /\ asked \in BOOLEAN /\ full \in BOOLEAN
       /\ above = (ave >= red.th_min /\ Len(q) > 1)
       /\ over = (above /\ ~ red.use_mark_p /\ ave >= red.th_max)
       /\ asked = (above /\ ~ over /\ old)
       /\ full = (Len(q) >= red.limit)
  OBVIOUS
<1>13. hit \in (IF asked THEN DropEarly(ave, count + 1) ELSE {FALSE}) /\ k = Len(q)
  BY <1>b
<1>14. r = [p EXCEPT !.ce = hit /\ MayMark(p, ave)]
  BY DEF r
<1> HIDE DEF above, over, asked, full, joined, Body, k
<1>15. Decided(p, P, ave, hit, above, over, asked, full, r)
  BY <1>c, <1>1, <1>5, <1>11, <1>12, <1>13, <1>14 DEF Decided
<1> QED BY <1>15

(* What the outcomes leave of the two queues together.                     *)
LEMMA DropsJoinNothing ==
  ASSUME NEW P, QueueOf(P), NEW r, Drops(P, r), UNCHANGED red
  PROVE  Waiting(P)' /\ ~ Joined
<1>1. q \in Seq(P) /\ wire \in Seq(P) /\ q' \in Seq(P) /\ wire' = wire /\ Len(q') = Len(q)
  BY DEF QueueOf, Waiting, Drops
<1>2. PICK a, b, w \in Seq(P) : a = q /\ b = q' /\ w = wire
  BY <1>1
<1>3. Len(a \o w) = Len(a) + Len(w) /\ Len(b \o w) = Len(b) + Len(w) /\ Len(a) = Len(b)
  BY <1>1, <1>2, ConcatProperties
<1>4. Len(q \o wire) = Len(q' \o wire') /\ Len(q \o wire) \in Nat
  <2>1. a \o w \in Seq(P)
    BY ConcatProperties
  <2>2. Len(a \o w) \in Nat
    BY <2>1
  <2> QED BY <1>1, <1>2, <1>3, <2>2
<1>5. ~ Joined
  <2>1. PICK c \in Nat : c = Len(q \o wire) /\ c = Len(q' \o wire')
    BY <1>4
  <2> QED BY <2>1 DEF Joined
<1>6. Waiting(P)'
  BY <1>1 DEF QueueOf, Waiting, Drops
<1> QED BY <1>5, <1>6

(* A packet that joins is the last one.                                    *)
LEMMA JoinsLast ==
  ASSUME NEW P, QueueOf(P), Len(q) < red.limit, NEW r \in P, Joins(r), UNCHANGED red
  PROVE  Waiting(P)' /\ Joined /\ NewPacket = r
<1>1. /\ q \in Seq(P) /\ wire \in Seq(P) /\ red.limit \in Nat \ {0} /\ Len(wire) <= 1
      /\ Len(q) \in Nat
  BY DEF QueueOf, Waiting, AllQueues
<1>2. CASE wire = <<>>
  <2>1. wire = <<>> /\ q = <<>> /\ wire' = <<r>> /\ q' = <<>>
    BY <1>2 DEF Joins
  <2>2. /\ <<>> \o <<r>> = <<r>> /\ <<r>> \o <<>> = <<r>> /\ <<>> \o <<>> = <<>>
        /\ Len(<<r>>) = 1 /\ Len(<<>>) = 0 /\ <<r>>[1] = r
        /\ <<r>> \in Seq(P) /\ <<>> \in Seq(P) /\ <<r>> # <<>>
    OBVIOUS
  <2>3. q' \o wire' = <<r>> /\ wire' \o q' = <<r>> /\ q \o wire = <<>>
    BY <2>1, <2>2
  <2>4. Joined /\ NewPacket = r
    BY <2>2, <2>3 DEF Joined, NewPacket
  <2>5. Waiting(P)'
    <3>1. Len(q') <= red.limit /\ Len(wire') <= 1 /\ wire' # <<>>
      BY <1>1, <2>1, <2>2
    <3> QED BY <2>1, <2>2, <3>1 DEF Waiting
  <2> QED BY <2>4, <2>5
<1>3. CASE wire # <<>>
  <2>1. wire' = wire /\ q' = Append(q, r)
    BY <1>3 DEF Joins
  <2>2. PICK a \in Seq(P), w \in Seq(P), k \in Nat, l \in Nat :
          a = q /\ w = wire /\ k = Len(a) /\ l = Len(w)
    <3>1. Len(wire) \in Nat
      BY <1>1
    <3> QED BY <1>1, <3>1
  <2> DEFINE b == Append(a, r)
  <2>3. b \in Seq(P) /\ Len(b) = k + 1 /\ b[k + 1] = r
    BY <2>2, AppendProperties
  <2> HIDE DEF b
  <2>4. Len(a \o w) = k + l /\ Len(b \o w) = k + 1 + l /\ Len(w \o b) = l + (k + 1)
        /\ (w \o b)[l + (k + 1)] = b[k + 1]
    <3>1. Len(a \o w) = Len(a) + Len(w) /\ Len(b \o w) = Len(b) + Len(w)
          /\ Len(w \o b) = Len(w) + Len(b)
      BY <2>3, ConcatProperties
    <3>2. \A i \in 1 .. Len(w) + Len(b) : (w \o b)[i] = IF i <= Len(w) THEN w[i] ELSE b[i - Len(w)]
      BY <2>3, ConcatProperties
    <3>3. l + (k + 1) \in 1 .. l + (k + 1) /\ ~ (l + (k + 1) <= l) /\ l + (k + 1) - l = k + 1
      OBVIOUS
    <3> QED BY <2>2, <2>3, <3>1, <3>2, <3>3
  <2>5. q' \o wire' = b \o w /\ wire' \o q' = w \o b /\ q \o wire = a \o w
    BY <2>1, <2>2 DEF b
  <2>6. Joined
    BY <2>4, <2>5 DEF Joined
  <2>7. NewPacket = r
    BY <2>3, <2>4, <2>5 DEF NewPacket
  <2>8. Waiting(P)'
    <3>1. k + 1 <= red.limit
      BY <1>1, <2>2
    <3>2. q' = b
      BY <2>1, <2>2 DEF b
    <3> QED BY <1>1, <1>3, <2>1, <2>2, <2>3, <3>1, <3>2 DEF Waiting
  <2> QED BY <2>6, <2>7, <2>8
<1> QED BY <1>2, <1>3

(* An arrival at the queue, as MarksFollowTheQueue says.                   *)
LEMMA EnqueFollows ==
  ASSUME NEW P, QueueOf(P), NEW top, P = PacketsTo(top), NEW p \in P, ~ p.ce, Enque(p)
  PROVE  /\ QueueOf(P)'
         /\ Steps /\ Joined => (NewPacket.ce <=> NewPacket.ect /\ Above(Len(q)) /\ Above(curq_))
         /\ Steps /\ p.ect /\ ~ Joined => Len(q) >= red.limit
         /\ ~ Joined => wire # <<>>
<1>a. PICK ave, hit, above, over, asked, full, r :
        Decided(p, P, ave, hit, above, over, asked, full, r)
  BY EnqueOutcome
<1>1. /\ above <=> ave >= red.th_min /\ Len(q) > 1
      /\ over <=> above /\ ~ red.use_mark_p /\ ave >= red.th_max
      /\ asked <=> above /\ ~ over /\ old
      /\ full <=> Len(q) >= red.limit
      /\ r = [p EXCEPT !.ce = hit /\ MayMark(p, ave)]
      /\ v_ave' = ave /\ curq_' = Len(q) /\ UNCHANGED red
      /\ old' = IF over THEN old ELSE above
      /\ count' \in 0 .. CountBound
      /\ hit \in (IF asked THEN DropEarly(ave, count + 1) ELSE {FALSE})
      /\ r \in P
      /\ \/ (over \/ full \/ (hit /\ ~ MayMark(p, ave))) /\ Drops(P, r)
         \/ ~ over /\ ~ full /\ Joins(r)
      /\ ave \in Averages /\ hit \in BOOLEAN
      /\ above \in BOOLEAN /\ over \in BOOLEAN /\ asked \in BOOLEAN /\ full \in BOOLEAN
  BY <1>a DEF Decided
<1>2. ave \in 0 .. red.limit /\ (red.instant => ave = Len(q))
  BY <1>1, AverageIsBounded
<1>3. /\ red.limit \in Nat \ {0} /\ Len(q) \in Nat /\ Len(q) <= red.limit
      /\ red.th_min \in Nat /\ red.th_max \in Nat /\ count \in 0 .. CountBound
      /\ old \in BOOLEAN /\ (Steps => (old <=> Above(curq_)))
      /\ red \in AllQueues /\ 0 < red.th_min /\ red.th_min <= red.th_max
      /\ (Len(q) > 1 => wire # <<>>)
  BY DEF QueueOf, Waiting, AllQueues
<1>4. CountBound' = CountBound
  BY <1>1 DEF CountBound, Unit, th_diff
<1>5. Steps' <=> Steps
  BY <1>1 DEF Steps
<1>6. Steps => (above <=> Above(Len(q))) /\ ~ over
  BY <1>1, <1>2 DEF Steps, Above
<1>7. /\ old' \in BOOLEAN /\ (Steps' => (old' <=> Above(curq_)'))
  <2>1. old' \in BOOLEAN
    BY <1>a, <1>1, <1>3
  <2>2. PICK k : k = Len(q)
    OBVIOUS
  <2>3. curq_' = k /\ (Above(curq_)' <=> Above(k))
    BY <1>1, <2>2 DEF Above
  <2> QED BY <1>1, <1>5, <1>6, <2>1, <2>2, <2>3
<1>8. v_ave' \in 0 .. red.limit /\ curq_' \in 0 .. red.limit
  BY <1>1, <1>2, <1>3
<1>9. ASSUME Waiting(P)' PROVE QueueOf(P)'
  BY <1>1, <1>3, <1>4, <1>7, <1>8, <1>9 DEF QueueOf
<1>10. CASE (over \/ full \/ (hit /\ ~ MayMark(p, ave))) /\ Drops(P, r)
  <2>1. Waiting(P)' /\ ~ Joined
    BY <1>1, <1>10, DropsJoinNothing
  <2>2. wire # <<>>
    BY <1>10 DEF Drops
  <2>3. ASSUME Steps, p.ect PROVE Len(q) >= red.limit
    <3>1. MayMark(p, ave)
      BY <2>3 DEF MayMark, Steps
    <3> QED BY <1>1, <1>6, <1>10, <2>3, <3>1
  <2> QED BY <1>9, <2>1, <2>2, <2>3
<1>11. CASE ~ over /\ ~ full /\ Joins(r)
  <2>1. Waiting(P)' /\ Joined /\ NewPacket = r
    BY <1>1, <1>3, <1>11, JoinsLast
  <2>2. r.ect = p.ect /\ r.ce = (hit /\ MayMark(p, ave))
    BY <1>1 DEF PacketsTo
  <2>3. ASSUME Steps PROVE r.ce <=> r.ect /\ Above(Len(q)) /\ Above(curq_)
    <3>1. MayMark(p, ave) <=> p.ect
      BY <2>3 DEF MayMark, Steps
    <3>2. asked <=> Above(Len(q)) /\ Above(curq_)
      BY <1>1, <1>3, <1>6, <2>3
    <3>3. hit <=> asked
      <4>1. CASE asked
        <5>1. ave \in Int /\ ave >= red.th_max /\ count + 1 \in Nat \ {0}
          BY <1>1, <1>2, <1>3, <2>3, <4>1, UnitIsPositive DEF Steps
        <5>2. FALSE \notin DropEarly(ave, count + 1)
          BY <5>1, DropEarlyAbove
        <5> QED BY <1>1, <4>1, <5>2
      <4>2. CASE ~ asked
        BY <1>1, <4>2
      <4> QED BY <4>1, <4>2
    <3> QED BY <2>2, <3>1, <3>2, <3>3
  <2> QED BY <1>9, <2>1, <2>3
<1> QED BY <1>1, <1>10, <1>11

(* A departure leaves the queue one shorter, and nothing joins it.         *)
LEMMA ResumeServes ==
  ASSUME NEW P, QueueOf(P), Resume
  PROVE  QueueOf(P)' /\ ~ Joined /\ wire # <<>>
<1>1. /\ q \in Seq(P) /\ wire \in Seq(P) /\ wire # <<>> /\ Len(wire) = 1 /\ Len(q) <= red.limit
      /\ Len(q) \in Nat /\ red.limit \in Nat
  <2>1. q \in Seq(P) /\ wire \in Seq(P) /\ wire # <<>> /\ Len(wire) <= 1
        /\ Len(q) <= red.limit /\ red.limit \in Nat
    BY DEF QueueOf, Waiting, AllQueues, Resume
  <2>2. Len(wire) \in Nat /\ Len(wire) # 0 /\ Len(q) \in Nat
    BY <2>1, EmptySeq
  <2>3. Len(wire) = 1
    <3>1. PICK k \in Nat : k = Len(wire) /\ k <= 1 /\ k # 0
      BY <2>1, <2>2
    <3>2. k = 1
      BY <3>1
    <3> QED BY <3>1, <3>2
  <2> QED BY <2>1, <2>2, <2>3
<1>2. PICK a \in Seq(P), w \in Seq(P), k \in Nat : a = q /\ w = wire /\ k = Len(a) /\ Len(w) = 1
  BY <1>1
<1>3. Len(a \o w) = k + 1
  BY <1>2, ConcatProperties
<1>4. Waiting(P)' /\ Len(q' \o wire') = k
  <2>1. CASE q = <<>>
    <3>1. wire' = <<>> /\ q' = <<>> /\ UNCHANGED red
      BY <2>1 DEF Resume
    <3>2. <<>> \in Seq(P) /\ Len(<<>>) = 0 /\ <<>> \o <<>> = <<>>
      OBVIOUS
    <3>3. k = 0
      BY <1>2, <2>1, <3>2
    <3> QED BY <1>1, <3>1, <3>2, <3>3 DEF Waiting
  <2>2. CASE q # <<>>
    <3>1. wire' = <<Head(a)>> /\ q' = Tail(a) /\ UNCHANGED red
      BY <1>2, <2>2 DEF Resume
    <3>2. k >= 1 /\ Head(a) \in P /\ Tail(a) \in Seq(P) /\ Len(Tail(a)) = k - 1
      BY <1>2, <2>2, HeadTailProperties, EmptySeq
    <3>3. PICK h \in P, b \in Seq(P) : h = Head(a) /\ b = Tail(a) /\ Len(b) = k - 1
      BY <3>2
    <3>4. <<h>> \in Seq(P) /\ Len(<<h>>) = 1 /\ <<h>> # <<>>
      OBVIOUS
    <3>5. Len(b \o <<h>>) = (k - 1) + 1
      BY <3>3, <3>4, ConcatProperties
    <3>6. wire' = <<h>> /\ q' = b /\ (k - 1) + 1 = k
      BY <1>2, <3>1, <3>3
    <3>7. Len(q') <= red.limit
      BY <1>1, <1>2, <3>3, <3>6
    <3> QED BY <3>1, <3>3, <3>4, <3>5, <3>6, <3>7 DEF Waiting
  <2> QED BY <2>1, <2>2
<1>5. ~ Joined
  BY <1>2, <1>3, <1>4 DEF Joined
<1>6. UNCHANGED <<red, v_ave, count, old, curq_>>
  BY DEF Resume
<1>7. CountBound' = CountBound /\ (Steps' <=> Steps)
  BY <1>6 DEF CountBound, Unit, th_diff, Steps
<1>8. Above(curq_)' <=> Above(curq_)
  BY <1>6 DEF Above
<1> QED BY <1>1, <1>4, <1>5, <1>6, <1>7, <1>8 DEF QueueOf

-------------------------------------------------------------------------------
(* The invariant.                                                          *)

(* The ACKs in flight tell what the sink has.                              *)
AckRecords == [seqno : Int, ecnecho : BOOLEAN, sacked : SUBSET Int]

AcksAreTrue ==
  /\ acks \in Seq(AckRecords)
  /\ \A i \in DOMAIN acks : IsTrueAck(acks[i], received)

FlowInv ==
  /\ case \in Cases
  /\ left \in [others : Nat, timeouts : Nat, checks : Nat]
  /\ SenderInv /\ IsABag(data)
  /\ received \subseteq 0 .. maxseq_ /\ KnowsOnly(received)
  /\ AcksAreTrue

(* The segment that is timed has been sent, and not since: it is below the *)
(* next one.                                                               *)
ClockInv ==
  /\ rtt \in Estimates /\ rtt.rtt_seq_ \in -1 .. maxseq_
  /\ rtt.rtt_active_ => rtt.rtt_seq_ >= 0 /\ rtt.rtt_seq_ < t_seqno_

(* The window of alpha that comes next ends no earlier than maxseq_ at the *)
(* last update, unless timeouts have set the sender back.                  *)
AlphaInv ==
  /\ CountsMarks(dctcp)
  /\ alphaSince \in Nat /\ behind \in BOOLEAN
  /\ alphaSince = 0 \/ alphaSince <= maxseq_
  /\ conf.dctcp_ =>
       /\ alphaSince <= dctcp.dctcp_alpha_update_seq
       /\ ~ behind => dctcp.dctcp_maxseq >= maxseq_

(* What FlowBender has counted has come back.                              *)
IntervalInv ==
  /\ congested \in Nat /\ heard \in BOOLEAN
  /\ dctcp.numRTTsCongested_ <= congested
  /\ dctcp.markedAckPkts_F > 0 => heard /\ case.flowBender_
  /\ ~ case.flowBender_ => dctcp.numRTTsCongested_ = 0

(* The segments that tell of a cut are among those on their way.           *)
CwrInv ==
  /\ IsABag(cwr)
  /\ \A s \in BagToSet(cwr) : s \in BagToSet(data) /\ cwr[s] <= data[s]

BInv ==
  /\ FlowInv /\ ClockInv /\ AlphaInv /\ IntervalInv /\ QueueOf(PacketsTo(maxseq_)) /\ CwrInv

-------------------------------------------------------------------------------
(* What a step of the sender sends.                                        *)

(* A set of natural numbers that is not empty has a least one.             *)
LEMMA MinIsLeast ==
  ASSUME NEW S, S \subseteq Nat, S # {}
  PROVE  Min(S) \in S /\ \A y \in S : Min(S) <= y
<1>1. PICK m \in S : \A y \in S : ~ (<<y, m>> \in OpToRel(<, Nat))
  BY NatLessThanWellFounded, WFMin
<1>2. \A y \in S : <<y, m>> \in Nat \X Nat
  OBVIOUS
<1>3. \A y \in S : ~ (y < m)
  BY <1>1, <1>2 DEF OpToRel
<1>4. \A y \in S : m <= y
  BY <1>3
<1> QED BY <1>4 DEF Min

(* SentNow is the bag of what output() has sent.                           *)
LEMMA SentNowIs ==
  ASSUME IsABag(data), NEW resent, NEW fresh, NEW t, Output(resent, fresh, t)
  PROVE  /\ BagToSet(SentNow) = resent \union fresh
         /\ SentNow = EmptyBag <=> resent \union fresh = {}
<1> DEFINE S == resent \union fresh
           D == [e \in DOMAIN data' |-> IF e \in DOMAIN data THEN data'[e] - data[e]
                                        ELSE data'[e]]
           X == SentNow
<1>1. X = [e \in {d \in DOMAIN D : D[d] > 0} |-> D[e]]
  BY DEF (-), SentNow
<1>2. /\ IsABag(data')
      /\ \A s \in BagToSet(data') : s \notin S => s \in BagToSet(data) /\ data'[s] = data[s]
      /\ \A s \in S : s \in BagToSet(data') /\ (s \in BagToSet(data) => data'[s] > data[s])
  BY OutputBag
<1>3. /\ \A e \in DOMAIN data : data[e] \in Nat
      /\ \A e \in DOMAIN data' : data'[e] \in Nat /\ data'[e] > 0
  BY <1>2 DEF IsABag
<1>4. DOMAIN X = {d \in DOMAIN data' : D[d] > 0}
  BY <1>1
<1>5. ASSUME NEW s \in S PROVE s \in DOMAIN data' /\ D[s] > 0
  BY <1>2, <1>3, <1>5 DEF BagToSet
<1>6. ASSUME NEW s \in DOMAIN data', D[s] > 0 PROVE s \in S
  <2> SUFFICES ASSUME s \notin S PROVE FALSE
    OBVIOUS
  <2>1. s \in DOMAIN data /\ data'[s] = data[s] /\ data[s] \in Nat
    BY <1>2, <1>3 DEF BagToSet
  <2>2. D[s] = data'[s] - data[s]
    BY <2>1
  <2> HIDE DEF D
  <2> QED BY <1>6, <2>1, <2>2
<1>7. DOMAIN X = S
  BY <1>4, <1>5, <1>6
<1>8. X = EmptyBag => S = {}
  BY <1>7 DEF EmptyBag, SetToBag
<1>9. S = {} => X = EmptyBag
  <2>1. ASSUME S = {} PROVE X = [e \in {} |-> 1]
    <3>1. {d \in DOMAIN D : D[d] > 0} = {}
      BY <1>1, <1>7, <2>1
    <3> HIDE DEF D
    <3> QED BY <1>1, <3>1
  <2> QED BY <2>1 DEF EmptyBag, SetToBag
<1> HIDE DEF X, D
<1>10. BagToSet(X) = S
  BY <1>7 DEF BagToSet
<1> QED BY <1>8, <1>9, <1>10 DEF X

(* The numbers that a step of the sender sends.                            *)
LEMMA SentNumbers ==
  ASSUME IsABag(data), maxseq_ \in Int, maxseq_ >= -1, NEW resent, NEW k, k >= 0,
         Sends(resent, k)
  PROVE  /\ BagToSet(SentNow) = resent \union (k .. t_seqno_' - 1)
         /\ BagToSet(SentNow) \subseteq 0 .. maxseq_'
         /\ SentNow = EmptyBag <=> BagToSet(SentNow) = {}
         /\ maxseq_' > maxseq_ => maxseq_' \in BagToSet(SentNow)
<1>1. PICK n, timer, top : /\ n = t_seqno_' /\ top = maxseq_'
                           /\ Output(resent, k .. n - 1, timer)
  BY DEF Sends
<1>2. k \in Int /\ n \in Int /\ k <= n /\ resent \subseteq 0 .. maxseq_
  BY <1>1 DEF Sends
<1>3. /\ top \in Int /\ top >= maxseq_
      /\ top > maxseq_ => top = n - 1 /\ k <= top
      /\ n > k => top >= n - 1
  BY <1>1, SendsTop
<1>4. /\ BagToSet(SentNow) = resent \union (k .. n - 1)
      /\ SentNow = EmptyBag <=> resent \union (k .. n - 1) = {}
  BY <1>1, SentNowIs
<1>5. k .. n - 1 \subseteq 0 .. top
  BY <1>2, <1>3
<1>6. resent \subseteq 0 .. top
  BY <1>2, <1>3
<1>7. top > maxseq_ => top \in k .. n - 1
  BY <1>2, <1>3
<1> QED BY <1>1, <1>4, <1>5, <1>6, <1>7

-------------------------------------------------------------------------------
(* What a step of the sender does to the clock, to DCTCP's record and to   *)
(* the segments that tell of a cut.  It comes to e and d before output().  *)

(* What the parts of the invariant say of types.                           *)
LEMMA FlowTypes ==
  FlowInv =>
    /\ maxseq_ \in Int /\ maxseq_ >= -1
    /\ t_seqno_ \in Nat /\ t_seqno_ <= maxseq_ + 1
    /\ highest_ack_ \in Int /\ highest_ack_ >= -1 /\ highest_ack_ <= maxseq_
    /\ conf.ecn_ \in BOOLEAN /\ conf.dctcp_ \in BOOLEAN /\ conf.size \in Nat
    /\ maxseq_ <= conf.size
    /\ case.flowBender_ \in BOOLEAN /\ case.samples \subseteq Nat
<1> SUFFICES ASSUME FlowInv
             PROVE  /\ maxseq_ \in Int /\ maxseq_ >= -1
                    /\ t_seqno_ \in Nat /\ t_seqno_ <= maxseq_ + 1
                    /\ highest_ack_ \in Int /\ highest_ack_ >= -1 /\ highest_ack_ <= maxseq_
                    /\ conf.ecn_ \in BOOLEAN /\ conf.dctcp_ \in BOOLEAN /\ conf.size \in Nat
                    /\ maxseq_ <= conf.size
                    /\ case.flowBender_ \in BOOLEAN /\ case.samples \subseteq Nat
  OBVIOUS
<1>1. /\ conf \in AllSettings
      /\ maxseq_ \in -1 .. conf.size
      /\ highest_ack_ \in -1 .. maxseq_ /\ last_ack_ \in -1 .. highest_ack_
      /\ t_seqno_ \in last_ack_ + 1 .. maxseq_ + 1
  BY SenderAssumption DEF FlowInv, SenderInv, SenderTypeOK
<1>2. conf.ecn_ \in BOOLEAN /\ conf.dctcp_ \in BOOLEAN /\ conf.size \in Nat
  BY <1>1 DEF AllSettings
<1>3. maxseq_ \in Int /\ maxseq_ >= -1 /\ maxseq_ <= conf.size
  BY <1>1, <1>2
<1>4. highest_ack_ \in Int /\ highest_ack_ >= -1 /\ highest_ack_ <= maxseq_ /\ last_ack_ \in Int
      /\ last_ack_ >= -1
  BY <1>1, <1>3
<1>5. t_seqno_ \in Nat /\ t_seqno_ <= maxseq_ + 1
  BY <1>1, <1>3, <1>4
<1>6. case \in AllCases
  BY CasesAssumption DEF FlowInv
<1>7. case.flowBender_ \in BOOLEAN /\ case.samples \in SUBSET Samples
  BY <1>6 DEF AllCases
<1> QED BY <1>2, <1>3, <1>4, <1>5, <1>7, CasesAssumption

(* What ClockStep, FeedbackStep and CwrStep ask of a step that sends.      *)
SendsFrom(resent, k) ==
  /\ IsABag(data) /\ maxseq_ \in Int /\ maxseq_ >= -1
  /\ k >= 0 /\ Sends(resent, k)

(* The clock keeps the segment that it timed before, or takes the new one. *)
LEMMA ClockStep ==
  ASSUME ClockInv, t_seqno_ \in Nat, NEW resent, NEW k, SendsFrom(resent, k),
         NEW e, Retimes(rtt, e),
         e.rtt_active_ => k >= t_seqno_ /\ (resent # {} => fastrecov_),
         NEW d, NEW slowed, Sending(e, d, slowed)
  PROVE  /\ ClockInv'
         /\ rtt'.t_rtt_ = e.t_rtt_ /\ rtt'.t_rtxcur_ = e.t_rtxcur_
         /\ rtt'.t_backoff_ = e.t_backoff_ /\ (rtt'.rtt_active_ \/ rtt' = e)
         /\ rtt'.rtt_active_ /\ rtt'.rtt_seq_ <= maxseq_ /\ BagIn(rtt'.rtt_seq_, SentNow)
              => fastrecov_
<1>1. PICK f, m, n : f = rtt' /\ m = maxseq_' /\ n = t_seqno_'
  OBVIOUS
<1>2. /\ m \in Int /\ m >= maxseq_ /\ k \in Int /\ n \in Int /\ k <= n
      /\ m > maxseq_ => m = n - 1 /\ k <= m
      /\ n > k => m >= n - 1
  <2>1. k \in Int /\ n \in Int /\ k <= n
    BY <1>1 DEF SendsFrom, Sends
  <2> QED BY <1>1, <2>1, SendsTop DEF SendsFrom
<1>3. /\ e \in Estimates /\ e.rtt_seq_ = rtt.rtt_seq_ /\ e.rtt_seq_ \in -1 .. maxseq_
      /\ e.rtt_active_ => e.rtt_seq_ >= 0 /\ e.rtt_seq_ < t_seqno_
      /\ maxseq_ \in Int /\ maxseq_ >= -1 /\ k >= 0
  BY DEF ClockInv, Retimes, SendsFrom
<1>4. BagToSet(SentNow) = resent \union (k .. n - 1)
  BY <1>1, SentNumbers DEF SendsFrom
<1>5. f = IF m > maxseq_ THEN Timing(e, maxseq_ + 1) ELSE e
  BY <1>1 DEF Sending
<1>6. /\ f \in Estimates
      /\ f.t_rtt_ = e.t_rtt_ /\ f.t_rtxcur_ = e.t_rtxcur_ /\ f.t_backoff_ = e.t_backoff_
      /\ f.rtt_active_ \/ f = e
      /\ \/ f.rtt_seq_ = e.rtt_seq_ /\ (f.rtt_active_ => e.rtt_active_)
         \/ f.rtt_seq_ = maxseq_ + 1 /\ m > maxseq_
  <2>1. CASE m > maxseq_
    <3>1. maxseq_ + 1 \in Int /\ e.rtt_seq_ < maxseq_ + 1
      BY <1>3
    <3>2. /\ f \in Estimates /\ f.rtt_active_
          /\ f.rtt_seq_ = (IF e.rtt_active_ THEN e.rtt_seq_ ELSE maxseq_ + 1)
          /\ f.t_rtt_ = e.t_rtt_ /\ f.t_rtxcur_ = e.t_rtxcur_ /\ f.t_backoff_ = e.t_backoff_
      BY <1>3, <1>5, <2>1, <3>1, TimingTimes
    <3> QED BY <2>1, <3>2
  <2>2. CASE ~ (m > maxseq_)
    BY <1>3, <1>5, <2>2
  <2> QED BY <2>1, <2>2
<1>7. CASE f.rtt_seq_ = e.rtt_seq_ /\ (f.rtt_active_ => e.rtt_active_)
  <2>1. f.rtt_seq_ \in -1 .. m
    BY <1>2, <1>3, <1>7
  <2>2. ASSUME f.rtt_active_ PROVE f.rtt_seq_ >= 0 /\ f.rtt_seq_ < n /\ f.rtt_seq_ < k
    BY <1>2, <1>3, <1>7, <2>1, <2>2
  <2>3. ClockInv'
    BY <1>1, <1>6, <2>1, <2>2 DEF ClockInv
  <2>4. ASSUME f.rtt_active_, BagIn(f.rtt_seq_, SentNow) PROVE fastrecov_
    <3>1. f.rtt_seq_ \in resent \union (k .. n - 1)
      BY <1>4, <2>4 DEF BagIn
    <3>2. f.rtt_seq_ \in resent
      BY <1>2, <2>1, <2>2, <2>4, <3>1
    <3> QED BY <1>7, <2>4, <3>2
  <2> QED BY <1>1, <1>6, <2>3, <2>4
<1>8. CASE f.rtt_seq_ = maxseq_ + 1 /\ m > maxseq_
  <2>1. f.rtt_seq_ \in -1 .. m /\ f.rtt_seq_ >= 0 /\ f.rtt_seq_ < n
    BY <1>2, <1>3, <1>8
  <2>2. ClockInv'
    BY <1>1, <1>6, <2>1 DEF ClockInv
  <2>3. ~ (f.rtt_seq_ <= maxseq_)
    BY <1>3, <1>8
  <2> QED BY <1>1, <1>6, <2>2, <2>3
<1> QED BY <1>6, <1>7, <1>8

(* dctcp_maxseq follows maxseq_; output() counts nothing.                  *)
LEMMA FeedbackStep ==
  ASSUME NEW resent, NEW k, SendsFrom(resent, k), conf.dctcp_ \in BOOLEAN,
         NEW e, NEW d, CountsMarks(d), NEW slowed, Sending(e, d, slowed)
  PROVE  /\ CountsMarks(dctcp')
         /\ dctcp'.dctcp_maxseq >= d.dctcp_maxseq
         /\ conf.dctcp_ /\ maxseq_' > maxseq_ => dctcp'.dctcp_maxseq >= maxseq_'
         /\ dctcp'.dctcp_alpha_update_seq = d.dctcp_alpha_update_seq
         /\ dctcp'.numRTTsCongested_ = d.numRTTsCongested_ /\ dctcp'.defttl_ = d.defttl_
         /\ dctcp'.markedAckPkts_F = d.markedAckPkts_F
<1>1. PICK f, m, S : f = dctcp' /\ m = maxseq_' /\ S = BagToSet(SentNow)
  OBVIOUS
<1>2. /\ S \subseteq 0 .. m /\ (SentNow = EmptyBag <=> S = {})
      /\ m > maxseq_ => m \in S
  BY <1>1, SentNumbers DEF SendsFrom
<1>3. m \in Int
  BY <1>1, SendsTop DEF SendsFrom
<1>4. f = IF SentNow = EmptyBag \/ ~ conf.dctcp_ THEN d ELSE DctcpSent(d, Max(S))
  BY <1>1 DEF Sending
<1>5. CASE S = {} \/ ~ conf.dctcp_
  <2>1. f = d /\ ~ (conf.dctcp_ /\ m > maxseq_)
    BY <1>2, <1>4, <1>5
  <2>2. f.dctcp_maxseq >= d.dctcp_maxseq
    BY <2>1 DEF CountsMarks, Feedback
  <2> QED BY <1>1, <2>1, <2>2
<1>6. CASE S # {} /\ conf.dctcp_
  <2>1. PICK x : x = Max(S)
    OBVIOUS
  <2>2. x \in S /\ \A y \in S : x >= y
    BY <1>2, <1>3, <1>6, <2>1, GreatestSegment
  <2>3. x \in Nat /\ (m > maxseq_ => x >= m)
    BY <1>2, <1>3, <2>2
  <2>4. f = DctcpSent(d, x)
    BY <1>2, <1>4, <1>6, <2>1
  <2>5. /\ CountsMarks(f)
        /\ f.dctcp_maxseq >= d.dctcp_maxseq /\ f.dctcp_maxseq >= x
        /\ f.dctcp_alpha_update_seq = d.dctcp_alpha_update_seq
        /\ f.numRTTsCongested_ = d.numRTTsCongested_ /\ f.defttl_ = d.defttl_
        /\ f.markedAckPkts_F = d.markedAckPkts_F
    BY <2>3, <2>4, SentRaisesMaxseq
  <2>6. m > maxseq_ => f.dctcp_maxseq >= m
    <3>1. f.dctcp_maxseq \in Nat
      BY <2>5 DEF CountsMarks, Feedback
    <3> QED BY <1>3, <2>3, <2>5, <3>1
  <2> QED BY <1>1, <2>5, <2>6
<1> QED BY <1>5, <1>6

(* The segment that tells of the cut is one that has just been sent.       *)
LEMMA CwrStep ==
  ASSUME CwrInv, NEW resent, NEW k, SendsFrom(resent, k),
         NEW e, NEW d, NEW slowed, Sending(e, d, slowed)
  PROVE  CwrInv' /\ IsABag(data')
<1>1. PICK n, timer, top : n = t_seqno_' /\ top = maxseq_' /\ Output(resent, k .. n - 1, timer)
  BY DEF SendsFrom, Sends
<1>2. PICK S : S = BagToSet(SentNow)
  OBVIOUS
<1>3. /\ S = resent \union (k .. n - 1) /\ S \subseteq 0 .. top
      /\ SentNow = EmptyBag <=> S = {}
  BY <1>1, <1>2, SentNumbers DEF SendsFrom
<1>4. PICK D : D = data'
  OBVIOUS
<1>5. /\ IsABag(D)
      /\ \A s \in S : s \in BagToSet(D) /\ (s \in BagToSet(data) => D[s] > data[s])
      /\ \A s \in BagToSet(data) : s \in BagToSet(D) /\ D[s] >= data[s]
  BY <1>1, <1>3, <1>4, OutputBag DEF SendsFrom
<1>6. /\ IsABag(cwr)
      /\ \A s \in BagToSet(cwr) : s \in BagToSet(data) /\ cwr[s] <= data[s]
      /\ \A s \in BagToSet(cwr) : cwr[s] \in Nat
      /\ \A s \in BagToSet(data) : data[s] \in Nat
      /\ \A s \in BagToSet(D) : D[s] \in Nat /\ D[s] > 0
  BY <1>5 DEF CwrInv, SendsFrom, IsABag, BagToSet
<1>7. CASE cwr' = cwr
  <2>1. ASSUME NEW s \in BagToSet(cwr) PROVE s \in BagToSet(D) /\ cwr[s] <= D[s]
    BY <1>5, <1>6, <2>1
  <2> QED BY <1>4, <1>5, <1>6, <1>7, <2>1 DEF CwrInv
<1>8. CASE S # {} /\ cwr' = cwr (+) SetToBag({FirstSent})
  <2>1. FirstSent \in S
    <3> DEFINE R == S \intersect (retran' \ retran)
    <3>1. FirstSent = Min(IF R # {} THEN R ELSE S)
      BY <1>2 DEF FirstSent
    <3>2. S \subseteq Nat /\ R \subseteq S
      BY <1>3
    <3> HIDE DEF R
    <3> QED BY <1>8, <3>1, <3>2, MinIsLeast
  <2>2. PICK x : x = FirstSent
    OBVIOUS
  <2>3. PICK C : C = cwr' /\ C = cwr (+) SetToBag({x})
    BY <1>8, <2>2
  <2>4. /\ IsABag(C)
        /\ \A s \in BagToSet(C) : s # x => s \in BagToSet(cwr) /\ C[s] = cwr[s]
    BY <1>6, <2>3, BagPlus
  <2>5. x \in BagToSet(C) => C[x] = (IF x \in BagToSet(cwr) THEN cwr[x] ELSE 0) + 1
    BY <2>3 DEF BagToSet, SetToBag, (+)
  <2>6. ASSUME NEW s \in BagToSet(C) PROVE s \in BagToSet(D) /\ C[s] <= D[s]
    <3>1. CASE s # x
      BY <1>5, <1>6, <2>4, <2>6, <3>1
    <3>2. CASE s = x /\ x \in BagToSet(cwr)
      <4>1. x \in BagToSet(D) /\ x \in BagToSet(data) /\ D[x] > data[x] /\ cwr[x] <= data[x]
        BY <1>5, <1>6, <2>1, <2>2, <3>2
      <4>2. C[x] = cwr[x] + 1
        BY <2>5, <2>6, <3>2
      <4> QED BY <1>6, <3>2, <4>1, <4>2
    <3>3. CASE s = x /\ x \notin BagToSet(cwr)
      <4>1. x \in BagToSet(D) /\ D[x] \in Nat /\ D[x] > 0
        BY <1>5, <1>6, <2>1, <2>2
      <4>2. C[x] = 1
        BY <2>5, <2>6, <3>3
      <4> QED BY <3>3, <4>1, <4>2
    <3> QED BY <3>1, <3>2, <3>3
  <2> QED BY <1>4, <1>5, <2>3, <2>4, <2>6 DEF CwrInv
<1>9. cwr' = cwr \/ (S # {} /\ cwr' = cwr (+) SetToBag({FirstSent}))
  BY <1>3 DEF Sending
<1> QED BY <1>4, <1>5, <1>7, <1>8, <1>9

-------------------------------------------------------------------------------
(* The flow.                                                               *)

(* Every branch of recv keeps the settings.                                *)
LEMMA HandlesKeepConf ==
  ASSUME NEW ack, NEW w, Handles(ack, w)
  PROVE  conf' = conf
BY DEF Handles, RecvNewAck, RecvNoNews, LimitedTransmit, FastRetransmit, EcnRetransmit,
       CountDuplicate, EndRecovery, PartialAck, RecoveryDupAck, DuplicateAck

(* Only a duplicate ACK starts a recovery.                                 *)
LEMMA DuplicateStarts ==
  ASSUME NEW ack, NEW w, Handles(ack, w), ~ fastrecov_, fastrecov_'
  PROVE  ack.seqno = last_ack_
BY DEF Handles, RecvNewAck, RecvNoNews, LimitedTransmit, FastRetransmit, EcnRetransmit,
       CountDuplicate, EndRecovery, PartialAck, RecoveryDupAck, DuplicateAck

(* The flow again, after a step of the sender.                             *)
LEMMA SenderStep ==
  ASSUME FlowInv, Kept(received), UNCHANGED <<received, case>>, IsABag(data'),
         acks' \in Seq(AckRecords),
         \A i \in DOMAIN acks' : \E j \in DOMAIN acks : acks'[i] = acks[j],
         left' \in [others : Nat, timeouts : Nat, checks : Nat]
  PROVE  FlowInv' /\ maxseq_' \in Int /\ maxseq_' >= maxseq_
<1>1. maxseq_ \in Int /\ maxseq_' \in Int /\ maxseq_ <= maxseq_'
  BY SenderAssumption DEF FlowInv, Kept, SenderInv, SenderTypeOK, AllSettings
<1>2. SenderInv' /\ KnowsOnly(received)'
  BY DEF Kept, KnowsOnly
<1>3. received' \subseteq 0 .. maxseq_'
  BY <1>1 DEF FlowInv
<1>4. AcksAreTrue'
  <2>1. PICK A : A = acks' /\ A \in Seq(AckRecords)
    OBVIOUS
  <2>2. ASSUME NEW i \in DOMAIN A PROVE IsTrueAck(A[i], received)'
    <3>1. PICK j \in DOMAIN acks : A[i] = acks[j]
      BY <2>1
    <3>2. IsTrueAck(A[i], received)
      BY <3>1 DEF FlowInv, AcksAreTrue
    <3> QED BY <1>1, <3>2 DEF IsTrueAck
  <2> QED BY <2>1, <2>2 DEF AcksAreTrue
<1> QED BY <1>1, <1>2, <1>3, <1>4 DEF FlowInv

(* What Kept(R) says of received, when R is received.                      *)
LEMMA KeptReceived ==
  ASSUME NEW R, R = received, UNCHANGED received, Kept(R)
  PROVE  Kept(received)
BY DEF Kept, KnowsOnly

(* The queue does not mind new segments.                                   *)
LEMMA QueueWaits ==
  ASSUME QueueOf(PacketsTo(maxseq_)), UNCHANGED queueVars,
         maxseq_ \in Int, maxseq_' \in Int, maxseq_' >= maxseq_
  PROVE  QueueOf(PacketsTo(maxseq_))'
<1>1. PICK m, n \in Int : m = maxseq_ /\ n = maxseq_' /\ m <= n
  OBVIOUS
<1>2. PacketsTo(m) \subseteq PacketsTo(n)
  BY <1>1 DEF PacketsTo
<1>3. q \in Seq(PacketsTo(m)) /\ wire \in Seq(PacketsTo(m))
  BY <1>1 DEF QueueOf, Waiting
<1>4. q \in Seq(PacketsTo(n)) /\ wire \in Seq(PacketsTo(n))
  BY <1>2, <1>3, SeqMonotonic
<1>5. CountBound' = CountBound /\ (Steps' <=> Steps)
  BY DEF CountBound, Unit, th_diff, Steps, queueVars
<1>6. Above(curq_)' <=> Above(curq_)
  BY DEF Above, queueVars
<1>7. Waiting(PacketsTo(n))'
  BY <1>4 DEF QueueOf, Waiting, queueVars
<1>8. QueueOf(PacketsTo(n))'
  BY <1>5, <1>6, <1>7 DEF QueueOf, queueVars
<1> QED BY <1>1, <1>8

(* Nothing joins or leaves the queue.                                      *)
LEMMA QueueRests ==
  ASSUME NEW P, QueueOf(P), UNCHANGED queueVars
  PROVE  ~ Joined
<1>1. q \in Seq(P) /\ wire \in Seq(P)
  BY DEF QueueOf, Waiting
<1>2. PICK k \in Nat : k = Len(q \o wire)
  BY <1>1, ConcatProperties
<1>3. Len(q' \o wire') = k
  BY <1>2 DEF queueVars
<1> QED BY <1>2, <1>3 DEF Joined

(* What the first packet on the queue of ACKs leaves.                      *)
LEMMA TailOfAcks ==
  ASSUME acks \in Seq(AckRecords), acks # <<>>
  PROVE  /\ Tail(acks) \in Seq(AckRecords)
         /\ \A i \in DOMAIN Tail(acks) : \E j \in DOMAIN acks : Tail(acks)[i] = acks[j]
         /\ 1 \in DOMAIN acks /\ Head(acks) = acks[1] /\ Head(acks) \in AckRecords
<1>1. PICK n \in Nat \ {0} : n = Len(acks) /\ DOMAIN acks = 1 .. n
  BY EmptySeq, LenProperties
<1>2. PICK t \in Seq(AckRecords) : /\ t = Tail(acks) /\ Len(t) = n - 1
                                   /\ \A i \in 1 .. Len(t) : t[i] = acks[i + 1]
  BY <1>1, HeadTailProperties
<1>3. DOMAIN t = 1 .. n - 1
  BY <1>2, LenProperties
<1>4. ASSUME NEW i \in DOMAIN t PROVE \E j \in DOMAIN acks : t[i] = acks[j]
  <2>1. i + 1 \in 1 .. n
    BY <1>1, <1>3
  <2> QED BY <1>1, <1>2, <1>3, <2>1
<1>5. 1 \in DOMAIN acks
  BY <1>1
<1>6. acks[1] \in AckRecords /\ Head(acks) = acks[1]
  BY <1>1, <1>5, ElementOfSeq
<1> QED BY <1>2, <1>4, <1>5, <1>6

-------------------------------------------------------------------------------
(* What every step does.                                                   *)

(* A sample that a short can hold is covered by the timeout it leaves.     *)
SampleIsCovered ==
  /\ rtt.rtt_active_ /\ ~ rtt'.rtt_active_ /\ rtt'.t_rtt_ # rtt.t_rtt_
  /\ Abs(rtt'.t_rtt_ - rtt.t_srtt_ \div 8) <= ShortMax
  => rtt'.t_rtxcur_ >= rtt'.t_rtt_

TimedOnce ==
  rtt'.rtt_active_ /\ rtt'.rtt_seq_ <= maxseq_ /\ BagIn(rtt'.rtt_seq_, SentNow) => fastrecov_

MarkedByTheQueue ==
  /\ Steps /\ Joined => (NewPacket.ce <=> NewPacket.ect /\ Above(Len(q)) /\ Above(curq_))
  /\ Steps /\ Refused /\ conf.ecn_ /\ conf.dctcp_ => Len(q) >= red.limit
  /\ Refused => wire # <<>>

Behaves == SampleIsCovered /\ TimedOnce /\ MarkedByTheQueue /\ RerouteIsEarned

(* A step of the sender leaves the queue alone.                            *)
LEMMA QueueAside ==
  ASSUME QueueOf(PacketsTo(maxseq_)), UNCHANGED queueVars, left'.others = left.others,
         left.others \in Nat, NEW resent, NEW k, SendsFrom(resent, k)
  PROVE  QueueOf(PacketsTo(maxseq_))' /\ MarkedByTheQueue
<1>1. maxseq_ \in Int /\ maxseq_' \in Int /\ maxseq_' >= maxseq_
  BY SendsTop DEF SendsFrom
<1>2. QueueOf(PacketsTo(maxseq_))'
  BY <1>1, QueueWaits
<1>3. ~ Joined
  BY QueueRests
<1>4. PICK D, n, timer : D = data' /\ n = t_seqno_' /\ Output(resent, k .. n - 1, timer)
  BY DEF SendsFrom, Sends
<1>5. IsABag(data) /\ IsABag(D) /\ \A s \in BagToSet(data) : s \in BagToSet(D) /\ D[s] >= data[s]
  BY <1>4, OutputBag DEF SendsFrom
<1>6. ASSUME NEW s \in BagToSet(data) PROVE ~ (Copies(s, D) < Copies(s, data))
  <2>1. Copies(s, D) = D[s] /\ Copies(s, data) = data[s]
    BY <1>5, <1>6 DEF Copies, BagIn
  <2>2. D[s] \in Nat /\ data[s] \in Nat /\ D[s] >= data[s]
    BY <1>5, <1>6 DEF IsABag, BagToSet
  <2> QED BY <2>1, <2>2
<1>7. ~ Refused
  BY <1>4, <1>6 DEF Refused
<1> QED BY <1>2, <1>3, <1>7 DEF MarkedByTheQueue

(* Alpha's window again, after a step of the sender.                       *)
LEMMA AlphaFollows ==
  ASSUME FlowInv, conf' = conf, CountsMarks(dctcp'),
         NEW m \in Int, maxseq_' = m, m >= maxseq_,
         alphaSince' \in Nat, behind' \in BOOLEAN, alphaSince' = 0 \/ alphaSince' <= maxseq_,
         conf.dctcp_ => alphaSince' <= dctcp'.dctcp_alpha_update_seq,
         conf.dctcp_ /\ ~ behind' => dctcp'.dctcp_maxseq >= maxseq_,
         conf.dctcp_ /\ m > maxseq_ => dctcp'.dctcp_maxseq >= m
  PROVE  AlphaInv'
<1>1. PICK since, f, b : since = alphaSince' /\ f = dctcp' /\ b = behind'
  OBVIOUS
<1>2. maxseq_ \in Int /\ conf.dctcp_ \in BOOLEAN
  BY FlowTypes
<1>3. since = 0 \/ since <= m
  BY <1>1, <1>2
<1>4. conf.dctcp_ /\ ~ b => f.dctcp_maxseq >= m
  BY <1>1, <1>2
<1> QED BY <1>1, <1>3, <1>4 DEF AlphaInv

(* The flow starts with its SYN.                                           *)
LEMMA StartPreserves ==
  ASSUME BInv, Start
  PROVE  BInv' /\ Behaves
<1>1. FlowInv /\ ClockInv /\ AlphaInv /\ IntervalInv /\ QueueOf(PacketsTo(maxseq_)) /\ CwrInv
  BY DEF BInv
<1>2. /\ SendMsg /\ Sending(rtt, dctcp, FALSE)
      /\ UNCHANGED <<queueVars, received, ecn_unacked_, acks, case, left, alphaSince, behind,
                     due, heard, congested>>
  BY DEF Start, sinkVars, historyVars, alphaVars, intervalVars
<1>3. maxseq_ = -1 /\ t_seqno_ = 0
  <2>1. curseq_ = 0 /\ SenderTypeOK /\ conf.size \in Nat
    BY <1>1, <1>2, FlowTypes DEF SendMsg, FlowInv, SenderInv
  <2>2. maxseq_ = -1
    BY <2>1 DEF SenderTypeOK
  <2>3. highest_ack_ = -1 /\ last_ack_ \in -1 .. highest_ack_
    BY <2>1, <2>2 DEF SenderTypeOK
  <2> QED BY <2>1, <2>2, <2>3 DEF SenderTypeOK
<1>4. SendsFrom({}, 0)
  <2>1. PICK n : n = t_seqno_' /\ n = 1 /\ Output({}, {0}, FALSE)
    BY <1>2 DEF SendMsg
  <2>2. {0} = 0 .. n - 1
    BY <2>1
  <2>3. Output({}, 0 .. t_seqno_' - 1, FALSE)
    BY <2>1, <2>2
  <2>4. Sends({}, 0)
    <3>1. 0 \in Int /\ t_seqno_' \in Int /\ 0 <= t_seqno_'
      BY <2>1
    <3> QED BY <2>3, <3>1 DEF Sends
  <2> QED BY <1>1, <1>3, <2>4 DEF SendsFrom, FlowInv
<1>5. Kept(received)
  <2>1. PICK R : R = received
    OBVIOUS
  <2>2. Kept(R)
    BY <1>1, <1>2, <2>1, SendMsgPreserves DEF FlowInv
  <2> QED BY <1>2, <2>1, <2>2, KeptReceived
<1>6. CwrInv' /\ IsABag(data')
  BY <1>1, <1>2, <1>4, CwrStep
<1>7. FlowInv' /\ maxseq_' \in Int /\ maxseq_' >= maxseq_
  <2>1. /\ acks' \in Seq(AckRecords)
        /\ \A i \in DOMAIN acks' : \E j \in DOMAIN acks : acks'[i] = acks[j]
    BY <1>1, <1>2 DEF FlowInv, AcksAreTrue
  <2>2. left' \in [others : Nat, timeouts : Nat, checks : Nat]
    BY <1>1, <1>2 DEF FlowInv
  <2> QED BY <1>1, <1>2, <1>5, <1>6, <2>1, <2>2, SenderStep
<1>8. ClockInv' /\ SampleIsCovered /\ TimedOnce
  <2>1. Retimes(rtt, rtt)
    BY <1>1 DEF Retimes, ClockInv
  <2>2. t_seqno_ \in Nat /\ 0 >= t_seqno_
    BY <1>3
  <2>3. /\ ClockInv' /\ rtt'.t_rtt_ = rtt.t_rtt_ /\ TimedOnce
    BY <1>1, <1>2, <1>4, <2>1, <2>2, ClockStep DEF TimedOnce
  <2> QED BY <2>3 DEF SampleIsCovered
<1>9. /\ CountsMarks(dctcp')
      /\ dctcp'.dctcp_maxseq >= dctcp.dctcp_maxseq
      /\ conf.dctcp_ /\ maxseq_' > maxseq_ => dctcp'.dctcp_maxseq >= maxseq_'
      /\ dctcp'.dctcp_alpha_update_seq = dctcp.dctcp_alpha_update_seq
      /\ dctcp'.numRTTsCongested_ = dctcp.numRTTsCongested_ /\ dctcp'.defttl_ = dctcp.defttl_
      /\ dctcp'.markedAckPkts_F = dctcp.markedAckPkts_F
  BY <1>1, <1>2, <1>4, FlowTypes, FeedbackStep DEF AlphaInv
<1>10. conf' = conf
  BY <1>2 DEF SendMsg
<1>11. AlphaInv'
  <2>1. PICK f, m : f = dctcp' /\ m = maxseq_'
    OBVIOUS
  <2>2. f \in Feedback /\ dctcp \in Feedback
    BY <1>1, <1>9, <2>1 DEF CountsMarks, AlphaInv
  <2>3. f.dctcp_maxseq \in Nat /\ dctcp.dctcp_maxseq \in Nat
    BY <2>2 DEF Feedback
  <2>4. conf.dctcp_ /\ ~ behind => f.dctcp_maxseq >= maxseq_
    BY <1>1, <1>3, <2>1, <2>3
  <2> QED BY <1>1, <1>2, <1>7, <1>9, <1>10, <2>1, <2>4, AlphaFollows DEF AlphaInv
<1>12. IntervalInv' /\ RerouteIsEarned
  BY <1>1, <1>2, <1>9 DEF IntervalInv, RerouteIsEarned
<1>13. QueueOf(PacketsTo(maxseq_))' /\ MarkedByTheQueue
  BY <1>1, <1>2, <1>4, QueueAside DEF FlowInv
<1> QED BY <1>6, <1>7, <1>8, <1>11, <1>12, <1>13 DEF BInv, Behaves

(* The retransmission timer expires.                                       *)
LEMMA TimeoutSends ==
  ASSUME FlowInv, Timeout
  PROVE  SendsFrom({}, highest_ack_ + 1) /\ conf' = conf /\ timeout_'
<1>1. /\ SendMuch(highest_ack_ + 1, 0, {}, TRUE) /\ fastrecov_' = FALSE /\ timeout_'
      /\ last_ack_' = highest_ack_ /\ highest_ack_' = highest_ack_ /\ conf' = conf
      /\ cwnd_' = TimedOutWindow
  BY DEF Timeout, TimeoutFrom, SetWindow
<1>2. /\ maxseq_ \in Int /\ maxseq_ >= -1 /\ highest_ack_ \in Int /\ highest_ack_ >= -1
      /\ conf.size \in Nat /\ wnd_ \in Int
  BY FlowTypes, SenderAssumption
<1>3. curseq_ \in Int
  <2>1. curseq_ \in {0, conf.size + 1}
    BY DEF FlowInv, SenderInv, SenderTypeOK
  <2> QED BY <1>2, <2>1
<1>4. TimedOutWindow \in Int
  <2>1. cwnd_ \in 1 .. maxcwnd_
    BY DEF FlowInv, SenderInv, SenderTypeOK
  <2> QED BY <2>1 DEF TimedOutWindow
<1>5. PICK h, c \in Int : h = highest_ack_ /\ c = TimedOutWindow
  BY <1>2, <1>4
<1>6. h + 1 \in Int /\ h + 1 >= 0 /\ h >= -1
  BY <1>2, <1>5
<1>7. SendMuch(h + 1, 0, {}, TRUE) /\ last_ack_' = h /\ highest_ack_' = h /\ cwnd_' = c
  BY <1>1, <1>5
<1>8. ASSUME NEW t \in Int, t = h + 1, NEW pipe \in Int, NEW marked, NEW timer,
             SendMuch(t, pipe, marked, timer)
      PROVE  \E resent, k : Sends(resent, k) /\ (~ fastrecov_' => resent = {} /\ k = t)
  BY <1>2, <1>3, <1>6, <1>7, <1>8, SendMuchSends
<1>9. PICK t \in Int, pipe \in Int : t = h + 1 /\ pipe = 0
  BY <1>6
<1>10. SendMuch(t, pipe, {}, TRUE)
  BY <1>7, <1>9
<1>11. \E resent, k : Sends(resent, k) /\ (~ fastrecov_' => resent = {} /\ k = t)
  BY <1>8, <1>9, <1>10, Zenon
<1>12. SendsFrom({}, t)
  BY <1>1, <1>2, <1>6, <1>9, <1>11 DEF SendsFrom, FlowInv
<1> QED BY <1>1, <1>5, <1>9, <1>12

(* The feedback after a timeout: alpha's window ends with what has been    *)
(* sent, or the sender is behind.                                          *)
LEMMA TimeoutFeedback ==
  ASSUME BInv, RtxTimeout, NEW d, CountsMarks(d),
         d = IF conf.dctcp_ \/ case.flowBender_
             THEN FeedbackTimeout(dctcp, t_seqno_, case.flowBender_) ELSE dctcp,
         conf' = conf, CountsMarks(dctcp'), NEW m \in Int, maxseq_' = m, m >= maxseq_,
         dctcp'.dctcp_maxseq >= d.dctcp_maxseq,
         conf.dctcp_ /\ m > maxseq_ => dctcp'.dctcp_maxseq >= m,
         dctcp'.dctcp_alpha_update_seq = d.dctcp_alpha_update_seq
  PROVE  AlphaInv'
<1>1. FlowInv /\ AlphaInv
  BY DEF BInv
<1>2. /\ maxseq_ \in Int /\ t_seqno_ \in Nat /\ t_seqno_ <= maxseq_ + 1
      /\ conf.dctcp_ \in BOOLEAN /\ case.flowBender_ \in BOOLEAN
  BY <1>1, FlowTypes
<1>3. conf.dctcp_ => d.dctcp_maxseq = t_seqno_ /\ d.dctcp_alpha_update_seq = t_seqno_
  BY <1>1, <1>2, TimeoutRestarts DEF AlphaInv
<1>4. PICK since, f, b : since = alphaSince' /\ f = dctcp' /\ b = behind'
  OBVIOUS
<1>5. b = (t_seqno_ <= maxseq_) /\ since = IF b THEN 0 ELSE alphaSince
  BY <1>4 DEF RtxTimeout
<1>6. /\ since \in Nat /\ b \in BOOLEAN /\ (since = 0 \/ since <= maxseq_)
      /\ conf.dctcp_ => since <= t_seqno_
  <2>1. alphaSince \in Nat /\ (alphaSince = 0 \/ alphaSince <= maxseq_)
    BY <1>1 DEF AlphaInv
  <2> QED BY <1>2, <1>5, <2>1
<1>7. f.dctcp_maxseq \in Nat
  BY <1>4 DEF CountsMarks, Feedback
<1>8. ASSUME conf.dctcp_, ~ b PROVE f.dctcp_maxseq >= maxseq_
  <2>1. f.dctcp_maxseq >= t_seqno_
    BY <1>3, <1>4, <1>8
  <2>2. ~ (t_seqno_ <= maxseq_)
    BY <1>5, <1>8
  <2> QED BY <1>2, <1>7, <2>1, <2>2
<1>9. conf.dctcp_ => since <= f.dctcp_alpha_update_seq
  BY <1>3, <1>4, <1>6
<1> QED BY <1>1, <1>4, <1>6, <1>8, <1>9, AlphaFollows

(* A timeout.                                                              *)
LEMMA RtxTimeoutPreserves ==
  ASSUME BInv, RtxTimeout
  PROVE  /\ BInv' /\ Behaves
         /\ highest_ack_ # maxseq_ => rtt_timeout(rtt') = Smaller(maxrto_, 2 * rtt_timeout(rtt))
<1>1. FlowInv /\ ClockInv /\ AlphaInv /\ IntervalInv /\ QueueOf(PacketsTo(maxseq_)) /\ CwrInv
  BY DEF BInv
<1>2. PICK outstanding, e, d, slowed :
        /\ outstanding = (highest_ack_ # maxseq_) /\ e = TimerReset(rtt, outstanding)
        /\ d = IF conf.dctcp_ \/ case.flowBender_
               THEN FeedbackTimeout(dctcp, t_seqno_, case.flowBender_) ELSE dctcp
        /\ Sending(e, d, slowed)
  BY DEF RtxTimeout
<1>3. /\ Timeout /\ heard' = FALSE /\ congested' = 0
      /\ UNCHANGED <<queueVars, received, ecn_unacked_, acks, case>>
      /\ left' = left \/ Spend("timeouts")
  BY DEF RtxTimeout, sinkVars
<1>4. /\ maxseq_ \in Int /\ t_seqno_ \in Nat /\ highest_ack_ \in Int /\ highest_ack_ >= -1
      /\ conf.dctcp_ \in BOOLEAN /\ case.flowBender_ \in BOOLEAN
  BY <1>1, FlowTypes
<1>5. PICK k \in Int : k = highest_ack_ + 1
  BY <1>4
<1>6. SendsFrom({}, k) /\ conf' = conf /\ timeout_'
  BY <1>1, <1>3, <1>5, TimeoutSends
<1>7. Kept(received)
  <2>1. PICK R : R = received
    OBVIOUS
  <2>2. Kept(R)
    BY <1>1, <1>3, <2>1, TimeoutPreserves DEF FlowInv
  <2> QED BY <1>3, <2>1, <2>2, KeptReceived
<1>8. CwrInv' /\ IsABag(data')
  BY <1>1, <1>2, <1>6, CwrStep
<1>9. left' \in [others : Nat, timeouts : Nat, checks : Nat] /\ left'.others = left.others
  <2>1. left \in [others : Nat, timeouts : Nat, checks : Nat]
    BY <1>1 DEF FlowInv
  <2>2. CASE Spend("timeouts")
    <3>1. PICK n \in Nat : n = left.timeouts
      BY <2>1
    <3>2. n > 0 /\ left' = [left EXCEPT !.timeouts = n - 1]
      BY <2>2, <3>1 DEF Spend
    <3>3. PICK j \in Nat : j = n - 1
      BY <3>2
    <3> QED BY <2>1, <3>2, <3>3
  <2> QED BY <1>3, <2>1, <2>2
<1>10. FlowInv' /\ maxseq_' \in Int /\ maxseq_' >= maxseq_
  <2>1. /\ acks' \in Seq(AckRecords)
        /\ \A i \in DOMAIN acks' : \E j \in DOMAIN acks : acks'[i] = acks[j]
    BY <1>1, <1>3 DEF FlowInv, AcksAreTrue
  <2> QED BY <1>1, <1>3, <1>7, <1>8, <1>9, <2>1, SenderStep
<1>11. /\ Retimes(rtt, e) /\ ~ e.rtt_active_ /\ e.t_rtt_ = rtt.t_rtt_
       /\ outstanding => rtt_timeout(e) = Smaller(maxrto_, 2 * rtt_timeout(rtt))
  <2>1. rtt \in Estimates /\ outstanding \in BOOLEAN
    BY <1>1, <1>2 DEF ClockInv
  <2> QED BY <1>2, <2>1, TimerResetRetimes
<1>12. /\ ClockInv' /\ TimedOnce /\ rtt'.t_rtt_ = e.t_rtt_ /\ rtt'.t_rtxcur_ = e.t_rtxcur_
       /\ rtt'.t_backoff_ = e.t_backoff_
  BY <1>1, <1>2, <1>4, <1>6, <1>11, ClockStep DEF TimedOnce
<1>13. SampleIsCovered
  BY <1>11, <1>12 DEF SampleIsCovered
<1>14. rtt_timeout(rtt') = rtt_timeout(e)
  BY <1>12 DEF rtt_timeout
<1>15. CountsMarks(d)
  BY <1>1, <1>2, <1>4, TimeoutRestarts DEF AlphaInv
<1>16. /\ CountsMarks(dctcp')
       /\ dctcp'.dctcp_maxseq >= d.dctcp_maxseq
       /\ conf.dctcp_ /\ maxseq_' > maxseq_ => dctcp'.dctcp_maxseq >= maxseq_'
       /\ dctcp'.dctcp_alpha_update_seq = d.dctcp_alpha_update_seq
       /\ dctcp'.numRTTsCongested_ = d.numRTTsCongested_ /\ dctcp'.defttl_ = d.defttl_
       /\ dctcp'.markedAckPkts_F = d.markedAckPkts_F
  BY <1>2, <1>4, <1>6, <1>15, FeedbackStep
<1>17. AlphaInv'
  <2>1. PICK m \in Int : m = maxseq_' /\ m >= maxseq_
    BY <1>10
  <2> QED BY <1>2, <1>6, <1>15, <1>16, <2>1, TimeoutFeedback
<1>18. IntervalInv'
  <2>1. /\ case.flowBender_ => d.numRTTsCongested_ = 0 /\ d.markedAckPkts_F = 0
        /\ ~ case.flowBender_ => /\ d.numRTTsCongested_ = dctcp.numRTTsCongested_
                                 /\ d.markedAckPkts_F = dctcp.markedAckPkts_F
    BY <1>1, <1>2, <1>4, TimeoutRestarts DEF AlphaInv
  <2>2. ~ case.flowBender_ => dctcp.numRTTsCongested_ = 0 /\ ~ (dctcp.markedAckPkts_F > 0)
    BY <1>1 DEF IntervalInv
  <2>3. d.numRTTsCongested_ = 0 /\ ~ (d.markedAckPkts_F > 0)
    BY <1>4, <2>1, <2>2
  <2>4. PICK f, h, c : /\ f = dctcp' /\ h = heard' /\ c = congested'
                       /\ f.numRTTsCongested_ = 0 /\ ~ (f.markedAckPkts_F > 0)
    BY <1>16, <2>3
  <2>5. h \in BOOLEAN
    BY <1>3, <2>4
  <2>6. c = 0
    BY <1>3, <2>4
  <2>7. c \in Nat /\ f.numRTTsCongested_ <= c
    BY <2>4, <2>6
  <2> QED BY <2>4, <2>5, <2>7 DEF IntervalInv
<1>19. RerouteIsEarned
  BY <1>6 DEF RerouteIsEarned
<1>20. QueueOf(PacketsTo(maxseq_))' /\ MarkedByTheQueue
  <2>1. left.others \in Nat
    BY <1>1 DEF FlowInv
  <2> QED BY <1>1, <1>3, <1>6, <1>9, <2>1, QueueAside
<1>21. highest_ack_ # maxseq_ => rtt_timeout(rtt') = Smaller(maxrto_, 2 * rtt_timeout(rtt))
  BY <1>2, <1>11, <1>14
<1>22. BInv' /\ Behaves
  BY <1>8, <1>10, <1>12, <1>13, <1>17, <1>18, <1>19, <1>20 DEF BInv, Behaves
<1> QED BY <1>21, <1>22

(* A packet leaves the bag: the others stay.                               *)
LEMMA BagTakes ==
  ASSUME NEW B, IsABag(B), NEW x \in BagToSet(B), NEW C, C = B (-) SetToBag({x})
  PROVE  /\ IsABag(C)
         /\ \A s \in BagToSet(B) : s # x => s \in BagToSet(C) /\ C[s] = B[s]
         /\ B[x] > 1 => x \in BagToSet(C)
         /\ x \in BagToSet(C) => C[x] = B[x] - 1
         /\ \A s \in BagToSet(C) : s \in BagToSet(B) /\ C[s] <= B[s]
<1> DEFINE E == SetToBag({x})
           D == [e \in DOMAIN B |-> IF e \in DOMAIN E THEN B[e] - E[e] ELSE B[e]]
<1>1. C = [e \in {d \in DOMAIN D : D[d] > 0} |-> D[e]]
  BY DEF (-)
<1>2. DOMAIN E = {x} /\ E[x] = 1
  BY DEF SetToBag
<1>3. \A e \in DOMAIN B : B[e] \in Nat /\ B[e] > 0
  BY DEF IsABag
<1>4. DOMAIN D = DOMAIN B /\ \A e \in DOMAIN B : D[e] = IF e = x THEN B[e] - 1 ELSE B[e]
  BY <1>2
<1> HIDE DEF D, E
<1>5. /\ DOMAIN C = {d \in DOMAIN B : D[d] > 0}
      /\ \A e \in DOMAIN C : C[e] = D[e] /\ e \in DOMAIN B /\ D[e] > 0
  BY <1>1, <1>4
<1>6. IsABag(C) /\ \A s \in BagToSet(C) : s \in BagToSet(B) /\ C[s] <= B[s]
  BY BagMinus
<1>7. x \in DOMAIN B
  BY DEF BagToSet
<1>8. ASSUME NEW s \in BagToSet(B), s # x PROVE s \in BagToSet(C) /\ C[s] = B[s]
  <2>1. s \in DOMAIN B /\ D[s] = B[s] /\ D[s] > 0
    BY <1>3, <1>4, <1>8 DEF BagToSet
  <2> QED BY <1>5, <2>1 DEF BagToSet
<1>9. B[x] > 1 => x \in BagToSet(C)
  <2>1. B[x] > 1 => D[x] > 0
    BY <1>3, <1>4, <1>7
  <2> QED BY <1>5, <1>7, <2>1 DEF BagToSet
<1>10. x \in BagToSet(C) => C[x] = B[x] - 1
  BY <1>4, <1>5, <1>7 DEF BagToSet
<1> QED BY <1>6, <1>8, <1>9, <1>10

(* The network sends no segment.                                           *)
LEMMA NothingSent ==
  ASSUME IsABag(data), NEW D, D = data', IsABag(D),
         \A s \in BagToSet(D) : s \in BagToSet(data) /\ D[s] <= data[s]
  PROVE  BagToSet(SentNow) = {}
<1> DEFINE F == [e \in DOMAIN D |-> IF e \in DOMAIN data THEN D[e] - data[e] ELSE D[e]]
           X == SentNow
<1>1. X = [e \in {d \in DOMAIN F : F[d] > 0} |-> F[e]]
  BY DEF (-), SentNow
<1>2. ASSUME NEW e \in DOMAIN D PROVE ~ (F[e] > 0)
  <2>1. e \in DOMAIN data /\ D[e] <= data[e] /\ D[e] \in Nat /\ data[e] \in Nat
    BY <1>2 DEF BagToSet, IsABag
  <2>2. F[e] = D[e] - data[e]
    BY <2>1
  <2> HIDE DEF F
  <2> QED BY <2>1, <2>2
<1>3. DOMAIN X = {d \in DOMAIN D : F[d] > 0}
  BY <1>1
<1> HIDE DEF F, X
<1>4. DOMAIN X = {}
  BY <1>2, <1>3
<1> QED BY <1>4 DEF BagToSet, X

(* The flow again, after a step of the network.                            *)
LEMMA NetworkFlow ==
  ASSUME FlowInv,
         UNCHANGED <<curseq_, t_seqno_, maxseq_, last_ack_, highest_ack_, dupacks_, windowVars,
                     wnd_init_, fastrecov_, pipe_, sacked, retran, timeout_, rtx_timer_, closed_,
                     conf>>,
         UNCHANGED case, IsABag(data'), BagToSet(data') \subseteq BagToSet(data),
         left' \in [others : Nat, timeouts : Nat, checks : Nat],
         NEW R, R = received', received \subseteq R, R \subseteq 0 .. maxseq_,
         NEW A, A = acks', A \in Seq(AckRecords), \A i \in DOMAIN A : IsTrueAck(A[i], R)
  PROVE  FlowInv'
<1>1. SenderInv'
  BY NetworkPreserves DEF FlowInv
<1>2. KnowsOnly(received)'
  BY DEF FlowInv, KnowsOnly
<1>3. AcksAreTrue'
  BY DEF AcksAreTrue, IsTrueAck
<1> QED BY <1>1, <1>2, <1>3 DEF FlowInv

(* Nor does it refuse one that has not come to the queue.                  *)
LEMMA NothingRefused ==
  ASSUME IsABag(data), data' = data, left.others \in Nat, left'.others = left.others
  PROVE  ~ Refused
<1>1. \A s \in BagToSet(data) : data[s] \in Nat
  BY DEF IsABag, BagToSet
<1>2. \A s \in BagToSet(data) : Copies(s, data) = data[s]
  BY DEF Copies, BagIn
<1>3. \A s \in BagToSet(data) : ~ (Copies(s, data') < Copies(s, data))
  BY <1>1, <1>2
<1> QED BY <1>3 DEF Refused

(* The end of an interval of FlowBender.                                   *)
LEMMA FlowBenderTimerPreserves ==
  ASSUME BInv, FlowBenderTimer
  PROVE  BInv' /\ Behaves
<1>1. FlowInv /\ ClockInv /\ AlphaInv /\ IntervalInv /\ QueueOf(PacketsTo(maxseq_)) /\ CwrInv
  BY DEF BInv
<1>2. /\ case.flowBender_ /\ Spend("checks") /\ dctcp' = checkCongestionFB(dctcp)
      /\ heard' = FALSE
      /\ congested' = IF ~ heard \/ dctcp'.defttl_ # dctcp.defttl_ THEN 0 ELSE congested + 1
      /\ UNCHANGED <<queueVars, rtt, cong_action_, cwr, received, ecn_unacked_, acks, case,
                     alphaSince, behind, due>>
      /\ UNCHANGED <<curseq_, t_seqno_, maxseq_, last_ack_, highest_ack_, dupacks_, windowVars,
                     wnd_init_, fastrecov_, pipe_, sacked, retran, timeout_, rtx_timer_, closed_,
                     conf>>
      /\ data' = data
  BY DEF FlowBenderTimer, senderVars, sinkVars, alphaVars
<1>3. PICK f : /\ f = dctcp' /\ CountsMarks(f) /\ f.markedAckPkts_F = 0
               /\ f.dctcp_maxseq = dctcp.dctcp_maxseq
               /\ f.dctcp_alpha_update_seq = dctcp.dctcp_alpha_update_seq
               /\ \/ f.numRTTsCongested_ = 0 /\ f.defttl_ = dctcp.defttl_
                  \/ /\ dctcp.markedAckPkts_F > 0 /\ f.numRTTsCongested_ = 0
                     /\ dctcp.numRTTsCongested_ + 1 >= flowBender_N
                  \/ /\ dctcp.markedAckPkts_F > 0 /\ f.defttl_ = dctcp.defttl_
                     /\ f.numRTTsCongested_ = dctcp.numRTTsCongested_ + 1
  BY <1>1, <1>2, CheckCounts DEF AlphaInv
<1>4. /\ dctcp.numRTTsCongested_ \in Nat /\ congested \in Nat /\ flowBender_N \in Nat
      /\ dctcp.numRTTsCongested_ <= congested
      /\ dctcp.markedAckPkts_F > 0 => heard
  BY <1>1, DctcpAssumption DEF AlphaInv, CountsMarks, Feedback, IntervalInv
<1>5. PICK c : /\ c = congested'
               /\ c = IF ~ heard \/ f.defttl_ # dctcp.defttl_ THEN 0 ELSE congested + 1
  BY <1>2, <1>3
<1>6. /\ c \in Nat /\ f.numRTTsCongested_ <= c
      /\ f.defttl_ # dctcp.defttl_ => heard /\ congested + 1 >= flowBender_N
  <2>1. CASE f.numRTTsCongested_ = 0 /\ f.defttl_ = dctcp.defttl_
    BY <1>4, <1>5, <2>1
  <2>2. CASE /\ dctcp.markedAckPkts_F > 0 /\ f.numRTTsCongested_ = 0
             /\ dctcp.numRTTsCongested_ + 1 >= flowBender_N
    BY <1>4, <1>5, <2>2
  <2>3. CASE /\ dctcp.markedAckPkts_F > 0 /\ f.defttl_ = dctcp.defttl_
             /\ f.numRTTsCongested_ = dctcp.numRTTsCongested_ + 1
    <3>1. c = congested + 1
      BY <1>4, <1>5, <2>3
    <3> QED BY <1>4, <2>3, <3>1
  <2> QED BY <1>3, <2>1, <2>2, <2>3
<1>7. IntervalInv'
  <2>1. heard' \in BOOLEAN
    BY <1>2
  <2>2. ~ (f.markedAckPkts_F > 0)
    BY <1>3
  <2> QED BY <1>2, <1>3, <1>5, <1>6, <2>1, <2>2 DEF IntervalInv
<1>8. RerouteIsEarned
  BY <1>3, <1>6 DEF RerouteIsEarned
<1>9. left' \in [others : Nat, timeouts : Nat, checks : Nat] /\ left'.others = left.others
  <2>1. left \in [others : Nat, timeouts : Nat, checks : Nat]
    BY <1>1 DEF FlowInv
  <2>2. PICK n \in Nat : n = left.checks
    BY <2>1
  <2>3. n > 0 /\ left' = [left EXCEPT !.checks = n - 1]
    BY <1>2, <2>2 DEF Spend
  <2>4. PICK j \in Nat : j = n - 1
    BY <2>3
  <2> QED BY <2>1, <2>3, <2>4
<1>10. FlowInv'
  <2>1. acks' = acks /\ \A i \in DOMAIN acks : IsTrueAck(acks[i], received)
    BY <1>1, <1>2 DEF FlowInv, AcksAreTrue
  <2>2. acks' \in Seq(AckRecords) /\ received' = received /\ received \subseteq 0 .. maxseq_
    BY <1>1, <1>2 DEF FlowInv, AcksAreTrue
  <2>3. IsABag(data') /\ BagToSet(data') \subseteq BagToSet(data)
    BY <1>1, <1>2 DEF FlowInv
  <2> QED BY <1>1, <1>2, <1>9, <2>1, <2>2, <2>3, NetworkFlow
<1>11. ClockInv' /\ CwrInv'
  BY <1>1, <1>2 DEF ClockInv, CwrInv
<1>12. AlphaInv'
  BY <1>1, <1>2, <1>3 DEF AlphaInv
<1>13. SampleIsCovered /\ TimedOnce
  <2>1. BagToSet(SentNow) = {}
    <3>1. \A s \in BagToSet(data) : data[s] <= data[s]
      BY <1>1 DEF FlowInv, IsABag, BagToSet
    <3> QED BY <1>1, <1>2, <3>1, NothingSent DEF FlowInv
  <2> QED BY <1>2, <2>1 DEF SampleIsCovered, TimedOnce, BagIn
<1>14. QueueOf(PacketsTo(maxseq_))' /\ MarkedByTheQueue
  <2>1. maxseq_ \in Int /\ maxseq_' = maxseq_ /\ maxseq_ >= maxseq_
    BY <1>1, <1>2, FlowTypes
  <2>2. QueueOf(PacketsTo(maxseq_))'
    BY <1>1, <1>2, <2>1, QueueWaits
  <2>3. ~ Joined
    BY <1>1, <1>2, QueueRests
  <2>4. ~ Refused
    BY <1>1, <1>2, <1>9, NothingRefused DEF FlowInv
  <2> QED BY <2>2, <2>3, <2>4 DEF MarkedByTheQueue
<1> QED BY <1>7, <1>8, <1>10, <1>11, <1>12, <1>13, <1>14 DEF BInv, Behaves

(* A packet comes to the queue: a segment of the flow takes with it what   *)
(* it tells of a cut.                                                      *)
LEMMA ArriveCwr ==
  ASSUME IsABag(data), CwrInv, NEW s \in BagToSet(data), Arrive(s)
  PROVE  /\ IsABag(data') /\ CwrInv'
         /\ \A r \in BagToSet(data') : r \in BagToSet(data) /\ data'[r] <= data[r]
<1>1. PICK cong \in BOOLEAN :
        /\ cong => BagIn(s, cwr)
        /\ ~ cong => Copies(s, data) > Copies(s, cwr)
        /\ cwr' = IF cong THEN cwr (-) SetToBag({s}) ELSE cwr
  BY DEF Arrive
<1>2. PICK D : D = data' /\ D = data (-) SetToBag({s})
  BY DEF Arrive
<1>3. /\ IsABag(D)
      /\ \A r \in BagToSet(data) : r # s => r \in BagToSet(D) /\ D[r] = data[r]
      /\ data[s] > 1 => s \in BagToSet(D)
      /\ s \in BagToSet(D) => D[s] = data[s] - 1
      /\ \A r \in BagToSet(D) : r \in BagToSet(data) /\ D[r] <= data[r]
  BY <1>2, BagTakes
<1>4. /\ IsABag(cwr)
      /\ \A r \in BagToSet(cwr) : r \in BagToSet(data) /\ cwr[r] <= data[r]
      /\ \A r \in BagToSet(cwr) : cwr[r] \in Nat /\ cwr[r] > 0
      /\ \A r \in BagToSet(data) : data[r] \in Nat
  BY DEF CwrInv, IsABag, BagToSet
<1>5. CASE cong
  <2>1. PICK C : C = cwr' /\ C = cwr (-) SetToBag({s})
    BY <1>1, <1>5
  <2>2. s \in BagToSet(cwr)
    BY <1>1, <1>5 DEF BagIn
  <2>3. /\ IsABag(C)
        /\ \A r \in BagToSet(cwr) : r # s => r \in BagToSet(C) /\ C[r] = cwr[r]
        /\ s \in BagToSet(C) => C[s] = cwr[s] - 1
        /\ \A r \in BagToSet(C) : r \in BagToSet(cwr) /\ C[r] <= cwr[r]
    <3>1. IsABag(cwr) /\ C = cwr (-) SetToBag({s})
      BY <1>4, <2>1
    <3> QED BY <2>2, <3>1, BagTakes
  <2>4. ASSUME NEW r \in BagToSet(C) PROVE r \in BagToSet(D) /\ C[r] <= D[r]
    <3>1. CASE r # s
      <4>1. r \in BagToSet(cwr) /\ C[r] = cwr[r]
        BY <2>3, <2>4, <3>1
      <4>2. r \in BagToSet(data) /\ cwr[r] <= data[r]
        BY <1>4, <4>1
      <4>3. r \in BagToSet(D) /\ D[r] = data[r]
        BY <1>3, <3>1, <4>2
      <4> QED BY <4>1, <4>2, <4>3
    <3>2. CASE r = s
      <4>1. C[s] \in Nat /\ C[s] > 0
        BY <2>3, <2>4, <3>2 DEF IsABag, BagToSet
      <4>2. C[s] = cwr[s] - 1 /\ cwr[s] <= data[s] /\ cwr[s] \in Nat /\ data[s] \in Nat
        BY <1>4, <2>2, <2>3, <2>4, <3>2
      <4>3. data[s] > 1
        BY <4>1, <4>2
      <4>4. s \in BagToSet(D) /\ D[s] = data[s] - 1
        BY <1>3, <4>3
      <4> QED BY <3>2, <4>2, <4>4
    <3> QED BY <3>1, <3>2
  <2> QED BY <1>2, <1>3, <2>1, <2>3, <2>4 DEF CwrInv
<1>6. CASE ~ cong
  <2>1. ASSUME NEW r \in BagToSet(cwr) PROVE r \in BagToSet(D) /\ cwr[r] <= D[r]
    <3>1. CASE r # s
      BY <1>3, <1>4, <2>1, <3>1
    <3>2. CASE r = s
      <4>1. Copies(s, data) = data[s] /\ Copies(s, cwr) = cwr[s]
        BY <2>1, <3>2 DEF Copies, BagIn
      <4>2. data[s] > cwr[s] /\ cwr[s] \in Nat /\ cwr[s] > 0 /\ data[s] \in Nat
        BY <1>1, <1>4, <1>6, <2>1, <3>2, <4>1
      <4>3. data[s] > 1
        BY <4>2
      <4>4. s \in BagToSet(D) /\ D[s] = data[s] - 1
        BY <1>3, <4>3
      <4> QED BY <3>2, <4>2, <4>4
    <3> QED BY <3>1, <3>2
  <2> QED BY <1>1, <1>2, <1>3, <1>4, <1>6, <2>1 DEF CwrInv
<1> QED BY <1>2, <1>3, <1>5, <1>6

(* What an arrival leaves alone.                                           *)
LEMMA ArrivalKeeps ==
  ASSUME FlowInv, ClockInv, AlphaInv, IntervalInv,
         UNCHANGED <<curseq_, t_seqno_, maxseq_, last_ack_, highest_ack_, dupacks_, windowVars,
                     wnd_init_, fastrecov_, pipe_, sacked, retran, timeout_, rtx_timer_, closed_,
                     conf>>,
         UNCHANGED <<rtt, dctcp, received, acks, case, alphaSince, behind, heard, congested>>,
         NEW D, D = data', IsABag(D),
         \A r \in BagToSet(D) : r \in BagToSet(data) /\ D[r] <= data[r],
         left' \in [others : Nat, timeouts : Nat, checks : Nat]
  PROVE  /\ FlowInv' /\ ClockInv' /\ AlphaInv' /\ IntervalInv'
         /\ SampleIsCovered /\ TimedOnce /\ RerouteIsEarned
<1>1. FlowInv'
  <2>1. acks' = acks /\ \A i \in DOMAIN acks : IsTrueAck(acks[i], received)
    BY DEF FlowInv, AcksAreTrue
  <2>2. acks' \in Seq(AckRecords) /\ received' = received /\ received \subseteq 0 .. maxseq_
    BY DEF FlowInv, AcksAreTrue
  <2>3. IsABag(data') /\ BagToSet(data') \subseteq BagToSet(data)
    OBVIOUS
  <2> QED BY <2>1, <2>2, <2>3, NetworkFlow
<1>2. ClockInv'
  BY DEF ClockInv
<1>3. AlphaInv'
  BY DEF AlphaInv
<1>4. IntervalInv'
  BY DEF IntervalInv
<1>5. BagToSet(SentNow) = {}
  BY NothingSent DEF FlowInv
<1> QED BY <1>1, <1>2, <1>3, <1>4, <1>5 DEF SampleIsCovered, TimedOnce, BagIn, RerouteIsEarned

(* A segment comes to the queue.                                           *)
LEMMA ArrivePreserves ==
  ASSUME BInv, NEW s \in BagToSet(data), Arrive(s)
  PROVE  BInv' /\ Behaves
<1>1. FlowInv /\ ClockInv /\ AlphaInv /\ IntervalInv /\ QueueOf(PacketsTo(maxseq_)) /\ CwrInv
  BY DEF BInv
<1>2. /\ UNCHANGED <<curseq_, t_seqno_, maxseq_, last_ack_, highest_ack_, dupacks_, windowVars,
                     wnd_init_, fastrecov_, pipe_, sacked, retran, timeout_, rtx_timer_, closed_,
                     conf>>
      /\ UNCHANGED <<rtt, dctcp, received, acks, case, left, alphaSince, behind, heard, congested>>
  BY DEF Arrive, feedbackVars, sinkVars, alphaVars, intervalVars
<1>3. PICK D : /\ D = data' /\ IsABag(D) /\ CwrInv'
               /\ \A r \in BagToSet(D) : r \in BagToSet(data) /\ D[r] <= data[r]
  BY <1>1, ArriveCwr DEF FlowInv
<1>4. left' \in [others : Nat, timeouts : Nat, checks : Nat] /\ left'.others = left.others
      /\ left.others \in Nat
  BY <1>1, <1>2 DEF FlowInv
<1>5. /\ FlowInv' /\ ClockInv' /\ AlphaInv' /\ IntervalInv'
      /\ SampleIsCovered /\ TimedOnce /\ RerouteIsEarned
  BY <1>1, <1>2, <1>3, <1>4, ArrivalKeeps
<1>6. PICK m, P : m = maxseq_ /\ P = PacketsTo(m)
  OBVIOUS
<1>7. PICK p : /\ p \in P /\ ~ p.ce /\ Enque(p)
               /\ conf.ecn_ /\ conf.dctcp_ => p.ect
  <2>1. PICK cong \in BOOLEAN :
          Enque([seqno |-> s, ect |-> Ect(s), ce |-> FALSE, cong_action |-> cong])
    BY DEF Arrive
  <2>2. s \in 0 .. maxseq_ /\ maxseq_ \in Int
    BY <1>1, FlowTypes DEF FlowInv, SenderInv, SenderTypeOK
  <2>3. s \in -1 .. m
    BY <1>6, <2>2
  <2>4. Ect(s) \in BOOLEAN /\ (conf.ecn_ /\ conf.dctcp_ => Ect(s))
    BY <1>1, FlowTypes DEF Ect
  <2>5. PICK e \in BOOLEAN : e = Ect(s)
    BY <2>4
  <2> DEFINE p == [seqno |-> s, ect |-> e, ce |-> FALSE, cong_action |-> cong]
  <2>6. p \in P /\ ~ p.ce /\ p.ect = e
    BY <1>6, <2>3 DEF PacketsTo
  <2>7. Enque(p)
    BY <2>1, <2>5
  <2> HIDE DEF p
  <2> QED BY <2>4, <2>5, <2>6, <2>7
<1>8. /\ QueueOf(P)'
      /\ Steps /\ Joined => (NewPacket.ce <=> NewPacket.ect /\ Above(Len(q)) /\ Above(curq_))
      /\ Steps /\ p.ect /\ ~ Joined => Len(q) >= red.limit
      /\ ~ Joined => wire # <<>>
  BY <1>1, <1>6, <1>7, EnqueFollows
<1>9. QueueOf(PacketsTo(maxseq_))'
  BY <1>2, <1>6, <1>8
<1>10. MarkedByTheQueue
  BY <1>7, <1>8 DEF MarkedByTheQueue, Refused
<1> QED BY <1>3, <1>5, <1>9, <1>10 DEF BInv, Behaves

(* A packet of another flow comes to the queue.                            *)
LEMMA ArriveOtherPreserves ==
  ASSUME BInv, ArriveOther
  PROVE  BInv' /\ Behaves
<1>1. FlowInv /\ ClockInv /\ AlphaInv /\ IntervalInv /\ QueueOf(PacketsTo(maxseq_)) /\ CwrInv
  BY DEF BInv
<1>2. /\ UNCHANGED <<curseq_, t_seqno_, maxseq_, last_ack_, highest_ack_, dupacks_, windowVars,
                     wnd_init_, fastrecov_, pipe_, sacked, retran, timeout_, rtx_timer_, closed_,
                     conf>>
      /\ data' = data /\ cwr' = cwr /\ Spend("others") /\ Enque(Other)
      /\ UNCHANGED <<rtt, dctcp, received, acks, case, alphaSince, behind, heard, congested>>
  BY DEF ArriveOther, senderVars, feedbackVars, sinkVars, alphaVars, intervalVars
<1>3. left' \in [others : Nat, timeouts : Nat, checks : Nat]
  <2>1. left \in [others : Nat, timeouts : Nat, checks : Nat]
    BY <1>1 DEF FlowInv
  <2>2. PICK n \in Nat : n = left.others
    BY <2>1
  <2>3. n > 0 /\ left' = [left EXCEPT !.others = n - 1]
    BY <1>2, <2>2 DEF Spend
  <2>4. PICK j \in Nat : j = n - 1
    BY <2>3
  <2> QED BY <2>1, <2>3, <2>4
<1>4. IsABag(data') /\ \A r \in BagToSet(data') : r \in BagToSet(data) /\ data'[r] <= data[r]
  BY <1>1, <1>2 DEF FlowInv, IsABag, BagToSet
<1>5. /\ FlowInv' /\ ClockInv' /\ AlphaInv' /\ IntervalInv'
      /\ SampleIsCovered /\ TimedOnce /\ RerouteIsEarned
  BY <1>1, <1>2, <1>3, <1>4, ArrivalKeeps
<1>6. CwrInv'
  BY <1>1, <1>2 DEF CwrInv
<1>7. PICK m, P : m = maxseq_ /\ P = PacketsTo(m)
  OBVIOUS
<1>8. Other \in P /\ ~ Other.ce /\ (conf.ecn_ => Other.ect)
  <2>1. PICK e \in BOOLEAN : e = conf.ecn_
    BY <1>1, FlowTypes
  <2>2. -1 \in -1 .. m
    BY <1>1, <1>7, FlowTypes
  <2>3. [seqno |-> -1, ect |-> e, ce |-> FALSE, cong_action |-> FALSE] \in P
    BY <1>7, <2>2 DEF PacketsTo
  <2> QED BY <2>1, <2>3 DEF Other
<1>9. PICK p : p = Other
  OBVIOUS
<1>10. /\ QueueOf(P)'
       /\ Steps /\ Joined => (NewPacket.ce <=> NewPacket.ect /\ Above(Len(q)) /\ Above(curq_))
       /\ Steps /\ p.ect /\ ~ Joined => Len(q) >= red.limit
       /\ ~ Joined => wire # <<>>
  BY <1>1, <1>2, <1>7, <1>8, <1>9, EnqueFollows
<1>11. QueueOf(PacketsTo(maxseq_))'
  BY <1>2, <1>7, <1>10
<1>12. MarkedByTheQueue
  BY <1>8, <1>9, <1>10 DEF MarkedByTheQueue, Refused
<1> QED BY <1>5, <1>6, <1>11, <1>12 DEF BInv, Behaves

(* The packet on the wire reaches the host; the ACK that the sink makes of *)
(* a segment is true.                                                      *)
LEMMA EchoIsTrue ==
  ASSUME FlowInv, UNCHANGED <<maxseq_, case, conf>>, NEW p, p.seqno \in 0 .. maxseq_, Echo(p)
  PROVE  \E R, A : /\ R = received' /\ received \subseteq R /\ R \subseteq 0 .. maxseq_
                   /\ A = acks' /\ A \in Seq(AckRecords) /\ \A i \in DOMAIN A : IsTrueAck(A[i], R)
<1>1. maxseq_ \in Int /\ maxseq_ >= -1 /\ received \subseteq 0 .. maxseq_
  BY FlowTypes DEF FlowInv
<1>2. PICK R : R = received' /\ R = received \union {p.seqno}
  BY DEF Echo
<1>3. received \subseteq R /\ R \subseteq 0 .. maxseq_
  BY <1>1, <1>2
<1>4. 0 \in R
  <2>1. CASE highest_ack_ = -1
    <3>1. maxseq_ <= 0
      BY <2>1 DEF FlowInv, SenderInv, SynIsAlone
    <3>2. p.seqno = 0
      BY <1>1, <3>1
    <3> QED BY <1>2, <3>2
  <2>2. CASE highest_ack_ # -1
    <3>1. highest_ack_ \in -1 .. maxseq_ /\ 0 .. highest_ack_ \subseteq received
      BY DEF FlowInv, SenderInv, SenderTypeOK, KnowsOnly
    <3>2. 0 \in 0 .. highest_ack_
      BY <1>1, <2>2, <3>1
    <3> QED BY <1>3, <3>1, <3>2
  <2> QED BY <2>1, <2>2
<1>5. PICK seqno \in -1 .. maxseq_ :
        /\ 0 .. seqno \subseteq received' /\ seqno + 1 \notin received'
        /\ acks' = Append(acks, [seqno |-> seqno,
                                 ecnecho |-> IF p.ect THEN ecn_unacked_' ELSE AsksForEcn(p),
                                 sacked |-> {r \in received' : r > seqno}])
  BY DEF Echo
<1>6. PICK echo : echo = IF p.ect THEN ecn_unacked_' ELSE AsksForEcn(p)
  OBVIOUS
<1>7. echo \in BOOLEAN
  <2>1. ecn_unacked_' \in BOOLEAN
    BY DEF Echo, update_ecn_unacked
  <2>2. AsksForEcn(p) \in BOOLEAN
    BY DEF AsksForEcn
  <2> QED BY <1>6, <2>1, <2>2
<1> DEFINE new == [seqno |-> seqno, ecnecho |-> echo, sacked |-> {r \in R : r > seqno}]
<1>8. seqno \in 0 .. maxseq_
  <2>1. seqno # -1
    BY <1>2, <1>4, <1>5
  <2> QED BY <1>1, <2>1
<1>9. new \in AckRecords
  <2>1. PICK above : above = {r \in R : r > seqno}
    OBVIOUS
  <2>2. R \subseteq Int /\ seqno \in Int
    BY <1>1, <1>3, <1>8
  <2>3. above \in SUBSET Int
    BY <2>1, <2>2
  <2> QED BY <1>7, <2>1, <2>2, <2>3 DEF AckRecords
<1>10. IsTrueAck(new, R)
  BY <1>2, <1>5, <1>8 DEF IsTrueAck
<1>11. acks' = Append(acks, new)
  BY <1>2, <1>5, <1>6
<1> HIDE DEF new
<1>12. PICK A, n : A = acks' /\ A = Append(acks, new) /\ n = Len(acks) /\ n \in Nat
  BY <1>11, LenProperties DEF FlowInv, AcksAreTrue
<1>13. /\ A \in Seq(AckRecords) /\ Len(A) = n + 1 /\ A[n + 1] = new
       /\ \A i \in 1 .. n : A[i] = acks[i]
  BY <1>9, <1>12, AppendProperties DEF FlowInv, AcksAreTrue
<1>14. ASSUME NEW i \in DOMAIN A PROVE IsTrueAck(A[i], R)
  <2>1. i \in 1 .. n + 1
    BY <1>13, <1>14, LenProperties
  <2>2. CASE i = n + 1
    BY <1>10, <1>13, <2>2
  <2>3. CASE i # n + 1
    <3>1. i \in 1 .. n
      BY <1>12, <2>1, <2>3
    <3>2. i \in DOMAIN acks
      BY <1>12, <3>1, LenProperties DEF FlowInv, AcksAreTrue
    <3>3. IsTrueAck(acks[i], received)
      BY <3>2 DEF FlowInv, AcksAreTrue
    <3> QED BY <1>3, <1>13, <3>1, <3>3 DEF IsTrueAck
  <2> QED BY <2>2, <2>3
<1> QED BY <1>2, <1>3, <1>12, <1>13, <1>14

(* A packet leaves the queue for the host.                                 *)
LEMMA DepartPreserves ==
  ASSUME BInv, Depart
  PROVE  BInv' /\ Behaves
<1>1. FlowInv /\ ClockInv /\ AlphaInv /\ IntervalInv /\ QueueOf(PacketsTo(maxseq_)) /\ CwrInv
  BY DEF BInv
<1>2. /\ UNCHANGED <<curseq_, t_seqno_, maxseq_, last_ack_, highest_ack_, dupacks_, windowVars,
                     wnd_init_, fastrecov_, pipe_, sacked, retran, timeout_, rtx_timer_, closed_,
                     conf>>
      /\ data' = data /\ cwr' = cwr /\ left' = left /\ case' = case /\ Resume
      /\ UNCHANGED <<rtt, dctcp, alphaSince, behind, heard, congested>>
      /\ \/ UNCHANGED <<received, acks>>
         \/ Head(wire).seqno # -1 /\ Echo(Head(wire))
  BY DEF Depart, senderVars, feedbackVars, sinkVars, alphaVars, intervalVars
<1>3. PICK m, P : m = maxseq_ /\ P = PacketsTo(m)
  OBVIOUS
<1>4. QueueOf(P)' /\ ~ Joined /\ wire # <<>>
  BY <1>1, <1>2, <1>3, ResumeServes
<1>5. QueueOf(PacketsTo(maxseq_))'
  BY <1>2, <1>3, <1>4
<1>6. Head(wire) \in P
  <2>1. wire \in Seq(P)
    BY <1>1, <1>3 DEF QueueOf, Waiting
  <2> QED BY <1>4, <2>1, HeadTailProperties
<1>7. PICK R, A : /\ R = received' /\ received \subseteq R /\ R \subseteq 0 .. maxseq_
                  /\ A = acks' /\ A \in Seq(AckRecords) /\ \A i \in DOMAIN A : IsTrueAck(A[i], R)
  <2>1. CASE UNCHANGED <<received, acks>>
    BY <1>1, <2>1 DEF FlowInv, AcksAreTrue
  <2>2. CASE Head(wire).seqno # -1 /\ Echo(Head(wire))
    <3>1. PICK p : p = Head(wire) /\ p \in P
      BY <1>6
    <3>2. p.seqno \in -1 .. maxseq_ /\ p.seqno # -1 /\ maxseq_ \in Int
      BY <1>1, <1>3, <2>2, <3>1, FlowTypes DEF PacketsTo
    <3>3. p.seqno \in 0 .. maxseq_
      BY <3>2
    <3> QED BY <1>1, <1>2, <2>2, <3>1, <3>3, EchoIsTrue
  <2> QED BY <1>2, <2>1, <2>2
<1>8. FlowInv'
  <2>1. left' \in [others : Nat, timeouts : Nat, checks : Nat]
    BY <1>1, <1>2 DEF FlowInv
  <2>2. IsABag(data') /\ BagToSet(data') \subseteq BagToSet(data)
    BY <1>1, <1>2 DEF FlowInv
  <2> QED BY <1>1, <1>2, <1>7, <2>1, <2>2, NetworkFlow
<1>9. ClockInv' /\ CwrInv'
  BY <1>1, <1>2 DEF ClockInv, CwrInv
<1>10. AlphaInv'
  BY <1>1, <1>2 DEF AlphaInv
<1>11. IntervalInv' /\ RerouteIsEarned
  BY <1>1, <1>2 DEF IntervalInv, RerouteIsEarned
<1>12. SampleIsCovered /\ TimedOnce
  <2>1. BagToSet(SentNow) = {}
    <3>1. \A s \in BagToSet(data) : data[s] <= data[s]
      BY <1>1 DEF FlowInv, IsABag, BagToSet
    <3> QED BY <1>1, <1>2, <3>1, NothingSent DEF FlowInv
  <2> QED BY <1>2, <2>1 DEF SampleIsCovered, TimedOnce, BagIn
<1>13. MarkedByTheQueue
  <2>1. left.others \in Nat
    BY <1>1 DEF FlowInv
  <2>2. ~ Refused
    BY <1>1, <1>2, <2>1, NothingRefused DEF FlowInv
  <2> QED BY <1>4, <2>2 DEF MarkedByTheQueue
<1> QED BY <1>5, <1>8, <1>9, <1>10, <1>11, <1>12, <1>13 DEF BInv, Behaves

(* An ACK comes back.  What it does to the clock: the handler takes a      *)
(* sample, ends the backoff or stops the timing.                           *)
LEMMA ClockedRetimes ==
  ASSUME rtt \in Estimates, NEW ack, ack.ecnecho \in BOOLEAN, NEW tao \in Nat, NEW small
  PROVE  LET e == Clocked(AfterMark(ack, small), ack, tao) IN
           /\ Retimes(rtt, e)
           /\ e.t_rtt_ # rtt.t_rtt_ /\ Abs(e.t_rtt_ - rtt.t_srtt_ \div 8) <= ShortMax
                => e.t_rtxcur_ >= e.t_rtt_
           /\ ~ TookNewAck(ack) /\ ~ TookEnd /\ ~ TookPartial /\ TookDupAction => ~ e.rtt_active_
<1>1. PICK g : g = AfterMark(ack, small)
  OBVIOUS
<1>2. Retimes(rtt, g) /\ g.t_rtt_ = rtt.t_rtt_ /\ g.t_srtt_ \in {0, rtt.t_srtt_}
  <2>1. Retimes(rtt, rtt)
    BY DEF Retimes
  <2> QED BY <1>1, <2>1, EcnBackedOffRetimes DEF AfterMark
<1>3. g \in Estimates
  BY <1>2 DEF Retimes
<1>4. ASSUME NEW e, Retimes(g, e), Covers(g, e)
      PROVE  /\ Retimes(rtt, e)
             /\ e.t_rtt_ # rtt.t_rtt_ /\ Abs(e.t_rtt_ - rtt.t_srtt_ \div 8) <= ShortMax
                  => e.t_rtxcur_ >= e.t_rtt_
  BY <1>2, <1>4 DEF Retimes, Covers
<1>5. PICK e : e = Clocked(g, ack, tao)
  OBVIOUS
<1>6. PICK f : f = Sampled(g, ack.seqno, ack.ecnecho, tao)
  OBVIOUS
<1>7. Retimes(g, f) /\ Covers(g, f) /\ f \in Estimates
  BY <1>3, <1>6, SampledRetimes DEF Retimes
<1>8. CASE TookNewAck(ack)
  <2>1. e = HelpedNewAck(f, ack.ecnecho)
    BY <1>5, <1>6, <1>8 DEF Clocked
  <2>2. Retimes(f, e) /\ e.t_rtt_ = f.t_rtt_ /\ e.t_rtxcur_ = f.t_rtxcur_
    BY <1>7, <2>1, HelpedRetimes
  <2>3. Retimes(g, e) /\ Covers(g, e)
    BY <1>7, <2>2 DEF Retimes, Covers
  <2> QED BY <1>1, <1>4, <1>5, <1>8, <2>3
<1>9. CASE ~ TookNewAck(ack) /\ TookEnd
  <2>1. e = f
    BY <1>5, <1>6, <1>9 DEF Clocked
  <2> QED BY <1>1, <1>4, <1>5, <1>7, <1>9, <2>1
<1>10. CASE ~ TookNewAck(ack) /\ ~ TookEnd /\ TookPartial
  <2>1. e = [g EXCEPT !.t_backoff_ = 1]
    BY <1>5, <1>10 DEF Clocked
  <2>2. Retimes(g, e) /\ e.t_rtt_ = g.t_rtt_
    BY <1>3, <2>1 DEF Retimes, Estimates
  <2> QED BY <1>1, <1>4, <1>5, <1>10, <2>2 DEF Covers
<1>11. CASE ~ TookNewAck(ack) /\ ~ TookEnd /\ ~ TookPartial /\ TookDupAction
  <2>1. e = TimerReset(g, FALSE)
    BY <1>5, <1>11 DEF Clocked
  <2>2. Retimes(g, e) /\ ~ e.rtt_active_ /\ e.t_rtt_ = g.t_rtt_
    BY <1>3, <2>1, TimerResetRetimes
  <2> QED BY <1>1, <1>4, <1>5, <2>2 DEF Covers
<1>12. CASE ~ TookNewAck(ack) /\ ~ TookEnd /\ ~ TookPartial /\ ~ TookDupAction
  <2>1. e = g
    BY <1>5, <1>12 DEF Clocked
  <2>2. Retimes(g, g)
    BY <1>3 DEF Retimes
  <2> QED BY <1>1, <1>4, <1>5, <1>12, <2>1, <2>2 DEF Covers
<1> QED BY <1>8, <1>9, <1>10, <1>11, <1>12

(* What it does to the window of alpha.                                    *)
LEMMA AckFeedback ==
  ASSUME BInv, RecvAck, NEW ack, ack = Head(acks), ack.seqno \in 0 .. maxseq_,
         ack.ecnecho \in BOOLEAN,
         NEW d, d = AckCounted(ack), conf' = conf, CountsMarks(dctcp'),
         NEW m \in Int, maxseq_' = m, m >= maxseq_,
         dctcp'.dctcp_maxseq >= d.dctcp_maxseq,
         conf.dctcp_ /\ m > maxseq_ => dctcp'.dctcp_maxseq >= m,
         dctcp'.dctcp_alpha_update_seq = d.dctcp_alpha_update_seq
  PROVE  AlphaInv'
<1>1. FlowInv /\ AlphaInv
  BY DEF BInv
<1>2. /\ maxseq_ \in Int /\ maxseq_ >= 0 /\ highest_ack_ \in Int /\ highest_ack_ >= -1
      /\ conf.dctcp_ \in BOOLEAN /\ case.flowBender_ \in BOOLEAN /\ ack.seqno \in Nat
  BY <1>1, FlowTypes
<1>3. /\ alphaSince \in Nat /\ behind \in BOOLEAN /\ (alphaSince = 0 \/ alphaSince <= maxseq_)
      /\ conf.dctcp_ => alphaSince <= dctcp.dctcp_alpha_update_seq
      /\ conf.dctcp_ /\ ~ behind => dctcp.dctcp_maxseq >= maxseq_
      /\ CountsMarks(dctcp)
  BY <1>1 DEF AlphaInv
<1>4. ASSUME conf.dctcp_
      PROVE  /\ d.dctcp_maxseq = dctcp.dctcp_maxseq
             /\ d.dctcp_alpha_update_seq =
                  IF EndsWindow(dctcp, ack.seqno) THEN dctcp.dctcp_maxseq
                  ELSE dctcp.dctcp_alpha_update_seq
  <2>1. d = update_dctcp_alpha(dctcp, ack.seqno, ack.ecnecho, highest_ack_, case.flowBender_)
    BY <1>4 DEF AckCounted
  <2>2. Countable(dctcp, ack.seqno, ack.ecnecho, highest_ack_, case.flowBender_)
    BY <1>2, <1>3 DEF Countable
  <2>3. CountsAnAck(dctcp, d, ack.seqno, case.flowBender_ /\ ack.ecnecho)
    BY <2>1, <2>2, AckCounts, Zenon
  <2> QED BY <2>3 DEF CountsAnAck
<1>5. PICK since, f, b : since = alphaSince' /\ f = dctcp' /\ b = behind'
  OBVIOUS
<1>6. /\ since = IF ~ UpdatesAlpha(ack) THEN alphaSince ELSE IF behind THEN 0 ELSE maxseq_
      /\ b = (behind /\ maxseq_' = maxseq_)
  BY <1>5 DEF RecvAck
<1>7. since \in Nat /\ (since = 0 \/ since <= maxseq_) /\ b \in BOOLEAN
  <2>1. b \in BOOLEAN
    BY <1>6
  <2>2. since = alphaSince \/ since = 0 \/ since = maxseq_
    BY <1>6
  <2> QED BY <1>2, <1>3, <2>1, <2>2
<1>8. /\ f.dctcp_maxseq \in Nat /\ f.dctcp_alpha_update_seq \in Nat
      /\ dctcp.dctcp_maxseq \in Nat /\ dctcp.dctcp_alpha_update_seq \in Nat
  BY <1>3, <1>5 DEF CountsMarks, Feedback
<1>9. ASSUME conf.dctcp_ PROVE since <= f.dctcp_alpha_update_seq
  <2>1. CASE ~ EndsWindow(dctcp, ack.seqno)
    <3>1. since = alphaSince /\ f.dctcp_alpha_update_seq = dctcp.dctcp_alpha_update_seq
      BY <1>4, <1>5, <1>6, <1>9, <2>1 DEF UpdatesAlpha
    <3> QED BY <1>3, <1>9, <3>1
  <2>2. CASE EndsWindow(dctcp, ack.seqno) /\ behind
    <3>1. since = 0
      BY <1>6, <1>9, <2>2 DEF UpdatesAlpha
    <3> QED BY <1>8, <3>1
  <2>3. CASE EndsWindow(dctcp, ack.seqno) /\ ~ behind
    <3>1. since = maxseq_ /\ f.dctcp_alpha_update_seq = dctcp.dctcp_maxseq
      BY <1>4, <1>5, <1>6, <1>9, <2>3 DEF UpdatesAlpha
    <3> QED BY <1>2, <1>3, <1>8, <1>9, <2>3, <3>1
  <2> QED BY <2>1, <2>2, <2>3
<1>10. ASSUME conf.dctcp_, ~ b PROVE f.dctcp_maxseq >= maxseq_
  <2>1. CASE behind
    <3>1. m # maxseq_
      BY <1>6, <1>10, <2>1
    <3>2. f.dctcp_maxseq >= m
      BY <1>2, <1>5, <1>10, <3>1
    <3> QED BY <1>2, <1>8, <3>2
  <2>2. CASE ~ behind
    <3>1. f.dctcp_maxseq >= dctcp.dctcp_maxseq /\ dctcp.dctcp_maxseq >= maxseq_
      BY <1>3, <1>4, <1>5, <1>10, <2>2
    <3> QED BY <1>2, <1>8, <3>1
  <2> QED BY <2>1, <2>2
<1> QED BY <1>1, <1>5, <1>7, <1>9, <1>10, AlphaFollows

(* What recv does to the flow.                                             *)
LEMMA AckReception ==
  ASSUME FlowInv, RecvAck
  PROVE  \E ack, w :
           /\ ack = Head(acks) /\ ack \in AckRecords
           /\ Receiving(ack, w, received) /\ Handles(ack, w)
<1>1. acks # <<>> /\ acks \in Seq(AckRecords) /\ Recv(Head(acks))
  BY DEF RecvAck, FlowInv, AcksAreTrue
<1>2. 1 \in DOMAIN acks /\ Head(acks) = acks[1] /\ Head(acks) \in AckRecords
  BY <1>1, TailOfAcks
<1>3. PICK ack : ack = Head(acks)
  OBVIOUS
<1>4. PICK w \in AfterEcn(ack) : Handles(ack, w)
  BY <1>1, <1>3 DEF Recv, Handles
<1>5. IsTrueAck(ack, received)
  BY <1>2, <1>3 DEF FlowInv, AcksAreTrue
<1>6. Receiving(ack, w, received)
  BY <1>4, <1>5 DEF Receiving, FlowInv
<1> QED BY <1>2, <1>3, <1>4, <1>6

(* An ACK comes back.                                                      *)
LEMMA RecvAckPreserves ==
  ASSUME BInv, RecvAck
  PROVE  BInv' /\ Behaves
<1>1. FlowInv /\ ClockInv /\ AlphaInv /\ IntervalInv /\ QueueOf(PacketsTo(maxseq_)) /\ CwrInv
  BY DEF BInv
<1>2. PICK R : R = received
  OBVIOUS
<1>3. PICK ack, w : /\ ack = Head(acks) /\ ack \in AckRecords
                    /\ Receiving(ack, w, R) /\ Handles(ack, w)
  BY <1>1, <1>2, AckReception
<1>4. /\ acks # <<>> /\ acks' = Tail(acks) /\ heard' = (heard \/ (case.flowBender_ /\ ack.ecnecho))
      /\ UNCHANGED <<queueVars, received, case, left, congested>>
  BY <1>3 DEF RecvAck
<1>5. PICK tao, small, e, d, slowed :
        /\ tao \in case.samples
        /\ e = Clocked(AfterMark(ack, small), ack, tao) /\ d = AckCounted(ack)
        /\ Sending(e, d, slowed)
  BY <1>3 DEF RecvAck
<1>6. /\ maxseq_ \in Int /\ maxseq_ >= -1 /\ t_seqno_ \in Nat
      /\ highest_ack_ \in Int /\ highest_ack_ >= -1
      /\ conf.dctcp_ \in BOOLEAN /\ case.flowBender_ \in BOOLEAN /\ tao \in Nat
  BY <1>1, <1>5, FlowTypes
<1>7. ack.seqno \in 0 .. maxseq_ /\ ack.ecnecho \in BOOLEAN /\ ack.seqno \in Nat
  BY <1>3, <1>6 DEF Receiving, IsTrueAck, AckRecords
<1>8. PICK resent, k : /\ SendsFrom(resent, k) /\ k >= t_seqno_
                       /\ ~ fastrecov_ /\ ~ fastrecov_' => resent = {}
  <2>1. PICK resent, k : /\ Sends(resent, k) /\ k >= t_seqno_
                         /\ ~ fastrecov_ /\ ~ fastrecov_' => resent = {}
    BY <1>3, HandlesSends DEF AnswersWith
  <2>2. k \in Int
    BY <2>1 DEF Sends
  <2>3. k >= 0
    BY <1>6, <2>1, <2>2
  <2> QED BY <1>1, <1>6, <2>1, <2>3 DEF SendsFrom, FlowInv
<1>9. conf' = conf
  BY <1>3, HandlesKeepConf
<1>10. Kept(received)
  <2>1. Kept(R)
    BY <1>3, RecvPreserves
  <2> QED BY <1>2, <1>4, <2>1, KeptReceived
<1>11. CwrInv' /\ IsABag(data')
  BY <1>1, <1>5, <1>8, CwrStep
<1>12. FlowInv' /\ maxseq_' \in Int /\ maxseq_' >= maxseq_
  <2>1. /\ acks' \in Seq(AckRecords)
        /\ \A i \in DOMAIN acks' : \E j \in DOMAIN acks : acks'[i] = acks[j]
    BY <1>1, <1>4, TailOfAcks DEF FlowInv, AcksAreTrue
  <2>2. left' \in [others : Nat, timeouts : Nat, checks : Nat]
    BY <1>1, <1>4 DEF FlowInv
  <2> QED BY <1>1, <1>4, <1>10, <1>11, <2>1, <2>2, SenderStep
<1>13. /\ Retimes(rtt, e)
       /\ e.t_rtt_ # rtt.t_rtt_ /\ Abs(e.t_rtt_ - rtt.t_srtt_ \div 8) <= ShortMax
            => e.t_rtxcur_ >= e.t_rtt_
       /\ ~ TookNewAck(ack) /\ ~ TookEnd /\ ~ TookPartial /\ TookDupAction => ~ e.rtt_active_
  <2>1. rtt \in Estimates
    BY <1>1 DEF ClockInv
  <2> QED BY <1>5, <1>6, <1>7, <2>1, ClockedRetimes
<1>14. e.rtt_active_ => (resent # {} => fastrecov_)
  <2> SUFFICES ASSUME resent # {}, ~ fastrecov_ PROVE ~ e.rtt_active_
    OBVIOUS
  <2>1. fastrecov_'
    BY <1>8
  <2>2. ack.seqno = last_ack_
    BY <1>3, <2>1, DuplicateStarts
  <2>3. last_ack_ \in Int
    BY <1>3, Handled
  <2>4. ~ TookNewAck(ack)
    BY <2>2, <2>3 DEF TookNewAck, IsNew
  <2>5. ~ TookEnd /\ ~ TookPartial /\ TookDupAction
    BY <2>1 DEF TookEnd, TookPartial, TookDupAction
  <2> QED BY <1>13, <2>4, <2>5
<1>15. /\ ClockInv' /\ TimedOnce /\ rtt'.t_rtt_ = e.t_rtt_ /\ rtt'.t_rtxcur_ = e.t_rtxcur_
  BY <1>1, <1>5, <1>6, <1>8, <1>13, <1>14, ClockStep DEF TimedOnce
<1>16. SampleIsCovered
  <2>1. PICK f : f = rtt' /\ f.t_rtt_ = e.t_rtt_ /\ f.t_rtxcur_ = e.t_rtxcur_
    BY <1>15
  <2> QED BY <1>13, <2>1 DEF SampleIsCovered
<1>17. /\ CountsMarks(d) /\ d.numRTTsCongested_ = dctcp.numRTTsCongested_
       /\ d.defttl_ = dctcp.defttl_
       /\ d.markedAckPkts_F > 0 =>
            dctcp.markedAckPkts_F > 0 \/ (case.flowBender_ /\ ack.ecnecho)
  <2>1. CountsMarks(dctcp)
    BY <1>1 DEF AlphaInv
  <2>2. CASE conf.dctcp_
    <3>1. d = update_dctcp_alpha(dctcp, ack.seqno, ack.ecnecho, highest_ack_, case.flowBender_)
      BY <1>5, <2>2 DEF AckCounted
    <3>2. Countable(dctcp, ack.seqno, ack.ecnecho, highest_ack_, case.flowBender_)
      BY <1>6, <1>7, <2>1 DEF Countable
    <3>3. CountsAnAck(dctcp, d, ack.seqno, case.flowBender_ /\ ack.ecnecho)
      BY <3>1, <3>2, AckCounts, Zenon
    <3> QED BY <3>3 DEF CountsAnAck
  <2>3. CASE ~ conf.dctcp_
    BY <1>5, <2>1, <2>3 DEF AckCounted
  <2> QED BY <2>2, <2>3
<1>18. /\ CountsMarks(dctcp')
       /\ dctcp'.dctcp_maxseq >= d.dctcp_maxseq
       /\ conf.dctcp_ /\ maxseq_' > maxseq_ => dctcp'.dctcp_maxseq >= maxseq_'
       /\ dctcp'.dctcp_alpha_update_seq = d.dctcp_alpha_update_seq
       /\ dctcp'.numRTTsCongested_ = d.numRTTsCongested_ /\ dctcp'.defttl_ = d.defttl_
       /\ dctcp'.markedAckPkts_F = d.markedAckPkts_F
  BY <1>5, <1>6, <1>8, <1>17, FeedbackStep
<1>19. AlphaInv'
  <2>1. PICK m \in Int : m = maxseq_' /\ m >= maxseq_
    BY <1>12
  <2> QED BY <1>3, <1>5, <1>7, <1>9, <1>18, <2>1, AckFeedback
<1>20. IntervalInv'
  <2>1. /\ congested \in Nat /\ heard \in BOOLEAN
        /\ dctcp.numRTTsCongested_ <= congested
        /\ dctcp.markedAckPkts_F > 0 => heard /\ case.flowBender_
        /\ ~ case.flowBender_ => dctcp.numRTTsCongested_ = 0
    BY <1>1 DEF IntervalInv
  <2>2. PICK f, h : /\ f = dctcp' /\ h = heard'
                    /\ f.numRTTsCongested_ = dctcp.numRTTsCongested_
                    /\ f.markedAckPkts_F = d.markedAckPkts_F
    BY <1>17, <1>18
  <2>3. h \in BOOLEAN /\ (h <=> heard \/ (case.flowBender_ /\ ack.ecnecho))
    BY <1>4, <2>2
  <2>4. f.markedAckPkts_F > 0 => h /\ case.flowBender_
    BY <1>17, <2>1, <2>2, <2>3
  <2> QED BY <1>4, <2>1, <2>2, <2>3, <2>4 DEF IntervalInv
<1>21. RerouteIsEarned
  BY <1>17, <1>18 DEF RerouteIsEarned
<1>22. QueueOf(PacketsTo(maxseq_))' /\ MarkedByTheQueue
  <2>1. left.others \in Nat /\ left'.others = left.others
    BY <1>1, <1>4 DEF FlowInv
  <2> QED BY <1>1, <1>4, <1>8, <2>1, QueueAside
<1> QED BY <1>11, <1>12, <1>15, <1>16, <1>19, <1>20, <1>21, <1>22 DEF BInv, Behaves

-------------------------------------------------------------------------------
(* The invariant holds of every behaviour.                                 *)

(* A step that changes nothing.                                            *)
LEMMA StutterPreserves ==
  ASSUME BInv, UNCHANGED vars
  PROVE  BInv'
<1>1. /\ FlowInv /\ ClockInv /\ AlphaInv /\ IntervalInv /\ QueueOf(PacketsTo(maxseq_)) /\ CwrInv
      /\ IsABag(data) /\ maxseq_ \in Int
  BY FlowTypes DEF BInv, FlowInv
<1>2. /\ UNCHANGED <<curseq_, t_seqno_, maxseq_, last_ack_, highest_ack_, dupacks_, windowVars,
                     wnd_init_, fastrecov_, pipe_, sacked, retran, timeout_, rtx_timer_, closed_,
                     conf>>
      /\ UNCHANGED <<rtt, dctcp, received, acks, case, alphaSince, behind, heard, congested>>
      /\ UNCHANGED <<data, left, cwr>> /\ UNCHANGED queueVars
  BY DEF vars, senderVars, feedbackVars, sinkVars, historyVars, alphaVars, intervalVars
<1>3. FlowInv' /\ ClockInv' /\ AlphaInv' /\ IntervalInv'
  <2>1. PICK D : D = data' /\ IsABag(D) /\ D = data
    BY <1>1, <1>2
  <2>2. \A r \in BagToSet(D) : D[r] <= data[r]
    BY <2>1 DEF IsABag, BagToSet
  <2>3. left' \in [others : Nat, timeouts : Nat, checks : Nat]
    BY <1>1, <1>2 DEF FlowInv
  <2> QED BY <1>1, <1>2, <2>1, <2>2, <2>3, ArrivalKeeps
<1>4. QueueOf(PacketsTo(maxseq_))'
  BY <1>1, <1>2, QueueWaits
<1>5. CwrInv'
  BY <1>1, <1>2 DEF CwrInv
<1> QED BY <1>3, <1>4, <1>5 DEF BInv

(* A queue starts empty, with thresholds above zero.                       *)
LEMMA InitQueueOf ==
  ASSUME QueueInit, NEW r \in QueueSettings, red = initialize_params(r), NEW P
  PROVE  QueueOf(P)
<1>1. /\ r \in AllQueues
      /\ r.th_max # 0 => 0 < r.th_min /\ r.th_min <= r.th_max
  BY QueueAssumption
<1>2. PICK min, max, target \in Nat : min = r.th_min /\ max = r.th_max /\ target = r.targetqueue
  BY <1>1 DEF AllQueues
<1>3. PICK half \in Nat : half = target \div 2
  OBVIOUS
<1>4. PICK low \in Nat \ {0} : low = IF min # 0 THEN min ELSE IF half > 5 THEN half ELSE 5
  OBVIOUS
<1>5. PICK high \in Nat : high = IF max = 0 THEN 3 * low ELSE max
  OBVIOUS
<1>6. low <= high
  BY <1>1, <1>2, <1>4, <1>5
<1>7. red = [r EXCEPT !.th_min = low, !.th_max = high]
  BY <1>2, <1>3, <1>4, <1>5 DEF initialize_params
<1>8. red \in AllQueues /\ red.th_min = low /\ red.th_max = high
  <2>1. [r EXCEPT !.th_min = low] \in AllQueues
    BY <1>1 DEF AllQueues
  <2> QED BY <1>1, <1>7, <2>1 DEF AllQueues
<1>9. red.limit \in Nat /\ CountBound \in Nat
  <2>1. PICK t \in Nat \ {0}, m \in Nat \ {0} : t = th_diff /\ m = red.max_p_inv
    BY <1>6, <1>8 DEF AllQueues, th_diff
  <2>2. t * m \in Nat
    BY <2>1
  <2> QED BY <1>8, <2>1, <2>2 DEF AllQueues, CountBound, Unit
<1>10. q = <<>> /\ wire = <<>> /\ v_ave = 0 /\ count = 0 /\ old = FALSE /\ curq_ = 0
  BY DEF QueueInit
<1>11. ~ Above(curq_)
  BY <1>10 DEF Above
<1>12. Waiting(P)
  <2>1. <<>> \in Seq(P) /\ Len(<<>>) = 0
    OBVIOUS
  <2> QED BY <1>9, <1>10, <2>1 DEF Waiting
<1>13. old \in BOOLEAN /\ (old <=> Above(curq_))
  BY <1>10, <1>11, Zenon
<1>14. red \in AllQueues /\ 0 < red.th_min /\ red.th_min <= red.th_max
  BY <1>4, <1>6, <1>8
<1>15. v_ave \in 0 .. red.limit /\ curq_ \in 0 .. red.limit /\ count \in 0 .. CountBound
  BY <1>9, <1>10
<1> QED BY <1>12, <1>13, <1>14, <1>15, Zenon DEF QueueOf

(* The flow, its queue and its sink start so.                              *)
LEMMA InitBInv ==
  ASSUME Init
  PROVE  BInv
<1>1. /\ SenderInit /\ QueueInit /\ case \in Cases /\ conf = case.sender
      /\ red = initialize_params(case.queue) /\ rtt = RttInit /\ dctcp = FeedbackInit
      /\ cwr = EmptyBag /\ received = {} /\ acks = <<>>
      /\ left = [others |-> case.others, timeouts |-> case.timeouts, checks |-> case.checks]
      /\ alphaSince = 0 /\ behind = FALSE /\ heard = FALSE /\ congested = 0
  BY DEF Init
<1>2. case \in AllCases
  BY <1>1, CasesAssumption
<1>3. maxseq_ = -1 /\ highest_ack_ = -1 /\ sacked = {} /\ data = EmptyBag
  BY <1>1 DEF SenderInit
<1>4. FlowInv
  <2>1. SenderInv
    BY <1>1, InitSenderInv
  <2>2. IsABag(data) /\ KnowsOnly(received)
    BY <1>1, <1>3 DEF IsABag, EmptyBag, SetToBag, KnowsOnly
  <2>3. AcksAreTrue
    BY <1>1 DEF AcksAreTrue
  <2>4. left \in [others : Nat, timeouts : Nat, checks : Nat]
    BY <1>1, <1>2 DEF AllCases
  <2> QED BY <1>1, <2>1, <2>2, <2>3, <2>4 DEF FlowInv
<1>5. ClockInv
  BY <1>1, <1>3, RttAssumption DEF ClockInv, RttInit, Estimates
<1>6. AlphaInv
  <2>1. FeedbackInit \in Feedback
    BY DctcpAssumption DEF FeedbackInit, Feedback
  <2>2. CountsMarks(dctcp)
    BY <1>1, <2>1 DEF CountsMarks, FeedbackInit
  <2>3. dctcp.dctcp_alpha_update_seq = 0 /\ dctcp.dctcp_maxseq = 0
    BY <1>1 DEF FeedbackInit
  <2>4. /\ alphaSince \in Nat /\ (alphaSince = 0 \/ alphaSince <= maxseq_)
        /\ alphaSince <= dctcp.dctcp_alpha_update_seq /\ dctcp.dctcp_maxseq >= maxseq_
    BY <1>1, <1>3, <2>3
  <2>5. behind \in BOOLEAN
    BY <1>1
  <2> QED BY <2>2, <2>4, <2>5, Zenon DEF AlphaInv
<1>7. IntervalInv
  <2>1. dctcp.markedAckPkts_F = 0 /\ dctcp.numRTTsCongested_ = 0
    BY <1>1 DEF FeedbackInit
  <2>2. ~ (dctcp.markedAckPkts_F > 0) /\ congested \in Nat /\ dctcp.numRTTsCongested_ <= congested
    BY <1>1, <2>1
  <2>3. heard \in BOOLEAN
    BY <1>1
  <2> QED BY <2>1, <2>2, <2>3, Zenon DEF IntervalInv
<1>8. QueueOf(PacketsTo(maxseq_))
  BY <1>1, <1>2, InitQueueOf DEF AllCases
<1>9. CwrInv
  BY <1>1 DEF CwrInv, IsABag, EmptyBag, SetToBag, BagToSet
<1> QED BY <1>4, <1>5, <1>6, <1>7, <1>8, <1>9 DEF BInv

(* Every step keeps the invariant.                                         *)
LEMMA NextBInv ==
  BInv /\ [Next]_vars => BInv'
<1> SUFFICES ASSUME BInv, [Next]_vars PROVE BInv'
  OBVIOUS
<1>1. CASE Start
  BY <1>1, StartPreserves
<1>2. CASE RecvAck
  BY <1>2, RecvAckPreserves
<1>3. CASE RtxTimeout
  BY <1>3, RtxTimeoutPreserves
<1>4. CASE FlowBenderTimer
  BY <1>4, FlowBenderTimerPreserves
<1>5. CASE \E s \in BagToSet(data) : Arrive(s)
  BY <1>5, ArrivePreserves
<1>6. CASE ArriveOther
  BY <1>6, ArriveOtherPreserves
<1>7. CASE Depart
  BY <1>7, DepartPreserves
<1>8. CASE UNCHANGED vars
  BY <1>8, StutterPreserves
<1> QED BY <1>1, <1>2, <1>3, <1>4, <1>5, <1>6, <1>7, <1>8 DEF Next

(* Every step is as its properties say.                                    *)
LEMMA NextBehaves ==
  ASSUME BInv, Next
  PROVE  Behaves
<1>1. CASE Start
  BY <1>1, StartPreserves
<1>2. CASE RecvAck
  BY <1>2, RecvAckPreserves
<1>3. CASE RtxTimeout
  BY <1>3, RtxTimeoutPreserves
<1>4. CASE FlowBenderTimer
  BY <1>4, FlowBenderTimerPreserves
<1>5. CASE \E s \in BagToSet(data) : Arrive(s)
  BY <1>5, ArrivePreserves
<1>6. CASE ArriveOther
  BY <1>6, ArriveOtherPreserves
<1>7. CASE Depart
  BY <1>7, DepartPreserves
<1> QED BY <1>1, <1>2, <1>3, <1>4, <1>5, <1>6, <1>7 DEF Next

(* The sender, its clock, its memory of marks, the queue, the echo and the *)
(* news of a cut stay consistent with each other through every step of a   *)
(* congested flow.                                                         *)
THEOREM BottleneckInvariant == Spec => []BInv
<1>1. Init => BInv
  BY InitBInv
<1>2. BInv /\ [Next]_vars => BInv'
  BY NextBInv
<1> QED BY <1>1, <1>2, PTL DEF Spec

(* Everything has its type: the queue is never longer than its limit, the  *)
(* link is never idle while packets wait (Queue::recv, resume), and no     *)
(* more segments tell of a cut than are on their way.                      *)
THEOREM BottleneckTypeOK == Spec => []TypeOK
<1>1. BInv => TypeOK
  <2> SUFFICES ASSUME BInv PROVE TypeOK
    OBVIOUS
  <2>1. /\ FlowInv /\ ClockInv /\ AlphaInv /\ IntervalInv /\ QueueOf(PacketsTo(maxseq_))
        /\ CwrInv
    BY DEF BInv
  <2>2. maxseq_ \in Int /\ conf.size \in Nat /\ maxseq_ <= conf.size
    BY <2>1, FlowTypes
  <2>3. PacketsTo(maxseq_) \subseteq Packets
    BY <2>2 DEF PacketsTo, Packets
  <2>4. q \in Seq(Packets) /\ wire \in Seq(Packets)
    BY <2>1, <2>3, SeqMonotonic DEF QueueOf, Waiting
  <2>5. rtt \in Estimates /\ (rtt.rtt_active_ => rtt.rtt_seq_ \in 0 .. maxseq_)
    BY <2>1, <2>2 DEF ClockInv
  <2>6. /\ dctcp \in Feedback /\ dctcp.dctcp_marked <= dctcp.dctcp_total
        /\ dctcp.markedAckPkts_F <= dctcp.totalAckPkts
    BY <2>1 DEF AlphaInv, CountsMarks
  <2>7. \A s \in BagToSet(cwr) : BagIn(s, data) /\ Copies(s, cwr) <= Copies(s, data)
    BY <2>1 DEF CwrInv, BagIn, Copies
  <2>8. /\ Len(q) <= red.limit /\ (wire = <<>> => q = <<>>) /\ Len(wire) <= 1
        /\ v_ave \in 0 .. red.limit /\ curq_ \in 0 .. red.limit /\ count \in 0 .. CountBound
        /\ old \in BOOLEAN
    BY <2>1 DEF QueueOf, Waiting
  <2>9. case \in Cases /\ received \subseteq 0 .. maxseq_
    BY <2>1 DEF FlowInv
  <2> QED BY <2>4, <2>5, <2>6, <2>7, <2>8, <2>9 DEF TypeOK
<1> QED BY <1>1, BottleneckInvariant, PTL

(* A sample that a short can hold leaves a timeout not below it            *)
(* (rtt_update), and a timeout with segments outstanding doubles the       *)
(* timeout, up to maxrto_ (rtt_backoff).                                   *)
THEOREM BottleneckRto == Spec => RtoIsSafe
<1>1. BInv /\ [Next]_vars =>
        [/\ /\ rtt.rtt_active_ /\ ~ rtt'.rtt_active_ /\ rtt'.t_rtt_ # rtt.t_rtt_
            /\ Abs(rtt'.t_rtt_ - rtt.t_srtt_ \div 8) <= ShortMax
            => rtt'.t_rtxcur_ >= rtt'.t_rtt_
         /\ RtxTimeout /\ highest_ack_ # maxseq_ =>
              rtt_timeout(rtt') = Smaller(maxrto_, 2 * rtt_timeout(rtt))]_vars
  BY NextBehaves, RtxTimeoutPreserves DEF Behaves, SampleIsCovered
<1> QED BY <1>1, BottleneckInvariant, PTL DEF Spec, RtoIsSafe

(* A segment that is sent again is not timed, except while a recovery is   *)
(* filling holes (reset_rtx_timer, output, send_much).                     *)
THEOREM BottleneckKarn == Spec => KarnsRule
<1>1. BInv /\ [Next]_vars =>
        [rtt'.rtt_active_ /\ rtt'.rtt_seq_ <= maxseq_ /\ BagIn(rtt'.rtt_seq_, SentNow)
         => fastrecov_]_vars
  BY NextBehaves DEF Behaves, TimedOnce
<1> QED BY <1>1, BottleneckInvariant, PTL DEF Spec, KarnsRule

(* The queue of DCTCP marks exactly the packets that find it above the     *)
(* threshold, as the packet before did, drops one that can be marked only  *)
(* at its limit, and no queue drops a packet while the link is idle        *)
(* (enque, drop_early).                                                    *)
THEOREM BottleneckMarks == Spec => MarksFollowTheQueue
<1>1. BInv /\ [Next]_vars =>
        [/\ Steps /\ Joined =>
              (NewPacket.ce <=> NewPacket.ect /\ Above(Len(q)) /\ Above(curq_))
         /\ Steps /\ Refused /\ conf.ecn_ /\ conf.dctcp_ => Len(q) >= red.limit
         /\ Refused => wire # <<>>]_vars
  BY NextBehaves DEF Behaves, MarkedByTheQueue
<1> QED BY <1>1, BottleneckInvariant, PTL DEF Spec, MarksFollowTheQueue

(* An ACK that ends a window of alpha is of a segment sent after the last  *)
(* update (update_dctcp_alpha), and FlowBender moves the flow only at a    *)
(* timeout or after as many congested intervals as it asks for             *)
(* (checkCongestionFB, timeout).                                           *)
THEOREM BottleneckFeedback == Spec => FeedbackIsPaced
<1>1. ASSUME BInv, NEW i \in DOMAIN acks, i = 1, UpdatesAlpha(acks[i])
      PROVE  acks[i].seqno > alphaSince
  <2>1. conf.dctcp_ /\ acks[i].seqno > dctcp.dctcp_alpha_update_seq
    BY <1>1 DEF UpdatesAlpha, EndsWindow
  <2>2. AlphaInv /\ FlowInv
    BY <1>1 DEF BInv
  <2>3. alphaSince \in Nat /\ alphaSince <= dctcp.dctcp_alpha_update_seq
        /\ dctcp.dctcp_alpha_update_seq \in Nat
    BY <2>1, <2>2 DEF AlphaInv, CountsMarks, Feedback
  <2>4. acks[i].seqno \in Int
    BY <2>2, FlowTypes DEF FlowInv, AcksAreTrue, IsTrueAck
  <2> QED BY <2>1, <2>3, <2>4
<1>2. BInv /\ [Next]_vars => [AlphaOncePerWindow /\ RerouteIsEarned]_vars
  BY <1>1, NextBehaves DEF Behaves, AlphaOncePerWindow
<1> QED BY <1>2, BottleneckInvariant, PTL DEF Spec, FeedbackIsPaced
-------------------------------------------------------------------------------
(* The news of a cut on its way through the queue.  In a sequence of       *)
(* packets, N are those with the news and C the copies of its segment.     *)

NoneIn(L, C) == \A i \in DOMAIN L : L[i] \notin C
SomeIn(L, N) == \E i \in DOMAIN L : L[i] \in N

(* One packet has the news, and no copy of its segment is before it.       *)
FirstIn(L, N, C) ==
  \E i \in DOMAIN L :
    /\ L[i] \in N
    /\ \A j \in DOMAIN L : L[j] \in N \/ (L[j] \in C /\ j < i) => j = i

(* A packet comes after all others.                                        *)
LEMMA AfterTheOthers ==
  ASSUME NEW P, NEW L \in Seq(P), NEW r \in P, NEW N, NEW C, N \subseteq C
  PROVE  /\ NoneIn(L, C) /\ r \notin C => NoneIn(Append(L, r), C)
         /\ NoneIn(L, C) /\ r \in N => FirstIn(Append(L, r), N, C)
         /\ FirstIn(L, N, C) /\ r \notin N => FirstIn(Append(L, r), N, C)
<1>1. PICK M, n : M = Append(L, r) /\ n = Len(L) /\ n \in Nat
  BY LenProperties
<1>2. /\ DOMAIN L = 1 .. n /\ DOMAIN M = 1 .. n + 1
      /\ \A i \in 1 .. n : M[i] = L[i]
      /\ M[n + 1] = r
  BY <1>1, AppendProperties, LenProperties
<1>3. \A i \in 1 .. n + 1 : i \in 1 .. n \/ i = n + 1
  BY <1>1
<1>4. \A i \in 1 .. n : i \in 1 .. n + 1 /\ ~ (n + 1 < i) /\ n + 1 # i
  BY <1>1
<1>5. n + 1 \in 1 .. n + 1
  BY <1>1
<1>6. ASSUME NoneIn(L, C), r \notin C PROVE NoneIn(M, C)
  BY <1>2, <1>3, <1>6 DEF NoneIn
<1>7. ASSUME NoneIn(L, C), r \in N PROVE FirstIn(M, N, C)
  <2>1. ASSUME NEW j \in 1 .. n + 1, M[j] \in C PROVE j = n + 1
    BY <1>2, <1>3, <1>7, <2>1 DEF NoneIn
  <2> QED BY <1>2, <1>5, <1>7, <2>1 DEF FirstIn
<1>8. ASSUME FirstIn(L, N, C), r \notin N PROVE FirstIn(M, N, C)
  <2>1. PICK i \in 1 .. n :
          /\ L[i] \in N
          /\ \A j \in 1 .. n : L[j] \in N \/ (L[j] \in C /\ j < i) => j = i
    BY <1>2, <1>8 DEF FirstIn
  <2>2. ASSUME NEW j \in 1 .. n + 1, M[j] \in N \/ (M[j] \in C /\ j < i) PROVE j = i
    <3>1. CASE j \in 1 .. n
      BY <1>2, <2>1, <2>2, <3>1
    <3>2. CASE j = n + 1
      <4>1. M[j] \notin N /\ ~ (j < i)
        BY <1>2, <1>4, <1>8, <3>2
      <4> QED BY <2>2, <4>1
    <3> QED BY <1>3, <3>1, <3>2
  <2>3. i \in 1 .. n + 1 /\ M[i] \in N
    BY <1>2, <1>4, <2>1
  <2> QED BY <1>2, <2>2, <2>3 DEF FirstIn
<1> QED BY <1>1, <1>6, <1>7, <1>8

(* A packet is dropped: it is the one with the news, or the news is there. *)
LEMMA WithoutOneOther ==
  ASSUME NEW P, NEW L \in Seq(P), NEW k \in 1 .. Len(L), NEW N, NEW C
  PROVE  /\ NoneIn(L, C) => NoneIn(Without(L, k), C)
         /\ FirstIn(L, N, C) /\ SomeIn(Without(L, k), N) => FirstIn(Without(L, k), N, C)
<1>1. PICK M, n : M = Without(L, k) /\ n = Len(L) /\ n \in Nat /\ n >= 1
  <2>1. Len(L) \in Nat /\ Len(L) >= 1
    BY LenProperties
  <2> QED BY <2>1
<1>2. /\ DOMAIN L = 1 .. n /\ DOMAIN M = 1 .. n - 1
      /\ \A i \in 1 .. n - 1 : M[i] = IF i < k THEN L[i] ELSE L[i + 1]
  <2>1. /\ M \in Seq(P) /\ Len(M) = n - 1
        /\ \A i \in 1 .. n - 1 : M[i] = IF i < k THEN L[i] ELSE L[i + 1]
    BY <1>1, WithoutOne
  <2> QED BY <1>1, <2>1, LenProperties
<1> DEFINE From(i) == IF i < k THEN i ELSE i + 1
<1>3. \A i \in 1 .. n - 1 : From(i) \in 1 .. n /\ M[i] = L[From(i)]
  <2>1. ASSUME NEW i \in 1 .. n - 1 PROVE From(i) \in 1 .. n
    BY <1>1
  <2>2. ASSUME NEW i \in 1 .. n - 1 PROVE M[i] = L[From(i)]
    BY <1>2
  <2> HIDE DEF From
  <2> QED BY <2>1, <2>2
<1>4. \A i, j \in 1 .. n - 1 :
        /\ From(i) = From(j) => i = j
        /\ i < j => From(i) < From(j)
  BY <1>1
<1> HIDE DEF From
<1>5. ASSUME NoneIn(L, C) PROVE NoneIn(M, C)
  BY <1>2, <1>3, <1>5 DEF NoneIn
<1>6. ASSUME FirstIn(L, N, C), SomeIn(M, N) PROVE FirstIn(M, N, C)
  <2>1. PICK i \in 1 .. n :
          \A j \in 1 .. n : L[j] \in N \/ (L[j] \in C /\ j < i) => j = i
    BY <1>2, <1>6 DEF FirstIn
  <2>2. PICK h \in 1 .. n - 1 : M[h] \in N
    BY <1>2, <1>6 DEF SomeIn
  <2>3. From(h) = i
    BY <1>3, <2>1, <2>2
  <2>4. ASSUME NEW j \in 1 .. n - 1, M[j] \in N \/ (M[j] \in C /\ j < h) PROVE j = h
    <3>1. L[From(j)] \in N \/ (L[From(j)] \in C /\ From(j) < i)
      BY <1>3, <1>4, <2>3, <2>4
    <3>2. From(j) = i
      BY <1>3, <2>1, <3>1
    <3> QED BY <1>4, <2>3, <3>2
  <2> QED BY <1>2, <2>2, <2>4 DEF FirstIn
<1> QED BY <1>1, <1>5, <1>6

(* The first packet leaves: if it is a copy, it is the one with the news.  *)
LEMMA FirstLeaves ==
  ASSUME NEW P, NEW L \in Seq(P), L # <<>>, NEW N, NEW C
  PROVE  /\ NoneIn(L, C) => Head(L) \notin C /\ NoneIn(Tail(L), C)
         /\ FirstIn(L, N, C) /\ Head(L) \notin C /\ N \subseteq C => FirstIn(Tail(L), N, C)
         /\ FirstIn(L, N, C) /\ Head(L) \in C => Head(L) \in N
<1>1. PICK T, n : T = Tail(L) /\ n = Len(L) /\ n \in Nat /\ n >= 1
  <2>1. Len(L) \in Nat \ {0}
    BY EmptySeq
  <2>2. Len(L) \in Nat /\ Len(L) >= 1
    BY <2>1
  <2> QED BY <2>2
<1>2. /\ DOMAIN L = 1 .. n /\ DOMAIN T = 1 .. n - 1 /\ Head(L) = L[1]
      /\ \A i \in 1 .. n - 1 : T[i] = L[i + 1]
  <2>1. T \in Seq(P) /\ Len(T) = n - 1 /\ \A i \in 1 .. Len(T) : T[i] = L[i + 1]
    BY <1>1, HeadTailProperties
  <2> QED BY <1>1, <2>1, LenProperties
<1>3. 1 \in 1 .. n /\ \A i \in 1 .. n - 1 : i + 1 \in 1 .. n
  BY <1>1
<1>4. ASSUME NoneIn(L, C) PROVE Head(L) \notin C /\ NoneIn(T, C)
  BY <1>2, <1>3, <1>4 DEF NoneIn
<1>5. ASSUME FirstIn(L, N, C)
      PROVE  /\ Head(L) \notin C /\ N \subseteq C => FirstIn(T, N, C)
             /\ Head(L) \in C => Head(L) \in N
  <2>1. PICK i \in 1 .. n :
          /\ L[i] \in N
          /\ \A j \in 1 .. n : L[j] \in N \/ (L[j] \in C /\ j < i) => j = i
    BY <1>2, <1>5 DEF FirstIn
  <2>2. CASE i = 1
    BY <1>2, <2>1, <2>2
  <2>3. CASE i # 1
    <3>1. 1 < i
      BY <1>1, <2>3
    <3>2. L[1] \notin C
      BY <1>3, <2>1, <2>3, <3>1
    <3>3. PICK h \in 1 .. n - 1 : i = h + 1
      <4>1. i - 1 \in 1 .. n - 1 /\ i = (i - 1) + 1
        BY <1>1, <3>1
      <4> QED BY <4>1
    <3>4. ASSUME NEW j \in 1 .. n - 1, T[j] \in N \/ (T[j] \in C /\ j < h) PROVE j = h
      <4>1. L[j + 1] \in N \/ (L[j + 1] \in C /\ j + 1 < i)
        BY <1>2, <3>3, <3>4
      <4>2. j + 1 = i
        BY <1>3, <2>1, <4>1
      <4> QED BY <3>3, <4>2
    <3>5. T[h] \in N
      BY <1>2, <2>1, <3>3
    <3>6. FirstIn(T, N, C)
      BY <1>2, <3>4, <3>5 DEF FirstIn
    <3> QED BY <1>2, <3>2, <3>6
  <2> QED BY <2>2, <2>3
<1> QED BY <1>1, <1>4, <1>5

LosesOne(L, M) == \E j \in 1 .. Len(L) : M = Without(L, j)

(* What a queue loses, the line of the link and the queue loses.           *)
LEMMA LineLoses ==
  ASSUME NEW P, NEW w \in Seq(P), NEW a \in Seq(P), NEW r \in P, NEW i \in 1 .. Len(a) + 1
  PROVE  LosesOne(Append(w \o a, r), w \o Without(Append(a, r), i))
<1>1. PICK l, n : l = Len(w) /\ n = Len(a) /\ l \in Nat /\ n \in Nat
  BY LenProperties
<1>2. PICK b \in Seq(P) : /\ b = Append(a, r) /\ Len(b) = n + 1 /\ b[n + 1] = r
                          /\ \A h \in 1 .. n : b[h] = a[h]
  <2>1. /\ Append(a, r) \in Seq(P) /\ Len(Append(a, r)) = Len(a) + 1
        /\ \A h \in 1 .. Len(a) : Append(a, r)[h] = a[h]
        /\ Append(a, r)[Len(a) + 1] = r
    BY AppendProperties
  <2> QED BY <1>1, <2>1
<1>3. PICK x \in Seq(P) : /\ x = w \o a /\ Len(x) = l + n
                          /\ \A h \in 1 .. l + n : x[h] = IF h <= l THEN w[h] ELSE a[h - l]
  <2>1. /\ w \o a \in Seq(P) /\ Len(w \o a) = Len(w) + Len(a)
        /\ \A h \in 1 .. Len(w) + Len(a) :
             (w \o a)[h] = IF h <= Len(w) THEN w[h] ELSE a[h - Len(w)]
    BY ConcatProperties
  <2> QED BY <1>1, <2>1
<1>4. PICK y \in Seq(P) : /\ y = Append(x, r) /\ Len(y) = l + n + 1 /\ y[l + n + 1] = r
                          /\ \A h \in 1 .. l + n : y[h] = x[h]
  <2>1. /\ Append(x, r) \in Seq(P) /\ Len(Append(x, r)) = Len(x) + 1
        /\ \A h \in 1 .. Len(x) : Append(x, r)[h] = x[h]
        /\ Append(x, r)[Len(x) + 1] = r
    BY AppendProperties
  <2> QED BY <1>3, <2>1
<1>5. i \in 1 .. n + 1 /\ i \in 1 .. Len(b)
  BY <1>1, <1>2
<1>6. PICK c \in Seq(P) : /\ c = Without(b, i) /\ Len(c) = n
                          /\ \A h \in 1 .. n : c[h] = IF h < i THEN b[h] ELSE b[h + 1]
  <2>1. /\ Without(b, i) \in Seq(P) /\ Len(Without(b, i)) = Len(b) - 1
        /\ \A h \in 1 .. Len(b) - 1 : Without(b, i)[h] = IF h < i THEN b[h] ELSE b[h + 1]
    BY <1>5, WithoutOne
  <2>2. Len(b) - 1 = n
    BY <1>1, <1>2
  <2> QED BY <2>1, <2>2
<1>7. PICK j : j = l + i
  OBVIOUS
<1>8. j \in 1 .. l + n + 1 /\ j \in 1 .. Len(y)
  BY <1>1, <1>4, <1>5, <1>7
<1>9. PICK d \in Seq(P) : /\ d = Without(y, j) /\ Len(d) = l + n
                          /\ \A h \in 1 .. l + n : d[h] = IF h < j THEN y[h] ELSE y[h + 1]
  <2>1. /\ Without(y, j) \in Seq(P) /\ Len(Without(y, j)) = Len(y) - 1
        /\ \A h \in 1 .. Len(y) - 1 : Without(y, j)[h] = IF h < j THEN y[h] ELSE y[h + 1]
    BY <1>8, WithoutOne
  <2>2. Len(y) - 1 = l + n
    BY <1>1, <1>4
  <2> QED BY <2>1, <2>2
<1>10. PICK e \in Seq(P) : /\ e = w \o c /\ Len(e) = l + n
                           /\ \A h \in 1 .. l + n : e[h] = IF h <= l THEN w[h] ELSE c[h - l]
  <2>1. /\ w \o c \in Seq(P) /\ Len(w \o c) = Len(w) + Len(c)
        /\ \A h \in 1 .. Len(w) + Len(c) :
             (w \o c)[h] = IF h <= Len(w) THEN w[h] ELSE c[h - Len(w)]
    BY ConcatProperties
  <2>2. Len(w) = l /\ Len(c) = n
    BY <1>1, <1>6
  <2> QED BY <2>1, <2>2
<1>11. ASSUME NEW h \in 1 .. l + n PROVE e[h] = d[h]
  <2>1. CASE h <= l
    <3>1. h < j
      BY <1>1, <1>5, <1>7, <2>1
    <3> QED BY <1>3, <1>4, <1>9, <1>10, <2>1, <3>1
  <2>2. CASE ~ (h <= l)
    <3>1. PICK g : g = h - l
      OBVIOUS
    <3>2. g \in 1 .. n /\ h = l + g /\ (g < i <=> h < j)
      BY <1>1, <1>5, <1>7, <2>2, <3>1
    <3>3. e[h] = IF g < i THEN b[g] ELSE b[g + 1]
      BY <1>6, <1>10, <2>2, <3>1, <3>2
    <3>4. b[g] = y[h]
      <4>1. x[h] = a[g]
        BY <1>3, <2>2, <3>1
      <4> QED BY <1>2, <1>4, <3>2, <4>1
    <3>5. b[g + 1] = y[h + 1]
      <4>1. CASE g = n
        BY <1>1, <1>2, <1>4, <3>2, <4>1
      <4>2. CASE g # n
        <5>1. g + 1 \in 1 .. n /\ h + 1 \in 1 .. l + n /\ ~ (h + 1 <= l) /\ h + 1 - l = g + 1
          BY <1>1, <3>2, <4>2
        <5>2. x[h + 1] = a[g + 1]
          <6>1. PICK f \in 1 .. l + n : f = h + 1
            BY <5>1
          <6>2. ~ (f <= l) /\ f - l = g + 1
            BY <1>1, <3>2, <6>1
          <6>3. x[f] = a[f - l]
            BY <1>3, <6>2
          <6> QED BY <6>1, <6>2, <6>3
        <5> QED BY <1>2, <1>4, <5>1, <5>2
      <4> QED BY <4>1, <4>2
    <3>6. d[h] = IF h < j THEN y[h] ELSE y[h + 1]
      BY <1>9
    <3> QED BY <3>2, <3>3, <3>4, <3>5, <3>6
  <2> QED BY <2>1, <2>2
<1>12. e = d
  BY <1>9, <1>10, <1>11, SeqEqual
<1>13. LosesOne(y, w \o c)
  BY <1>8, <1>9, <1>10, <1>12 DEF LosesOne
<1>14. w \o Without(Append(a, r), i) = w \o c /\ Append(w \o a, r) = y
  BY <1>2, <1>3, <1>4, <1>6
<1> QED BY <1>13, <1>14

(* An arrival: the packet comes after those of the line, and then one of   *)
(* them may be dropped.                                                    *)
LEMMA LineTakes ==
  ASSUME NEW n, NEW P, P = PacketsTo(n), QueueOf(P), NEW p \in P, ~ p.ce, Enque(p)
  PROVE  \E r \in P, X \in Seq(P) :
           /\ r.seqno = p.seqno /\ r.cong_action = p.cong_action
           /\ X = Append(wire \o q, r)
           /\ wire' \o q' = X \/ LosesOne(X, wire' \o q')
<1>1. PICK ave, hit, above, over, asked, full, r :
        Decided(p, P, ave, hit, above, over, asked, full, r)
  BY EnqueOutcome
<1>2. /\ r = [p EXCEPT !.ce = hit /\ MayMark(p, ave)] /\ r \in P
      /\ Drops(P, r) \/ Joins(r)
  BY <1>1 DEF Decided
<1>3. r.seqno = p.seqno /\ r.cong_action = p.cong_action
  BY <1>2 DEF PacketsTo
<1>4. q \in Seq(P) /\ wire \in Seq(P)
  BY DEF QueueOf, Waiting
<1>5. PICK X : X = Append(wire \o q, r)
  OBVIOUS
<1>6. X \in Seq(P)
  BY <1>2, <1>4, <1>5, ConcatProperties, AppendProperties
<1>7. CASE Drops(P, r)
  <2>1. PICK i \in 1 .. Len(q) + 1 : wire' = wire /\ q' = Without(Append(q, r), i)
    BY <1>7 DEF Drops
  <2>2. LosesOne(X, wire \o Without(Append(q, r), i))
    BY <1>2, <1>4, <1>5, LineLoses
  <2> QED BY <1>2, <1>3, <1>5, <1>6, <2>1, <2>2
<1>8. CASE Joins(r)
  <2>1. CASE wire = <<>>
    <3>1. wire = <<>> /\ q = <<>> /\ wire' = <<r>> /\ q' = <<>>
      BY <1>8, <2>1 DEF Joins
    <3>2. <<>> \o <<>> = <<>> /\ Append(<<>>, r) = <<r>> /\ <<r>> \o <<>> = <<r>>
      OBVIOUS
    <3>3. wire' \o q' = X
      BY <1>5, <3>1, <3>2
    <3> QED BY <1>2, <1>3, <1>5, <1>6, <3>3
  <2>2. CASE wire # <<>>
    <3>1. wire' = wire /\ q' = Append(q, r)
      BY <1>8, <2>2 DEF Joins
    <3>2. wire \o Append(q, r) = Append(wire \o q, r)
      <4>1. PICK a \in Seq(P), w \in Seq(P), z \in Seq(P) : a = q /\ w = wire /\ z = <<r>>
        <5>1. <<r>> \in Seq(P)
          BY <1>2
        <5> QED BY <1>4, <5>1
      <4>2. (w \o a) \o z = w \o (a \o z)
        BY ConcatAssociative
      <4>3. w \o a \in Seq(P)
        BY ConcatProperties
      <4>4. Append(a, r) = a \o z /\ Append(w \o a, r) = (w \o a) \o z
        BY <1>2, <4>1, <4>3, AppendIsConcat
      <4> QED BY <4>1, <4>2, <4>4
    <3>3. wire' \o q' = X
      BY <1>5, <3>1, <3>2
    <3> QED BY <1>2, <1>3, <1>5, <1>6, <3>3
  <2> QED BY <2>1, <2>2
<1> QED BY <1>2, <1>7, <1>8

(* A departure takes the first.                                            *)
LEMMA LineServes ==
  ASSUME NEW P, QueueOf(P), Resume
  PROVE  /\ wire \o q \in Seq(P) /\ wire \o q # <<>>
         /\ Head(wire) = Head(wire \o q) /\ wire' \o q' = Tail(wire \o q)
<1>1. q \in Seq(P) /\ wire \in Seq(P) /\ wire # <<>> /\ Len(wire) <= 1
  BY DEF QueueOf, Waiting, Resume
<1>2. PICK a, x : a = q /\ x = Head(wire) /\ x \in P /\ a \in Seq(P)
  BY <1>1, HeadTailProperties
<1>3. wire = <<x>>
  <2>1. Len(wire) \in Nat \ {0}
    BY <1>1, EmptySeq
  <2>2. PICK l \in Nat : l = Len(wire) /\ l # 0 /\ l <= 1
    BY <1>1, <2>1
  <2>3. l = 1
    BY <2>2
  <2>4. <<x>> \in Seq(P) /\ Len(<<x>>) = 1 /\ <<x>>[1] = x
    BY <1>2
  <2>5. wire[1] = x
    BY <1>1, <1>2
  <2>6. \A i \in 1 .. Len(wire) : wire[i] = <<x>>[i]
    BY <2>2, <2>3, <2>4, <2>5
  <2> QED BY <1>1, <2>2, <2>3, <2>4, <2>6, SeqEqual
<1>4. PICK w, y : w = <<x>> /\ y = w \o a
  OBVIOUS
<1>5. /\ w \in Seq(P) /\ Len(w) = 1 /\ w[1] = x
  BY <1>2, <1>4
<1>6. PICK n : n = Len(a) /\ n \in Nat
  BY <1>2, LenProperties
<1>7. /\ y \in Seq(P) /\ Len(y) = n + 1
      /\ \A i \in 1 .. n + 1 : y[i] = IF i <= 1 THEN w[i] ELSE a[i - 1]
  <2>1. /\ y \in Seq(P) /\ Len(y) = Len(w) + Len(a)
        /\ \A i \in 1 .. Len(w) + Len(a) : y[i] = IF i <= Len(w) THEN w[i] ELSE a[i - Len(w)]
    BY <1>2, <1>4, <1>5, ConcatProperties
  <2>2. Len(w) + Len(a) = n + 1
    BY <1>5, <1>6
  <2> QED BY <1>5, <2>1, <2>2
<1>8. y # <<>> /\ y[1] = x /\ Head(y) = x
  <2>1. Len(y) # 0
    BY <1>6, <1>7
  <2>2. y # <<>>
    BY <2>1
  <2>3. 1 \in 1 .. n + 1 /\ y[1] = x
    BY <1>5, <1>6, <1>7
  <2>4. Head(y) = y[1]
    BY <1>7, <2>2
  <2> QED BY <2>2, <2>3, <2>4
<1>9. Tail(y) = a
  <2>1. PICK t \in Seq(P) : /\ t = Tail(y) /\ Len(t) = n
                            /\ \A i \in 1 .. n : t[i] = y[i + 1]
    <3>1. /\ Tail(y) \in Seq(P) /\ Len(Tail(y)) = Len(y) - 1
          /\ \A i \in 1 .. Len(Tail(y)) : Tail(y)[i] = y[i + 1]
      BY <1>7, <1>8, HeadTailProperties
    <3>2. Len(y) - 1 = n
      BY <1>6, <1>7
    <3> QED BY <3>1, <3>2
  <2>2. ASSUME NEW i \in 1 .. n PROVE t[i] = a[i]
    <3>1. i + 1 \in 1 .. n + 1 /\ ~ (i + 1 <= 1) /\ (i + 1) - 1 = i
      BY <1>6
    <3> QED BY <1>7, <2>1, <3>1
  <2> QED BY <1>2, <1>6, <2>1, <2>2, SeqEqual
<1>10. wire' \o q' = a
  <2>1. CASE a = <<>>
    <3>1. wire' = <<>> /\ q' = <<>>
      BY <1>2, <2>1 DEF Resume
    <3>2. <<>> \o <<>> = <<>>
      OBVIOUS
    <3> QED BY <2>1, <3>1, <3>2
  <2>2. CASE a # <<>>
    <3>1. wire' = <<Head(a)>> /\ q' = Tail(a)
      BY <1>2, <2>2 DEF Resume
    <3>2. <<Head(a)>> \o Tail(a) = a
      BY <1>2, <2>2
    <3> QED BY <3>1, <3>2
  <2> QED BY <2>1, <2>2
<1>11. wire \o q = y
  BY <1>2, <1>3, <1>4
<1> QED BY <1>2, <1>7, <1>8, <1>9, <1>10, <1>11

-------------------------------------------------------------------------------
(* One cut for a mark.                                                     *)

AllPackets == [seqno : Int, ect : BOOLEAN, ce : BOOLEAN, cong_action : BOOLEAN]
Segment(s) == {p \in AllPackets : p.seqno = s}
News(s) == {p \in Segment(s) : p.cong_action}

(* After a cut the first segment above recover_ has the news: none has     *)
(* been sent yet, its one copy has not come to the queue, or no copy is    *)
(* before the one with the news.                                           *)
NewsAwaits == maxseq_ = recover_ /\ cong_action_
NewsSent(s) == s \in BagToSet(cwr) /\ data[s] = 1 /\ NoneIn(wire \o q, Segment(s))
NewsQueued(s) == s \notin BagToSet(cwr) /\ FirstIn(wire \o q, News(s), Segment(s))
NewsOnItsWay(s) == NewsSent(s) \/ NewsQueued(s)

(* No ACK that carries the echo will have the window cut again, unless     *)
(* another cut is due; and while the sink goes on with its echo, it has    *)
(* nothing that makes such an ACK.                                         *)
CutInv ==
  conf.ecn_ /\ ~ due =>
    /\ last_cwnd_action_ # "timeout"
    /\ \A i \in DOMAIN acks : acks[i].ecnecho => acks[i].seqno <= recover_
    /\ ecn_unacked_ =>
         recover_ + 1 \notin received /\ (NewsAwaits \/ NewsOnItsWay(recover_ + 1))

(* The news of segment s is somewhere on its way.                          *)
LEMMA TellersAre ==
  ASSUME NEW P, P \subseteq AllPackets, wire \o q \in Seq(P), NEW s
  PROVE  s \in Tellers <=> s \in BagToSet(cwr) \/ SomeIn(wire \o q, News(s))
<1>1. PICK L : L = wire \o q /\ L \in Seq(P)
  OBVIOUS
<1>2. \A i \in DOMAIN L : L[i] \in AllPackets
  BY <1>1, LenProperties, ElementOfSeq
<1>3. \A i \in DOMAIN L : L[i] \in News(s) <=> L[i].cong_action /\ L[i].seqno = s
  BY <1>2 DEF News, Segment
<1>4. SomeIn(L, News(s)) <=> s \in {L[i].seqno : i \in {j \in DOMAIN L : L[j].cong_action}}
  <2>1. ASSUME SomeIn(L, News(s))
        PROVE  s \in {L[i].seqno : i \in {j \in DOMAIN L : L[j].cong_action}}
    BY <1>3, <2>1 DEF SomeIn
  <2>2. ASSUME s \in {L[i].seqno : i \in {j \in DOMAIN L : L[j].cong_action}}
        PROVE  SomeIn(L, News(s))
    <3>1. PICK i \in {j \in DOMAIN L : L[j].cong_action} : s = L[i].seqno
      BY <2>2
    <3> QED BY <1>3, <3>1 DEF SomeIn
  <2> QED BY <2>1, <2>2
<1> QED BY <1>1, <1>4 DEF Tellers

(* The same of the next state.                                             *)
LEMMA TellersNext ==
  ASSUME NEW P, P \subseteq AllPackets, NEW M \in Seq(P), M = wire' \o q', NEW s,
         s \in Tellers'
  PROVE  s \in BagToSet(cwr') \/ SomeIn(M, News(s))
<1>1. \A i \in DOMAIN M : M[i] \in AllPackets
  BY LenProperties, ElementOfSeq
<1>2. \A i \in DOMAIN M : M[i] \in News(s) <=> M[i].cong_action /\ M[i].seqno = s
  BY <1>1 DEF News, Segment
<1>3. \/ s \in BagToSet(cwr')
      \/ s \in {M[i].seqno : i \in {j \in DOMAIN M : M[j].cong_action}}
  BY DEF Tellers
<1>4. CASE s \in {M[i].seqno : i \in {j \in DOMAIN M : M[j].cong_action}}
  <2>1. PICK i \in {j \in DOMAIN M : M[j].cong_action} : s = M[i].seqno
    BY <1>4
  <2> QED BY <1>2, <2>1 DEF SomeIn
<1> QED BY <1>3, <1>4

(* What an arrival takes with it of the news.                              *)
TakesNews(p, s) ==
  /\ \A x \in BagToSet(cwr') : x \in BagToSet(cwr)
  /\ p.cong_action => p.seqno \in BagToSet(cwr)
  /\ s \in BagToSet(cwr) /\ p.seqno # s => s \in BagToSet(cwr') /\ data'[s] = data[s]
  /\ s \in BagToSet(cwr) /\ data[s] = 1 /\ p.seqno = s =>
       p.cong_action /\ s \notin BagToSet(cwr')

(* If no news is lost, it stays before every other copy.                   *)
LEMMA NewsArrives ==
  ASSUME NEW n \in Int, QueueOf(PacketsTo(n)), NEW p \in PacketsTo(n), ~ p.ce, Enque(p),
         NEW s, TakesNews(p, s), ~ NewsLost, NewsOnItsWay(s)
  PROVE  NewsOnItsWay(s)'
<1>1. PICK P : P = PacketsTo(n)
  OBVIOUS
<1>2. PICK r \in P, X \in Seq(P) :
        /\ r.seqno = p.seqno /\ r.cong_action = p.cong_action
        /\ X = Append(wire \o q, r)
        /\ wire' \o q' = X \/ LosesOne(X, wire' \o q')
  BY <1>1, LineTakes
<1>3. PICK L \in Seq(P) : L = wire \o q
  <2>1. wire \in Seq(P) /\ q \in Seq(P)
    BY <1>1 DEF QueueOf, Waiting
  <2> QED BY <2>1, ConcatProperties
<1>4. PICK M : M = wire' \o q'
  OBVIOUS
<1>5. M \in Seq(P)
  BY <1>2, <1>4, WithoutOne DEF LosesOne
<1>6. P \subseteq AllPackets
  BY <1>1 DEF PacketsTo, AllPackets
<1>7. PICK N, C : N = News(s) /\ C = Segment(s)
  OBVIOUS
<1>8. N \subseteq C
  BY <1>7 DEF News
<1>9. /\ r \in C <=> p.seqno = s
      /\ r \in N <=> p.seqno = s /\ p.cong_action
  BY <1>2, <1>6, <1>7 DEF News, Segment
<1>10. s \in Tellers => s \in BagToSet(cwr') \/ SomeIn(M, N)
  BY <1>4, <1>5, <1>6, <1>7, TellersNext DEF NewsLost
<1>11. s \in Tellers <=> s \in BagToSet(cwr) \/ SomeIn(L, N)
  BY <1>3, <1>6, <1>7, TellersAre
<1>12. /\ NoneIn(X, C) => NoneIn(M, C)
       /\ FirstIn(X, N, C) /\ SomeIn(M, N) => FirstIn(M, N, C)
  BY <1>2, <1>4, WithoutOneOther DEF LosesOne
<1>13. /\ NoneIn(L, C) /\ r \notin C => NoneIn(X, C)
       /\ NoneIn(L, C) /\ r \in N => FirstIn(X, N, C)
       /\ FirstIn(L, N, C) /\ r \notin N => FirstIn(X, N, C)
  BY <1>2, <1>3, <1>8, AfterTheOthers
<1>14. CASE NewsSent(s)
  <2>1. s \in BagToSet(cwr) /\ data[s] = 1 /\ NoneIn(L, C)
    BY <1>3, <1>7, <1>14 DEF NewsSent
  <2>2. CASE p.seqno # s
    <3>1. s \in BagToSet(cwr') /\ data'[s] = 1 /\ NoneIn(M, C)
      BY <1>9, <1>12, <1>13, <2>1, <2>2 DEF TakesNews
    <3> QED BY <1>4, <1>7, <3>1 DEF NewsOnItsWay, NewsSent
  <2>3. CASE p.seqno = s
    <3>1. p.cong_action /\ s \notin BagToSet(cwr')
      BY <2>1, <2>3 DEF TakesNews
    <3>2. FirstIn(M, N, C)
      BY <1>9, <1>10, <1>11, <1>12, <1>13, <2>1, <2>3, <3>1
    <3> QED BY <1>4, <1>7, <3>1, <3>2 DEF NewsOnItsWay, NewsQueued
  <2> QED BY <2>2, <2>3
<1>15. CASE NewsQueued(s)
  <2>1. s \notin BagToSet(cwr) /\ FirstIn(L, N, C)
    BY <1>3, <1>7, <1>15 DEF NewsQueued
  <2>2. s \notin BagToSet(cwr') /\ r \notin N
    BY <1>9, <2>1 DEF TakesNews
  <2>3. SomeIn(L, N)
    BY <2>1 DEF FirstIn, SomeIn
  <2>4. FirstIn(M, N, C)
    BY <1>10, <1>11, <1>12, <1>13, <2>1, <2>2, <2>3
  <2> QED BY <1>4, <1>7, <2>2, <2>4 DEF NewsOnItsWay, NewsQueued
<1> QED BY <1>14, <1>15 DEF NewsOnItsWay

(* What an arrival, or a step that leaves sink and window alone, keeps.    *)
LEMMA CutKept ==
  ASSUME CutInv,
         UNCHANGED <<conf, recover_, maxseq_, cong_action_, last_cwnd_action_, ecn_unacked_,
                     received, acks>>,
         due => due',
         NEW s, s = recover_ + 1, ~ due' /\ NewsOnItsWay(s) => NewsOnItsWay(s)'
  PROVE  CutInv'
<1> SUFFICES ASSUME conf.ecn_, ~ due'
             PROVE  /\ last_cwnd_action_' # "timeout"
                    /\ \A i \in DOMAIN acks' : acks'[i].ecnecho => acks'[i].seqno <= recover_'
                    /\ ecn_unacked_' =>
                         /\ recover_' + 1 \notin received'
                         /\ NewsAwaits' \/ NewsOnItsWay(recover_ + 1)'
  BY DEF CutInv
<1>1. /\ last_cwnd_action_ # "timeout"
      /\ \A i \in DOMAIN acks : acks[i].ecnecho => acks[i].seqno <= recover_
      /\ ecn_unacked_ => s \notin received /\ (NewsAwaits \/ NewsOnItsWay(s))
  BY DEF CutInv
<1>2. recover_' + 1 = s /\ (recover_ + 1)' = s
  OBVIOUS
<1>3. NewsAwaits => NewsAwaits'
  BY DEF NewsAwaits
<1>4. NewsOnItsWay(recover_ + 1)' <=> NewsOnItsWay(s)'
  BY <1>2 DEF NewsOnItsWay, NewsSent, NewsQueued
<1> QED BY <1>1, <1>2, <1>3, <1>4

(* A segment comes to the queue.                                           *)
LEMMA ArriveCut ==
  ASSUME BInv, CutInv, NEW x \in BagToSet(data), Arrive(x)
  PROVE  CutInv'
<1>1. /\ FlowInv /\ QueueOf(PacketsTo(maxseq_)) /\ CwrInv /\ IsABag(data)
      /\ maxseq_ \in Int
  BY FlowTypes DEF BInv, FlowInv
<1>2. PICK cong \in BOOLEAN :
        /\ cong => BagIn(x, cwr)
        /\ ~ cong => Copies(x, data) > Copies(x, cwr)
        /\ cwr' = IF cong THEN cwr (-) SetToBag({x}) ELSE cwr
        /\ Enque([seqno |-> x, ect |-> Ect(x), ce |-> FALSE, cong_action |-> cong])
  BY DEF Arrive
<1>3. /\ data' = data (-) SetToBag({x}) /\ due' = (due \/ NewsLost)
      /\ UNCHANGED <<conf, recover_, maxseq_, cong_action_, last_cwnd_action_, ecn_unacked_,
                     received, acks>>
  BY DEF Arrive, windowVars, feedbackVars, sinkVars
<1>4. PICK p : p = [seqno |-> x, ect |-> Ect(x), ce |-> FALSE, cong_action |-> cong]
  OBVIOUS
<1>5. p \in PacketsTo(maxseq_) /\ ~ p.ce /\ p.seqno = x /\ p.cong_action = cong
  <2>1. x \in 0 .. maxseq_
    BY <1>1 DEF FlowInv, SenderInv, SenderTypeOK
  <2>2. x \in -1 .. maxseq_
    BY <1>1, <2>1
  <2>3. Ect(x) \in BOOLEAN
    BY <1>1, FlowTypes DEF Ect
  <2> QED BY <1>4, <2>2, <2>3 DEF PacketsTo
<1>6. /\ \A r \in BagToSet(data) : r # x => r \in BagToSet(data') /\ data'[r] = data[r]
  BY <1>1, <1>3, BagTakes
<1>7. /\ IsABag(cwr)
      /\ \A r \in BagToSet(cwr) : r \in BagToSet(data) /\ cwr[r] <= data[r]
      /\ \A r \in BagToSet(cwr) : cwr[r] \in Nat /\ cwr[r] > 0
      /\ \A r \in BagToSet(data) : data[r] \in Nat
  BY <1>1 DEF CwrInv, IsABag, BagToSet
<1>8. ASSUME cong
      PROVE  /\ x \in BagToSet(cwr)
             /\ \A r \in BagToSet(cwr) : r # x => r \in BagToSet(cwr')
             /\ \A r \in BagToSet(cwr') : r \in BagToSet(cwr)
             /\ cwr[x] = 1 => x \notin BagToSet(cwr')
  <2>1. PICK D : D = cwr' /\ D = cwr (-) SetToBag({x})
    BY <1>2, <1>8
  <2>2. x \in BagToSet(cwr)
    BY <1>2, <1>8 DEF BagIn
  <2>3. /\ IsABag(D)
        /\ \A r \in BagToSet(cwr) : r # x => r \in BagToSet(D)
        /\ x \in BagToSet(D) => D[x] = cwr[x] - 1
        /\ \A r \in BagToSet(D) : r \in BagToSet(cwr)
    BY <1>7, <2>1, <2>2, BagTakes
  <2>4. ASSUME cwr[x] = 1, x \in BagToSet(D) PROVE FALSE
    <3>1. D[x] > 0 /\ D[x] = 1 - 1
      BY <2>3, <2>4 DEF IsABag, BagToSet
    <3> QED BY <3>1
  <2> QED BY <2>1, <2>2, <2>3, <2>4
<1>9. PICK s : s = recover_ + 1
  OBVIOUS
<1>10. TakesNews(p, s)
  <2>1. \A r \in BagToSet(cwr') : r \in BagToSet(cwr)
    BY <1>2, <1>8
  <2>2. p.cong_action => p.seqno \in BagToSet(cwr)
    BY <1>5, <1>8
  <2>3. s \in BagToSet(cwr) /\ p.seqno # s => s \in BagToSet(cwr') /\ data'[s] = data[s]
    BY <1>2, <1>5, <1>6, <1>7, <1>8
  <2>4. ASSUME s \in BagToSet(cwr), data[s] = 1, s = x
        PROVE  cong /\ s \notin BagToSet(cwr')
    <3>1. cwr[x] = 1
      BY <1>7, <2>4
    <3>2. Copies(x, data) = 1 /\ Copies(x, cwr) = 1
      BY <1>7, <2>4, <3>1 DEF Copies, BagIn
    <3>3. cong
      BY <1>2, <3>2
    <3> QED BY <1>8, <2>4, <3>1, <3>3
  <2> QED BY <1>5, <2>1, <2>2, <2>3, <2>4 DEF TakesNews
<1>11. ASSUME ~ due', NewsOnItsWay(s) PROVE NewsOnItsWay(s)'
  BY <1>1, <1>2, <1>3, <1>4, <1>5, <1>10, <1>11, NewsArrives
<1> QED BY <1>3, <1>9, <1>11, CutKept

(* A packet of another flow comes to the queue.                            *)
LEMMA ArriveOtherCut ==
  ASSUME BInv, CutInv, ArriveOther
  PROVE  CutInv'
<1>1. /\ FlowInv /\ QueueOf(PacketsTo(maxseq_)) /\ CwrInv
      /\ maxseq_ \in Int /\ maxseq_ >= -1 /\ recover_ \in Nat
  BY FlowTypes DEF BInv, FlowInv, SenderInv, SenderTypeOK
<1>2. /\ Enque(Other) /\ due' = (due \/ NewsLost) /\ data' = data /\ cwr' = cwr
      /\ UNCHANGED <<conf, recover_, maxseq_, cong_action_, last_cwnd_action_, ecn_unacked_,
                     received, acks>>
  BY DEF ArriveOther, senderVars, windowVars, feedbackVars, sinkVars
<1>3. PICK p : p = Other
  OBVIOUS
<1>4. p \in PacketsTo(maxseq_) /\ ~ p.ce /\ p.seqno = -1 /\ ~ p.cong_action
  <2>1. PICK e \in BOOLEAN : e = conf.ecn_
    BY <1>1, FlowTypes
  <2>2. -1 \in -1 .. maxseq_
    BY <1>1
  <2> QED BY <1>3, <2>1, <2>2 DEF PacketsTo, Other
<1>5. PICK s : s = recover_ + 1
  OBVIOUS
<1>6. p.seqno # s
  BY <1>1, <1>4, <1>5
<1>7. TakesNews(p, s)
  BY <1>2, <1>4, <1>6 DEF TakesNews
<1>8. ASSUME ~ due', NewsOnItsWay(s) PROVE NewsOnItsWay(s)'
  BY <1>1, <1>2, <1>3, <1>4, <1>7, <1>8, NewsArrives
<1> QED BY <1>2, <1>5, <1>8, CutKept

(* A packet leaves the queue for the host: while the echo goes on it is    *)
(* none that makes an ACK above recover_.                                  *)
LEMMA DepartCut ==
  ASSUME BInv, CutInv, Depart
  PROVE  CutInv'
<1>1. /\ FlowInv /\ QueueOf(PacketsTo(maxseq_))
      /\ maxseq_ \in Int /\ maxseq_ >= -1 /\ recover_ \in Nat
  BY FlowTypes DEF BInv, FlowInv, SenderInv, SenderTypeOK
<1>2. /\ Resume /\ data' = data /\ cwr' = cwr
      /\ UNCHANGED <<conf, recover_, maxseq_, cong_action_, last_cwnd_action_>>
  BY DEF Depart, senderVars, windowVars, feedbackVars
<1>3. PICK P, L, s : P = PacketsTo(maxseq_) /\ L = wire \o q /\ s = recover_ + 1
  OBVIOUS
<1>4. /\ L \in Seq(P) /\ L # <<>> /\ Head(wire) = Head(L) /\ wire' \o q' = Tail(L)
  BY <1>1, <1>2, <1>3, LineServes
<1>5. PICK p \in P : p = Head(L)
  BY <1>4, HeadTailProperties
<1>6. P \subseteq AllPackets
  BY <1>1, <1>3 DEF PacketsTo, AllPackets
<1>7. PICK N, C : N = News(s) /\ C = Segment(s) /\ N \subseteq C
  BY DEF News
<1>8. (p \in C <=> p.seqno = s) /\ (p \in N <=> p.seqno = s /\ p.cong_action)
  BY <1>6, <1>7 DEF News, Segment
<1>9. /\ NoneIn(L, C) => p \notin C /\ NoneIn(Tail(L), C)
      /\ FirstIn(L, N, C) /\ p \notin C => FirstIn(Tail(L), N, C)
      /\ FirstIn(L, N, C) /\ p \in C => p \in N
  BY <1>4, <1>5, <1>7, FirstLeaves
<1>10. NewsOnItsWay(s) /\ p \notin C => NewsOnItsWay(s)'
  <2>1. NewsSent(s) => NewsSent(s)'
    BY <1>2, <1>3, <1>4, <1>7, <1>9 DEF NewsSent
  <2>2. NewsQueued(s) /\ p \notin C => NewsQueued(s)'
    BY <1>2, <1>3, <1>4, <1>7, <1>9 DEF NewsQueued
  <2> QED BY <2>1, <2>2 DEF NewsOnItsWay
<1>11. NewsOnItsWay(s) /\ p \in C => p.cong_action
  BY <1>3, <1>7, <1>8, <1>9 DEF NewsOnItsWay, NewsSent, NewsQueued
<1>12. CASE p.seqno = -1
  <2>1. UNCHANGED <<received, ecn_unacked_, acks>> /\ due' = due
    BY <1>4, <1>5, <1>12 DEF Depart, sinkVars
  <2>2. p \notin C
    BY <1>1, <1>3, <1>8, <1>12
  <2> QED BY <1>2, <1>3, <1>10, <2>1, <2>2, CutKept
<1>13. CASE p.seqno # -1
  <2>1. Echo(p) /\ due' = (due \/ p.ce \/ (AsksForEcn(p) /\ 0 \in received))
    BY <1>4, <1>5, <1>13 DEF Depart
  <2>2. p.seqno \in 0 .. maxseq_
    <3>1. p.seqno \in -1 .. maxseq_
      BY <1>3 DEF PacketsTo
    <3> QED BY <1>1, <1>13, <3>1
  <2> SUFFICES ASSUME conf.ecn_, ~ due'
               PROVE  /\ last_cwnd_action_' # "timeout"
                      /\ \A i \in DOMAIN acks' :
                           acks'[i].ecnecho => acks'[i].seqno <= recover_'
                      /\ ecn_unacked_' =>
                           /\ recover_' + 1 \notin received'
                           /\ NewsAwaits' \/ NewsOnItsWay(recover_ + 1)'
    BY <1>2 DEF CutInv
  <2>3. ~ due /\ ~ p.ce /\ ~ (AsksForEcn(p) /\ 0 \in received)
    BY <2>1
  <2>4. /\ last_cwnd_action_ # "timeout"
        /\ \A i \in DOMAIN acks : acks[i].ecnecho => acks[i].seqno <= recover_
        /\ ecn_unacked_ => s \notin received /\ (NewsAwaits \/ NewsOnItsWay(s))
    BY <1>2, <1>3, <2>3 DEF CutInv
  <2>5. ASSUME ecn_unacked_'
        PROVE  s \notin received' /\ (NewsAwaits' \/ NewsOnItsWay(s)')
    <3>1. ecn_unacked_ /\ ~ p.cong_action
      BY <2>1, <2>3, <2>5 DEF Echo, update_ecn_unacked
    <3>2. s \notin received /\ (NewsAwaits \/ NewsOnItsWay(s))
      BY <2>4, <3>1
    <3>3. p.seqno # s
      <4>1. CASE NewsAwaits
        BY <1>1, <1>3, <2>2, <4>1 DEF NewsAwaits
      <4>2. CASE NewsOnItsWay(s)
        BY <1>8, <1>11, <3>1, <4>2
      <4> QED BY <3>2, <4>1, <4>2
    <3>4. s \notin received'
      BY <2>1, <3>2, <3>3 DEF Echo
    <3>5. NewsAwaits => NewsAwaits'
      BY <1>2 DEF NewsAwaits
    <3> QED BY <1>8, <1>10, <3>2, <3>3, <3>4, <3>5
  <2>6. PICK seqno \in -1 .. maxseq_ :
          /\ 0 .. seqno \subseteq received' /\ seqno + 1 \notin received'
          /\ acks' = Append(acks, [seqno |-> seqno,
                                   ecnecho |-> IF p.ect THEN ecn_unacked_' ELSE AsksForEcn(p),
                                   sacked |-> {r \in received' : r > seqno}])
    BY <2>1 DEF Echo
  <2>7. PICK new : new = [seqno |-> seqno,
                          ecnecho |-> IF p.ect THEN ecn_unacked_' ELSE AsksForEcn(p),
                          sacked |-> {r \in received' : r > seqno}]
    OBVIOUS
  <2>8. /\ new.seqno = seqno
        /\ new.ecnecho = IF p.ect THEN ecn_unacked_' ELSE AsksForEcn(p)
    BY <2>7
  <2>9. ASSUME new.ecnecho PROVE new.seqno <= recover_
    <3>1. CASE ecn_unacked_'
      <4>1. s \notin received'
        BY <2>5, <3>1
      <4>2. s \notin 0 .. seqno
        BY <2>6, <4>1
      <4> QED BY <1>1, <1>3, <2>6, <2>8, <4>2
    <3>2. CASE ~ ecn_unacked_'
      <4>1. AsksForEcn(p)
        BY <2>8, <2>9, <3>2
      <4>2. 0 \notin received
        BY <2>3, <4>1
      <4>3. maxseq_ <= 0
        <5>1. 0 .. highest_ack_ \subseteq received /\ highest_ack_ \in -1 .. maxseq_
          BY <1>1 DEF FlowInv, KnowsOnly, SenderInv, SenderTypeOK
        <5>2. highest_ack_ = -1
          BY <1>1, <4>2, <5>1
        <5> QED BY <1>1, <5>2 DEF FlowInv, SenderInv, SynIsAlone
      <4> QED BY <1>1, <2>6, <2>8, <4>3
    <3> QED BY <3>1, <3>2
  <2>10. \A i \in DOMAIN acks' : acks'[i].ecnecho => acks'[i].seqno <= recover_
    <3>1. acks \in Seq(AckRecords) /\ acks' \in Seq(AckRecords)
      BY <1>1, DepartPreserves DEF BInv, FlowInv, AcksAreTrue
    <3>2. PICK A, n : A = acks' /\ n = Len(acks) /\ n \in Nat /\ A = Append(acks, new)
      BY <2>6, <2>7, <3>1, LenProperties
    <3>3. /\ Len(A) = n + 1 /\ DOMAIN A = 1 .. n + 1 /\ DOMAIN acks = 1 .. n
          /\ \A i \in 1 .. n : A[i] = acks[i]
          /\ A[n + 1] = new
      BY <3>1, <3>2, LenProperties
    <3>4. ASSUME NEW i \in 1 .. n + 1, A[i].ecnecho PROVE A[i].seqno <= recover_
      <4>1. CASE i = n + 1
        BY <2>9, <3>3, <3>4, <4>1
      <4>2. CASE i # n + 1
        <5>1. i \in 1 .. n
          BY <3>2, <4>2
        <5> QED BY <2>4, <3>3, <3>4, <5>1
      <4> QED BY <4>1, <4>2
    <3> QED BY <3>2, <3>3, <3>4
  <2>11. NewsOnItsWay(recover_ + 1)' <=> NewsOnItsWay(s)'
    BY <1>2, <1>3 DEF NewsOnItsWay, NewsSent, NewsQueued
  <2> QED BY <1>2, <1>3, <2>4, <2>5, <2>10, <2>11
<1> QED BY <1>12, <1>13

(* A bag that has nothing of a segment has one copy once it is sent.       *)
LEMMA FirstCopy ==
  ASSUME NEW B, IsABag(B), NEW S, NEW C, C = B (+) SetToBag(S),
         NEW s \in S, s \notin BagToSet(B)
  PROVE  C[s] = 1
<1> DEFINE E == SetToBag(S)
<1>1. C = [e \in DOMAIN B \union DOMAIN E |->
             (IF e \in DOMAIN B THEN B[e] ELSE 0) + (IF e \in DOMAIN E THEN E[e] ELSE 0)]
  BY DEF (+)
<1>2. s \in DOMAIN E /\ E[s] = 1 /\ s \notin DOMAIN B
  BY DEF SetToBag, BagToSet
<1> HIDE DEF E
<1> QED BY <1>1, <1>2

(* What is in the line has been sent.                                      *)
LEMMA LineIsSent ==
  ASSUME QueueOf(PacketsTo(maxseq_)), NEW s
  PROVE  /\ s \notin -1 .. maxseq_ => NoneIn(wire \o q, Segment(s))
         /\ SomeIn(wire \o q, News(s)) => s \in -1 .. maxseq_
<1>1. PICK P, L : P = PacketsTo(maxseq_) /\ L = wire \o q
  OBVIOUS
<1>2. wire \in Seq(P) /\ q \in Seq(P)
  BY <1>1 DEF QueueOf, Waiting
<1>3. L \in Seq(P)
  BY <1>1, <1>2, ConcatProperties
<1>4. \A i \in DOMAIN L : L[i] \in P
  BY <1>3, LenProperties, ElementOfSeq
<1>5. \A p \in P : p.seqno \in -1 .. maxseq_
  BY <1>1 DEF PacketsTo
<1>6. \A i \in DOMAIN L : L[i] \in Segment(s) => s \in -1 .. maxseq_
  BY <1>4, <1>5 DEF Segment
<1> QED BY <1>1, <1>6 DEF NoneIn, SomeIn, News

(* What a step of the sender does to the news: it goes out with the first  *)
(* segment that is sent, a new one unless NewsResent.                      *)
NewsFollows(slowed) ==
  /\ BagToSet(SentNow) = {} => cong_action_' = (cong_action_ \/ slowed) /\ maxseq_' = maxseq_
  /\ BagToSet(SentNow) # {} /\ (cong_action_ \/ slowed) /\ ~ NewsResent(slowed) =>
       maxseq_ + 1 \in BagToSet(cwr') /\ data'[maxseq_ + 1] = 1
  /\ \A s \in BagToSet(cwr) :
       s \in BagToSet(cwr') /\ (s \notin BagToSet(SentNow) => data'[s] = data[s])
  /\ ~ NewsResent(slowed) => \A s \in BagToSet(cwr') : s \in BagToSet(cwr) \/ s = maxseq_ + 1

LEMMA SendingNews ==
  ASSUME FlowInv, CwrInv, NEW resent, NEW k, SendsFrom(resent, k), k <= maxseq_ + 1,
         retran' \ retran \subseteq resent,
         NEW e, NEW d, NEW slowed, Sending(e, d, slowed)
  PROVE  /\ NewsFollows(slowed)
         /\ resent # {} /\ (cong_action_ \/ slowed) => NewsResent(slowed)
<1>1. PICK S, F, n, D, timer :
        /\ S = BagToSet(SentNow) /\ F = FirstSent /\ n = t_seqno_' /\ D = data'
        /\ Output(resent, k .. n - 1, timer)
  BY DEF SendsFrom, Sends
<1>2. /\ S = resent \union (k .. n - 1) /\ S \subseteq Nat
      /\ SentNow = EmptyBag <=> S = {}
      /\ maxseq_' > maxseq_ => S # {}
  BY <1>1, SentNumbers DEF SendsFrom
<1>3. /\ k \in Int /\ n \in Int /\ k <= n /\ resent \subseteq 0 .. maxseq_
      /\ maxseq_ \in Int /\ IsABag(data) /\ BagToSet(data) \subseteq 0 .. maxseq_
      /\ maxseq_' \in Int /\ maxseq_' >= maxseq_
  <2>1. BagToSet(data) \subseteq 0 .. maxseq_
    BY DEF FlowInv, SenderInv, SenderTypeOK
  <2> QED BY <1>1, <2>1, SendsTop DEF SendsFrom, Sends
<1>4. /\ S # {} => F \in Nat
      /\ resent # {} => F <= maxseq_
      /\ resent = {} /\ S # {} => F = k
  <2>1. PICK R : R = S \intersect (retran' \ retran) /\ R \subseteq resent
    OBVIOUS
  <2>2. PICK X : X = IF R # {} THEN R ELSE S
    OBVIOUS
  <2>3. F = Min(X)
    BY <1>1, <2>1, <2>2 DEF FirstSent
  <2>4. X \subseteq Nat /\ (S # {} => X # {})
    BY <1>2, <2>1, <2>2
  <2>5. S # {} => F \in X /\ \A y \in X : F <= y
    BY <2>3, <2>4, MinIsLeast
  <2>6. S # {} => F \in Nat
    BY <2>4, <2>5
  <2>7. ASSUME resent # {} PROVE F <= maxseq_
    <3>1. S # {}
      BY <1>2, <2>7
    <3>2. CASE R # {}
      <4>1. F \in resent
        BY <2>1, <2>2, <2>5, <3>1, <3>2
      <4>2. F \in 0 .. maxseq_
        BY <1>3, <4>1
      <4> QED BY <1>3, <4>2
    <3>3. CASE R = {}
      <4>1. PICK y \in resent : y \in X
        BY <1>2, <2>2, <2>7, <3>3
      <4>2. F <= y /\ y <= maxseq_ /\ y \in Int
        BY <1>3, <2>5, <3>1, <4>1
      <4> QED BY <1>3, <2>6, <3>1, <4>2
    <3> QED BY <3>2, <3>3
  <2>8. ASSUME resent = {}, S # {} PROVE F = k
    <3>1. X = k .. n - 1
      BY <1>2, <2>1, <2>2, <2>8
    <3>2. F \in k .. n - 1 /\ k \in k .. n - 1
      BY <1>3, <2>5, <2>8, <3>1
    <3>3. F <= k
      BY <2>5, <2>8, <3>1, <3>2
    <3> QED BY <1>3, <3>2, <3>3
  <2> QED BY <2>6, <2>7, <2>8
<1>5. S # {} /\ (cong_action_ \/ slowed) /\ ~ NewsResent(slowed) =>
        F = maxseq_ + 1 /\ k = F /\ resent = {}
  <2> SUFFICES ASSUME S # {}, cong_action_ \/ slowed, ~ NewsResent(slowed)
               PROVE  F = maxseq_ + 1 /\ k = F /\ resent = {}
    OBVIOUS
  <2>1. ~ (F <= maxseq_)
    BY <1>1, <1>2 DEF NewsResent
  <2>2. resent = {} /\ F = k
    BY <1>4, <2>1
  <2> QED BY <1>3, <2>1, <2>2
<1>6. resent # {} /\ (cong_action_ \/ slowed) => NewsResent(slowed)
  BY <1>1, <1>2, <1>4 DEF NewsResent
<1>7. \A s \in BagToSet(data) : s \in BagToSet(D) /\ (s \notin S => D[s] = data[s])
  <2>1. PICK fresh : Output(resent, fresh, timer) /\ S = resent \union fresh
    BY <1>1, <1>2
  <2>2. IsABag(data)
    BY <1>3
  <2>3. /\ \A s \in BagToSet(data') :
              s \notin resent \union fresh => s \in BagToSet(data) /\ data'[s] = data[s]
        /\ \A s \in BagToSet(data) : s \in BagToSet(data') /\ data'[s] >= data[s]
    BY <2>1, <2>2, OutputBag
  <2> QED BY Zenon, <1>1, <2>1, <2>3
<1>8. CASE S = {}
  <2>1. cong_action_' = (cong_action_ \/ slowed) /\ cwr' = cwr
    BY <1>2, <1>8 DEF Sending
  <2>2. maxseq_' = maxseq_
    <3>1. PICK top \in Int : top = maxseq_' /\ top >= maxseq_ /\ ~ (top > maxseq_)
      BY <1>2, <1>3, <1>8
    <3>2. top = maxseq_
      BY <1>3, <3>1
    <3> QED BY <3>1, <3>2
  <2>3. \A s \in BagToSet(cwr) : data'[s] = data[s]
    BY <1>1, <1>7, <1>8 DEF CwrInv
  <2> QED BY <1>1, <1>6, <1>8, <2>1, <2>2, <2>3 DEF NewsFollows
<1>9. CASE S # {}
  <2>1. cwr' = IF cong_action_ \/ slowed THEN cwr (+) SetToBag({F}) ELSE cwr
    BY <1>1, <1>2, <1>9 DEF Sending
  <2>2. ASSUME cong_action_ \/ slowed
        PROVE  /\ \A s \in BagToSet(cwr) : s \in BagToSet(cwr')
               /\ F \in BagToSet(cwr')
               /\ \A s \in BagToSet(cwr') : s # F => s \in BagToSet(cwr)
    <3>1. PICK C : C = cwr' /\ C = cwr (+) SetToBag({F})
      BY <2>1, <2>2
    <3> QED BY <3>1, BagPlus DEF CwrInv
  <2>3. ASSUME NEW s \in BagToSet(cwr)
        PROVE  s \in BagToSet(cwr') /\ (s \notin S => D[s] = data[s])
    <3>1. s \in BagToSet(data)
      BY DEF CwrInv
    <3>2. s \in BagToSet(D) /\ (s \notin S => D[s] = data[s])
      BY <1>7, <3>1
    <3> QED BY <2>1, <2>2, <3>2
  <2>4. ASSUME cong_action_ \/ slowed, ~ NewsResent(slowed)
        PROVE  maxseq_ + 1 \in BagToSet(cwr') /\ D[maxseq_ + 1] = 1
    <3>1. F = maxseq_ + 1 /\ k = F /\ resent = {}
      BY <1>5, <1>9, <2>4
    <3>2. F \in BagToSet(cwr')
      BY <2>2, <2>4
    <3>3. PICK B, X : B = data (+) SetToBag({}) /\ X = k .. n - 1 /\ D = B (+) SetToBag(X)
      BY <1>1, <3>1 DEF Output
    <3>4. IsABag(B) /\ \A s \in BagToSet(B) : s \in BagToSet(data)
      BY <1>3, <3>3, BagPlus
    <3>5. F \notin BagToSet(data)
      BY <1>3, <3>1
    <3>6. F \in X
      BY <1>2, <1>3, <1>9, <3>1, <3>3
    <3>7. D[F] = 1
      BY <3>3, <3>4, <3>5, <3>6, FirstCopy
    <3> QED BY <3>1, <3>2, <3>7
  <2>5. ASSUME ~ NewsResent(slowed), NEW s \in BagToSet(cwr'), s \notin BagToSet(cwr)
        PROVE  s = maxseq_ + 1
    BY <1>5, <1>9, <2>1, <2>2, <2>5
  <2> QED BY <1>1, <1>6, <1>9, <2>3, <2>4, <2>5 DEF NewsFollows
<1> QED BY <1>8, <1>9

(* What an ACK does to the window, unless it ends a recovery.              *)
LEMMA CutWindow ==
  ASSUME NEW R, NEW ack, NEW w, Receiving(ack, w, R), Handles(ack, w), ~ TookEnd
  PROVE  /\ AnswersMark(ack) =>
              recover_' = maxseq_ /\ last_cwnd_action_' \in {"ecn", "dupack"}
         /\ ~ AnswersMark(ack) =>
              /\ last_cwnd_action_' \in {last_cwnd_action_, "dupack"}
              /\ recover_' = recover_ \/ (TookDupAction /\ DupActionSlows(ack))
<1>1. w \in AfterEcn(ack)
  BY DEF Receiving
<1>2. /\ AnswersMark(ack) => w.recover = maxseq_ /\ w.action = "ecn"
      /\ ~ AnswersMark(ack) => w.recover = recover_ /\ w.action = last_cwnd_action_
  BY <1>1 DEF AnswersMark, AfterEcn, Slowed, Window
<1>3. ASSUME NEW c
      PROVE  [w EXCEPT !.cwnd = c].recover = w.recover /\ [w EXCEPT !.cwnd = c].action = w.action
  BY <1>1 DEF AfterEcn, Slowed, Window
<1>4. CASE recover_' = w.recover /\ last_cwnd_action_' \in {w.action, "dupack"}
  BY <1>2, <1>4
<1>5. CASE RecvNewAck(ack, w)
  BY <1>3, <1>4, <1>5 DEF RecvNewAck, SetWindow
<1>6. CASE \/ RecvNoNews(ack, w) \/ LimitedTransmit(ack, w) \/ CountDuplicate(ack, w)
           \/ PartialAck(ack, w) \/ RecoveryDupAck(ack, w)
  BY <1>4, <1>6
  DEF RecvNoNews, LimitedTransmit, CountDuplicate, PartialAck, RecoveryDupAck, SetWindow
<1>7. CASE FastRetransmit(ack, w)
  <2>1. recover_' = maxseq_ /\ last_cwnd_action_' = "dupack"
    BY <1>7 DEF FastRetransmit, SetWindow, Halved, Slowed
  <2>2. TookDupAction
    BY <1>7 DEF FastRetransmit, DuplicateAck, StartRecovery, TookDupAction
  <2>3. DupActionSlows(ack)
    BY <1>1, <1>7 DEF FastRetransmit, DupActionSlows
  <2> QED BY <2>1, <2>2, <2>3
<1>8. CASE EcnRetransmit(ack, w)
  <2>1. [w EXCEPT !.action = "dupack"].recover = w.recover
        /\ [w EXCEPT !.action = "dupack"].action = "dupack"
    BY <1>1 DEF AfterEcn, Slowed, Window
  <2>2. recover_' = w.recover /\ last_cwnd_action_' = "dupack"
    BY <1>8, <2>1 DEF EcnRetransmit, SetWindow, Halved, Slowed
  <2> QED BY <1>4, <2>2
<1>9. CASE EndRecovery(ack, w)
  BY <1>9 DEF EndRecovery, TookEnd
<1> QED BY <1>5, <1>6, <1>7, <1>8, <1>9 DEF Handles

(* CutInv' by its parts.                                                   *)
LEMMA CutHolds ==
  ASSUME NEW s, s = recover_' + 1,
         conf'.ecn_ /\ ~ due' =>
           /\ last_cwnd_action_' # "timeout"
           /\ \A i \in DOMAIN acks' : acks'[i].ecnecho => acks'[i].seqno <= recover_'
           /\ ecn_unacked_' => s \notin received' /\ (NewsAwaits' \/ NewsOnItsWay(s)')
  PROVE  CutInv'
BY DEF CutInv, NewsOnItsWay, NewsSent, NewsQueued

(* An ACK comes back.                                                      *)
LEMMA RecvAckCut ==
  ASSUME BInv, CutInv, RecvAck
  PROVE  CutInv'
<1>1. /\ FlowInv /\ QueueOf(PacketsTo(maxseq_)) /\ CwrInv /\ IsABag(data)
      /\ maxseq_ \in Int /\ maxseq_ >= -1 /\ t_seqno_ \in Nat /\ recover_ \in Nat
  BY FlowTypes DEF BInv, FlowInv, SenderInv, SenderTypeOK
<1>2. PICK R : R = received
  OBVIOUS
<1>3. PICK ack, w : ack = Head(acks) /\ Receiving(ack, w, R) /\ Handles(ack, w)
  BY <1>1, <1>2, AckReception
<1>4. PICK slowed : slowed = (AnswersMark(ack) \/ (TookDupAction /\ DupActionSlows(ack)))
  OBVIOUS
<1>5. /\ acks # <<>> /\ acks' = Tail(acks)
      /\ due' = ((due /\ ~ AnswersMark(ack)) \/ NewsResent(slowed) \/ NewsRepeated \/ TookEnd)
      /\ \E e, d : Sending(e, d, slowed)
      /\ UNCHANGED <<queueVars, received, ecn_unacked_>>
  BY <1>3, <1>4 DEF RecvAck
<1>6. wire' \o q' = wire \o q
  BY <1>5 DEF queueVars
<1>7. PICK e, d : Sending(e, d, slowed)
  BY <1>5
<1>8. PICK resent, k : AnswersWith(resent, k)
  BY <1>3, HandlesSends
<1>9. SendsFrom(resent, k)
  <2>1. Sends(resent, k) /\ k >= t_seqno_ /\ k \in Int
    BY <1>8 DEF AnswersWith, Sends
  <2>2. k >= 0
    BY <1>1, <2>1
  <2> QED BY <1>1, <2>1, <2>2 DEF SendsFrom
<1>10. NewsFollows(slowed) /\ (resent # {} /\ (cong_action_ \/ slowed) => NewsResent(slowed))
  BY <1>1, <1>7, <1>8, <1>9, SendingNews DEF AnswersWith
<1>11. PICK s : s = recover_' + 1
  OBVIOUS
<1>12. conf' = conf
  BY <1>3, HandlesKeepConf
<1> SUFFICES ASSUME conf.ecn_, ~ due'
             PROVE  /\ last_cwnd_action_' # "timeout"
                    /\ \A i \in DOMAIN acks' : acks'[i].ecnecho => acks'[i].seqno <= recover_'
                    /\ ecn_unacked_' =>
                         s \notin received' /\ (NewsAwaits' \/ NewsOnItsWay(s)')
  BY <1>11, <1>12, CutHolds
<1>13. ~ TookEnd /\ ~ NewsResent(slowed) /\ ~ NewsRepeated /\ (~ due \/ AnswersMark(ack))
  BY <1>5
<1>14. /\ AnswersMark(ack) =>
            recover_' = maxseq_ /\ last_cwnd_action_' \in {"ecn", "dupack"}
       /\ ~ AnswersMark(ack) =>
            /\ last_cwnd_action_' \in {last_cwnd_action_, "dupack"}
            /\ recover_' = recover_ \/ (TookDupAction /\ DupActionSlows(ack))
  BY <1>3, <1>13, CutWindow
<1>15. acks \in Seq(AckRecords) /\ \A i \in DOMAIN acks : acks[i].seqno \in 0 .. maxseq_
  BY <1>1 DEF FlowInv, AcksAreTrue, IsTrueAck
<1>16. \A i \in DOMAIN acks' : \E j \in DOMAIN acks : acks'[i] = acks[j]
  BY <1>5, <1>15, TailOfAcks
<1>17. received \subseteq 0 .. maxseq_
  BY <1>1 DEF FlowInv
<1>18. ASSUME s = maxseq_ + 1, recover_' = maxseq_, cong_action_ \/ slowed
       PROVE  NewsAwaits' \/ NewsOnItsWay(s)'
  <2>1. CASE BagToSet(SentNow) = {}
    BY <1>10, <1>18, <2>1 DEF NewsFollows, NewsAwaits
  <2>2. CASE BagToSet(SentNow) # {}
    <3>1. s \in BagToSet(cwr') /\ data'[s] = 1
      BY <1>10, <1>13, <1>18, <2>2 DEF NewsFollows
    <3>2. NoneIn(wire \o q, Segment(s))
      BY <1>1, <1>18, LineIsSent
    <3> QED BY <1>6, <3>1, <3>2 DEF NewsOnItsWay, NewsSent
  <2> QED BY <2>1, <2>2
<1>19. CASE AnswersMark(ack)
  <2>1. recover_' = maxseq_ /\ last_cwnd_action_' # "timeout" /\ slowed
    BY <1>4, <1>14, <1>19
  <2>2. s = maxseq_ + 1 /\ s \notin received'
    BY <1>1, <1>5, <1>11, <1>17, <2>1
  <2>3. NewsAwaits' \/ NewsOnItsWay(s)'
    BY <1>18, <2>1, <2>2
  <2>4. ASSUME NEW i \in DOMAIN acks' PROVE acks'[i].seqno <= recover_'
    BY <1>1, <1>15, <1>16, <2>1
  <2> QED BY <2>1, <2>2, <2>3, <2>4
<1>20. CASE ~ AnswersMark(ack)
  <2>1. recover_' = recover_
    <3> SUFFICES ASSUME TookDupAction, DupActionSlows(ack) PROVE FALSE
      BY <1>14, <1>20
    <3>1. resent # {}
      BY <1>8 DEF AnswersWith, TookDupAction
    <3> QED BY <1>4, <1>10, <1>13, <3>1
  <2>2. /\ last_cwnd_action_ # "timeout"
        /\ \A i \in DOMAIN acks : acks[i].ecnecho => acks[i].seqno <= recover_
        /\ ecn_unacked_ => s \notin received /\ (NewsAwaits \/ NewsOnItsWay(s))
    <3>1. s = recover_ + 1 /\ ~ due
      BY <1>11, <1>13, <1>20, <2>1
    <3> QED BY <3>1 DEF CutInv
  <2>3. last_cwnd_action_' # "timeout"
    BY <1>14, <1>20, <2>2
  <2>4. ASSUME NEW i \in DOMAIN acks', acks'[i].ecnecho PROVE acks'[i].seqno <= recover_'
    BY <1>16, <2>1, <2>2, <2>4
  <2>5. NewsAwaits => NewsAwaits' \/ NewsOnItsWay(s)'
    BY <1>11, <1>18, <2>1 DEF NewsAwaits
  <2>6. NewsSent(s) => NewsSent(s)'
    <3> SUFFICES ASSUME NewsSent(s) PROVE NewsSent(s)'
      OBVIOUS
    <3>1. s \in BagToSet(cwr) /\ data[s] = 1 /\ NoneIn(wire \o q, Segment(s))
      BY DEF NewsSent
    <3>2. s \notin BagToSet(SentNow)
      BY <1>13, <3>1 DEF NewsRepeated, BagIn
    <3>3. s \in BagToSet(cwr') /\ data'[s] = 1
      BY <1>10, <3>1, <3>2 DEF NewsFollows
    <3> QED BY <1>6, <3>1, <3>3 DEF NewsSent
  <2>7. NewsQueued(s) => NewsQueued(s)'
    <3> SUFFICES ASSUME NewsQueued(s) PROVE NewsQueued(s)'
      OBVIOUS
    <3>1. s \notin BagToSet(cwr) /\ FirstIn(wire \o q, News(s), Segment(s))
      BY DEF NewsQueued
    <3>2. s \in -1 .. maxseq_
      BY <1>1, <3>1, LineIsSent DEF FirstIn, SomeIn
    <3>3. s # maxseq_ + 1
      BY <1>1, <3>2
    <3>4. s \notin BagToSet(cwr')
      BY <1>10, <1>13, <3>1, <3>3 DEF NewsFollows
    <3> QED BY <1>6, <3>1, <3>4 DEF NewsQueued
  <2> QED BY <1>5, <2>2, <2>3, <2>4, <2>5, <2>6, <2>7 DEF NewsOnItsWay
<1> QED BY <1>19, <1>20

(* Before the SYN is sent there is no echo.                                *)
LEMMA StartCut ==
  ASSUME BInv, CutInv, Start
  PROVE  CutInv'
<1>1. /\ FlowInv /\ QueueOf(PacketsTo(maxseq_)) /\ CwrInv /\ recover_ \in Nat
  BY FlowTypes DEF BInv, FlowInv, SenderInv, SenderTypeOK
<1>2. /\ curseq_ = 0 /\ conf.size \in Nat /\ SenderTypeOK
      /\ UNCHANGED <<conf, recover_, last_cwnd_action_, ecn_unacked_, received, acks, due>>
  BY <1>1, FlowTypes
  DEF Start, SendMsg, windowVars, sinkVars, historyVars, FlowInv, SenderInv
<1>3. maxseq_ = -1
  BY <1>2 DEF SenderTypeOK
<1>4. PICK s : s = recover_ + 1
  OBVIOUS
<1>5. s \notin -1 .. maxseq_
  BY <1>1, <1>3, <1>4
<1>6. ~ NewsAwaits
  BY <1>1, <1>3 DEF NewsAwaits
<1>7. ~ NewsSent(s)
  <2>1. BagToSet(data) \subseteq 0 .. maxseq_
    BY <1>2 DEF SenderTypeOK
  <2>2. s \notin BagToSet(cwr)
    BY <1>1, <1>3, <2>1 DEF CwrInv
  <2> QED BY <2>2 DEF NewsSent
<1>8. ~ NewsQueued(s)
  BY <1>1, <1>5, LineIsSent DEF NewsQueued, FirstIn, SomeIn
<1>9. conf.ecn_ /\ ~ due =>
        /\ last_cwnd_action_ # "timeout" /\ ~ ecn_unacked_
        /\ \A i \in DOMAIN acks : acks[i].ecnecho => acks[i].seqno <= recover_
  BY <1>4, <1>6, <1>7, <1>8 DEF CutInv, NewsOnItsWay
<1> QED BY <1>2, <1>4, <1>9, CutHolds

(* Every step keeps it.                                                    *)
LEMMA NextCut ==
  BInv /\ CutInv /\ [Next]_vars => CutInv'
<1> SUFFICES ASSUME BInv, CutInv, [Next]_vars PROVE CutInv'
  OBVIOUS
<1>1. ASSUME UNCHANGED <<conf, recover_, maxseq_, cong_action_, last_cwnd_action_, ecn_unacked_,
                         received, acks, due, data, cwr, wire, q>>
      PROVE  CutInv'
  <2>1. PICK s : s = recover_ + 1
    OBVIOUS
  <2>2. NewsOnItsWay(s) => NewsOnItsWay(s)'
    BY <1>1 DEF NewsOnItsWay, NewsSent, NewsQueued
  <2> QED BY <1>1, <2>1, <2>2, CutKept
<1>2. CASE Start
  BY <1>2, StartCut
<1>3. CASE RecvAck
  BY <1>3, RecvAckCut
<1>4. CASE RtxTimeout
  BY <1>4 DEF RtxTimeout, CutInv
<1>5. CASE FlowBenderTimer
  BY <1>1, <1>5 DEF FlowBenderTimer, senderVars, windowVars, queueVars, sinkVars
<1>6. CASE \E s \in BagToSet(data) : Arrive(s)
  BY <1>6, ArriveCut
<1>7. CASE ArriveOther
  BY <1>7, ArriveOtherCut
<1>8. CASE Depart
  BY <1>8, DepartCut
<1>9. CASE UNCHANGED vars
  BY <1>1, <1>9
  DEF vars, senderVars, windowVars, queueVars, feedbackVars, sinkVars, historyVars
<1> QED BY <1>2, <1>3, <1>4, <1>5, <1>6, <1>7, <1>8, <1>9 DEF Next

(* Every cut for a mark has a mark of its own (slowdown, output, the       *)
(* sink's ecn_unacked_): after a cut the news of it stays before every     *)
(* copy of the first segment above recover_, until the sink has it, and    *)
(* until then the sink has nothing that makes an ACK above recover_.       *)
THEOREM BottleneckCuts == Spec => CutAnswersMark
<1>1. Init => CutInv
  BY DEF Init, SenderInit, CutInv
<1>2. Spec => []CutInv
  BY <1>1, NextCut, BottleneckInvariant, PTL DEF Spec
<1>3. ASSUME BInv, CutInv, NEW i \in DOMAIN acks, AnswersMark(acks[i]) PROVE due
  <2>1. conf.ecn_ /\ acks[i].ecnecho
        /\ (acks[i].seqno > recover_ \/ last_cwnd_action_ = "timeout")
    BY <1>3 DEF AnswersMark
  <2>2. acks[i].seqno \in Int /\ recover_ \in Nat
    BY <1>3, FlowTypes
    DEF BInv, FlowInv, SenderInv, SenderTypeOK, AcksAreTrue, IsTrueAck
  <2>3. ASSUME ~ due PROVE FALSE
    <3>1. last_cwnd_action_ # "timeout" /\ acks[i].seqno <= recover_
      BY <1>3, <2>1, <2>3 DEF CutInv
    <3> QED BY <2>1, <2>2, <3>1
  <2> QED BY <2>3
<1>4. BInv /\ CutInv /\ [Next]_vars =>
        [\A i \in DOMAIN acks :
           i = 1 /\ acks' = Tail(acks) /\ AnswersMark(acks[i]) => due]_vars
  BY <1>3
<1> QED BY <1>2, <1>4, BottleneckInvariant, PTL DEF Spec, CutAnswersMark
===============================================================================
