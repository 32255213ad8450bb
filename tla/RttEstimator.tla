----------------------------- MODULE RttEstimator -----------------------------
(***************************************************************************)
(* The round trip estimator and the retransmission timeout of TcpAgent     *)
(* (tcp/tcp.cc), in clock ticks (tcp_tick_): the segment that is timed,    *)
(* the smoothed round trip and its variation, the backoff of the timer and *)
(* its suspension while marks come back at a window of one.  What a        *)
(* handler does to them is a function of the record of their values;       *)
(* module Bottleneck composes these functions along each handler.          *)
(*                                                                         *)
(* rfc2988_ and timerfix_ on, ts_option_ and use_rtt_ off, rttvar_exp_ 2,  *)
(* as ns-default.tcl has them.                                             *)
(***************************************************************************)
EXTENDS Integers

CONSTANTS
  rttvar_init_, rtxcur_init_,  \* before the first sample (srtt_init_ is 0)
  minrto_, maxrto_,
  ShortMax                     \* the largest short: 2^15 - 1 in the program

ASSUME RttAssumption ==
  /\ rttvar_init_ \in Nat /\ rtxcur_init_ \in Nat
  /\ minrto_ \in Nat /\ minrto_ >= 2 /\ maxrto_ \in Nat /\ maxrto_ >= 2
  /\ ShortMax \in Nat

(* rtt_active_: the segment rtt_seq_ is being timed; t_srtt_ has three     *)
(* binary places and t_rttvar_ two; ect_: a mark has come back.            *)
Estimates ==
  [rtt_active_ : BOOLEAN, rtt_seq_ : Int, t_rtt_ : Nat, t_srtt_ : Nat, t_rttvar_ : Nat,
   t_rtxcur_ : Nat, t_backoff_ : Nat \ {0}, ecn_backoff_ : BOOLEAN, ect_ : BOOLEAN]

(* reset() and rtt_init(). *)
RttInit ==
  [rtt_active_ |-> FALSE, rtt_seq_ |-> -1, t_rtt_ |-> 0, t_srtt_ |-> 0,
   t_rttvar_ |-> 4 * rttvar_init_, t_rtxcur_ |-> rtxcur_init_, t_backoff_ |-> 1,
   ecn_backoff_ |-> FALSE, ect_ |-> FALSE]

Larger(a, b) == IF a >= b THEN a ELSE b
Smaller(a, b) == IF a <= b THEN a ELSE b

(* The timeout, at least two ticks and at most maxrto_.                    *)
rtt_timeout(e) == Larger(2, Smaller(maxrto_, Larger(e.t_rtxcur_, minrto_) * e.t_backoff_))

(* The value of n in a short.                                              *)
Short(n) == ((n + ShortMax + 1) % (2 * (ShortMax + 1))) - ShortMax - 1

Abs(n) == IF n < 0 THEN -n ELSE n
Positive(n) == IF n <= 0 THEN 1 ELSE n

(* Mutant: the binary places of the variation are taken twice for those of *)
(* the mean.                                                               *)
RtxcurHalf(srtt, rttvar) == (4 * rttvar + srtt) \div 8

(* The timeout of a smoothed round trip and its variation.                 *)
Rtxcur(srtt, rttvar) == (8 * rttvar + srtt) \div 8

(* A sample of m ticks into an estimate: an eighth of the difference to    *)
(* the mean, a quarter of that to the variation.  The differences are in a *)
(* short.                                                                  *)
Updated(e, m) ==
  LET delta  == Short(m - e.t_srtt_ \div 8)
      srtt   == Positive(e.t_srtt_ + delta)
      rttvar == Positive(e.t_rttvar_ + Short(Short(Abs(delta)) - e.t_rttvar_ \div 4))
  IN [e EXCEPT !.t_rtt_ = m, !.t_srtt_ = srtt, !.t_rttvar_ = rttvar,
               !.t_rtxcur_ = Rtxcur(srtt, rttvar)]

FirstSample(e, m) ==
  [e EXCEPT !.t_rtt_ = m, !.t_srtt_ = 8 * m, !.t_rttvar_ = 2 * m,
            !.t_rtxcur_ = Rtxcur(8 * m, 2 * m)]

(* A sample of tao ticks, at least one.                                    *)
rtt_update(e, tao) ==
  LET m == Larger(tao, 1) IN IF e.t_srtt_ = 0 THEN FirstSample(e, m) ELSE Updated(e, m)

(* The timer is backed off; beyond eight the mean is moved into the        *)
(* variation, so that the next sample starts afresh.                       *)
rtt_backoff(e) ==
  LET doubles == e.t_backoff_ < 64 \/ rtt_timeout(e) < maxrto_
      backoff == IF doubles THEN 2 * e.t_backoff_ ELSE e.t_backoff_
  IN IF backoff > 8
     THEN [e EXCEPT !.t_backoff_ = backoff, !.t_rttvar_ = @ + e.t_srtt_ \div 8, !.t_srtt_ = 0]
     ELSE [e EXCEPT !.t_backoff_ = backoff]

-------------------------------------------------------------------------------
(* What the handlers do to it.                                             *)

(* reset_rtx_timer(): what is being timed is timed no more.                *)
TimerReset(e, backoff) == [(IF backoff THEN rtt_backoff(e) ELSE e) EXCEPT !.rtt_active_ = FALSE]

(* output() of a new segment.                                              *)
Timing(e, seqno) ==
  IF e.rtt_active_ THEN e
  ELSE [e EXCEPT !.rtt_active_ = TRUE, !.rtt_seq_ = Larger(@, seqno)]

(* ecn(): a second mark at a window of one backs the timer off.            *)
EcnBackedOff(e, smallWindow) ==
  IF ~ smallWindow THEN [e EXCEPT !.ecn_backoff_ = FALSE]
  ELSE IF e.ecn_backoff_ THEN rtt_backoff(e)
  ELSE [e EXCEPT !.ecn_backoff_ = TRUE]

(* newack() of the segment timed, or of a later one: the backoff ends,     *)
(* unless marks still come back at a window of one.                        *)
Sampled(e, seqno, ecnecho, tao) ==
  IF ~ e.rtt_active_ \/ seqno < e.rtt_seq_ THEN e
  ELSE LET keeps == e.ect_ /\ e.ecn_backoff_ /\ ecnecho
           ended == IF keeps THEN e ELSE [e EXCEPT !.t_backoff_ = 1, !.ecn_backoff_ = FALSE]
       IN rtt_update([ended EXCEPT !.rtt_active_ = FALSE], tao)

(* recv_newack_helper() after newack().                                    *)
HelpedNewAck(e, ecnecho) ==
  [e EXCEPT !.ecn_backoff_ = @ /\ (ecnecho \/ ~ e.ect_), !.ect_ = @ \/ ecnecho]
===============================================================================
