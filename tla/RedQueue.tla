------------------------------- MODULE RedQueue -------------------------------
(***************************************************************************)
(* The RED queue of a link (queue/red.cc) and the link it feeds: arrivals  *)
(* with the average queue, the early and the forced drops and the marks,   *)
(* and the departures.                                                     *)
(*                                                                         *)
(* Queue lengths are in packets (bytes_ and queue_in_bytes_ off); gentle_, *)
(* adaptive_, cautious_ and ns1_compat_ are off and mark_p_ is 1, as in    *)
(* ns-default.tcl and the experiments.  The average is its integer part:   *)
(* exactly the queue where q_weight_ is 1, as the experiments set it, and  *)
(* any value between the last one and the queue where it is less.          *)
(***************************************************************************)
EXTENDS Integers, Sequences

CONSTANT
  QueueSettings     \* the queues to consider

(* thresh_, maxthresh_, linterm_ and the limit; instant: q_weight_ is 1;   *)
(* targetqueue: targetdelay_ in packets; drops: what a forced drop takes   *)
(* (drop_front_, drop_rand_, drop_tail_).                                  *)
AllQueues ==
  [th_min : Nat, th_max : Nat, targetqueue : Nat, max_p_inv : Nat \ {0}, limit : Nat \ {0},
   instant : BOOLEAN, setbit : BOOLEAN, use_mark_p : BOOLEAN, wait : BOOLEAN,
   drops : {"front", "rand", "tail"}]

ASSUME QueueAssumption ==
  \A r \in QueueSettings :
    /\ r \in AllQueues
    /\ r.th_max # 0 => 0 < r.th_min /\ r.th_min <= r.th_max

VARIABLES
  red,      \* the settings of this queue: they never change
  q,        \* the packets that wait
  wire,     \* the packet in transmission, in a sequence of at most one
  v_ave,    \* the average queue
  count,    \* packets since the last drop or mark
  old,      \* the average was above th_min at the last arrival
  curq_     \* the queue that the last arrival found

queueVars == <<red, q, wire, v_ave, count, old, curq_>>

(* The script's thresholds; thresh_ 0 stands for half of the target queue, *)
(* at least five packets, and maxthresh_ 0 for three times thresh_.        *)
initialize_params(r) ==
  LET half == r.targetqueue \div 2
      low  == IF r.th_min # 0 THEN r.th_min ELSE IF half > 5 THEN half ELSE 5
  IN [r EXCEPT !.th_min = low, !.th_max = IF @ = 0 THEN 3 * low ELSE @]

(* reset() *)
QueueInit ==
  /\ \E r \in QueueSettings : red = initialize_params(r)
  /\ q = <<>> /\ wire = <<>>
  /\ v_ave = 0 /\ count = 0 /\ old = FALSE /\ curq_ = 0

-------------------------------------------------------------------------------
(* The average and the probability of an early drop.                       *)

(* estimator(), after an idle time too: the average then falls towards the *)
(* empty queue.                                                            *)
Averages ==
  IF red.instant THEN {Len(q)}
  ELSE {a \in 0 .. Len(q) + v_ave : \/ v_ave <= a /\ a <= Len(q)
                                    \/ Len(q) <= a /\ a <= v_ave}

(* th_diff, in units of which max_p_ is one part in max_p_inv.             *)
th_diff == IF red.th_max = red.th_min THEN 1 ELSE red.th_max - red.th_min
Unit == th_diff * red.max_p_inv

(* count matters up to two over the smallest probability.                  *)
CountBound == 2 * Unit

(* What drop_early() can decide: whether its probability, v_prob1 as       *)
(* calculate_p_new() has it and modify_p() spreads it over the packets     *)
(* counted, can be above zero, and below one.  An average that is not the  *)
(* queue itself lies between its integer part and the next integer.        *)
DropEarly(ave, counted) ==
  LET p == IF ave >= red.th_max THEN Unit ELSE ave - red.th_min
      highest == IF red.instant \/ ave >= red.th_max THEN p ELSE p + 1
      canHit == IF red.wait THEN counted * highest >= Unit ELSE highest > 0
      canMiss == (counted + 1) * p < (IF red.wait THEN 2 * Unit ELSE Unit)
  IN {hit \in BOOLEAN : IF hit THEN canHit ELSE canMiss}

(* Mutant: v_prob1 < mark_p_, "for basic TCP/SACK".                        *)
MarksBelow(p, ave) == red.setbit /\ p.ect /\ (red.use_mark_p => ave < red.th_max)

(* A packet that can be marked is not dropped: v_prob1 <= mark_p_.         *)
MayMark(p, ave) == red.setbit /\ p.ect

-------------------------------------------------------------------------------
(* Arrivals and departures.                                                *)

(* pickPacketToDrop(), of a queue with n packets. *)
Victims(n) ==
  CASE red.drops = "front" -> {IF n > 1 THEN 2 ELSE 1}
    [] red.drops = "rand" -> 1 .. n
    [] red.drops = "tail" -> {n}

Without(s, i) == SubSeq(s, 1, i - 1) \o SubSeq(s, i + 1, Len(s))

(* Queue::recv after enque(), and resume: an idle link takes the first.    *)
Transmit(waiting) ==
  IF wire = <<>> /\ waiting # <<>>
  THEN wire' = <<Head(waiting)>> /\ q' = Tail(waiting)
  ELSE wire' = wire /\ q' = waiting

(* enque(): where drop_early() is asked, a hit marks the packet or drops   *)
(* it; at the limit, and above th_max where marks are not used, some       *)
(* packet is dropped after the arrival has joined the queue.               *)
Enque(p) ==
  \E ave \in Averages :
    LET n       == Len(q)
        counted == count + 1
        above   == ave >= red.th_min /\ n > 1
        over    == above /\ ~ red.use_mark_p /\ ave >= red.th_max
        asked   == above /\ ~ over /\ old
        full    == n >= red.limit
    IN \E hit \in IF asked THEN DropEarly(ave, counted) ELSE {FALSE} :
         LET marked == hit /\ MayMark(p, ave)
             joined == Append(q, [p EXCEPT !.ce = @ \/ marked])
         IN
         /\ v_ave' = ave
         /\ curq_' = n
         /\ old' = IF over THEN old ELSE above
         /\ count' = IF hit \/ over \/ full THEN 0
                     ELSE IF above /\ ~ asked THEN 1
                     ELSE IF counted > CountBound THEN CountBound ELSE counted
         /\ IF over \/ full THEN \E i \in Victims(n + 1) : Transmit(Without(joined, i))
            ELSE IF hit /\ ~ marked THEN Transmit(q)
            ELSE Transmit(joined)
         /\ UNCHANGED red

(* resume(), when the packet on the wire has left: deque().                *)
Resume ==
  /\ wire # <<>>
  /\ IF q = <<>> THEN wire' = <<>> /\ q' = q ELSE wire' = <<Head(q)>> /\ q' = Tail(q)
  /\ UNCHANGED <<red, v_ave, count, old, curq_>>
===============================================================================
