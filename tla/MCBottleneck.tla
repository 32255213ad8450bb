----------------------------- MODULE MCBottleneck -----------------------------
EXTENDS Bottleneck, TLC

Sender(n, ecn, withDctcp) ==
  [size |-> n, ecn_ |-> ecn, dctcp_ |-> withDctcp, singledup_ |-> FALSE,
   slow_start_restart_ |-> TRUE]

Plain(n) == Sender(n, FALSE, FALSE)
Ecn(n) == Sender(n, TRUE, FALSE)
DctcpSender(n) == Sender(n, TRUE, TRUE)

(* The queue of the experiments: marks above K packets, drops at the limit. *)
Step(K, limit) ==
  [th_min |-> K, th_max |-> K, targetqueue |-> 0, max_p_inv |-> 1, limit |-> limit,
   instant |-> TRUE, setbit |-> TRUE, use_mark_p |-> TRUE, wait |-> TRUE, drops |-> "tail"]

(* The RED of the textbook: an average queue, drops spread out.             *)
Textbook(low, high, limit, drops) ==
  [th_min |-> low, th_max |-> high, targetqueue |-> 0, max_p_inv |-> 2, limit |-> limit,
   instant |-> FALSE, setbit |-> FALSE, use_mark_p |-> FALSE, wait |-> FALSE, drops |-> drops]

Case(sender, flowBender, samples, queue, others, timeouts, checks) ==
  [sender |-> sender, flowBender_ |-> flowBender, samples |-> samples, queue |-> queue,
   others |-> others, timeouts |-> timeouts, checks |-> checks]

(* Marks and the reordering of a long window; FlowBender with its timer;   *)
(* timeouts, of which the last case has as many as clobber the estimate;   *)
(* a segment with the news of a cut that its own second copy overtakes;    *)
(* the RED of the textbook, with round trips whose difference a short does *)
(* not hold; and the thresholds that initialize_params chooses.            *)
MCCases == {
  Case(DctcpSender(8), FALSE, {2}, Step(2, 3), 0, 0, 0),
  Case(DctcpSender(6), FALSE, {2}, Step(2, 3), 1, 0, 0),
  Case(DctcpSender(5), TRUE, {2}, Step(2, 3), 1, 0, 2),
  Case(DctcpSender(3), TRUE, {2}, Step(1, 3), 0, 1, 1),
  Case(DctcpSender(3), FALSE, {2}, Step(2, 3), 1, 2, 0),
  Case(Ecn(4), FALSE, {2}, Step(1, 3), 1, 1, 0),
  Case(Ecn(6), FALSE, {2}, Step(1, 4), 3, 0, 0),
  Case(Ecn(6), FALSE, {2}, Textbook(0, 0, 8, "tail"), 0, 0, 0),
  Case(Plain(5), FALSE, {1, 6, 14}, Textbook(1, 3, 3, "front"), 1, 0, 0),
  Case(Plain(4), TRUE, {1}, Textbook(1, 2, 3, "rand"), 0, 1, 0),
  Case(Plain(1), FALSE, {1, 2}, Textbook(1, 2, 3, "rand"), 0, 5, 0)}

MCSettings == {c.sender : c \in MCCases}
MCQueues == {c.queue : c \in MCCases}
===============================================================================
