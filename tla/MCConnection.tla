----------------------------- MODULE MCConnection -----------------------------
EXTENDS Connection, TLC

(* Senders of n segments, with limited transmit or without. *)
Plain(n, singledup) ==
  [size |-> n, ecn_ |-> FALSE, dctcp_ |-> FALSE, singledup_ |-> singledup,
   slow_start_restart_ |-> TRUE]

MCFaults == Plain(4, TRUE) :> 2 @@ Plain(5, TRUE) :> 1 @@ Plain(5, FALSE) :> 1
MCSettings == DOMAIN Faults
MCSeqs == 0 .. 5
MCPktSize == [s \in MCSeqs |-> 1]

(* Sinks that answer at once, or delay, with room for one block. *)
MCSinks ==
  {[DelAck |-> delack, RFC2581_immediate_ack_ |-> TRUE, generate_dsacks_ |-> FALSE,
    maxSackBlocks_ |-> {1}, input |-> {Segment(s) : s \in Seqs}, maxResets |-> 0] :
     delack \in BOOLEAN}
===============================================================================
