------------------------------ MODULE MCTcpSink -------------------------------
EXTENDS TcpSink

MCSeqs == 0 .. 6
MCPktSize == [s \in MCSeqs |-> 1]

Flags(ect, ce, cwr, echo) == [ect |-> ect, ce |-> ce, cong_action |-> cwr, ecnecho |-> echo]

(* Segments without ECN, for the sinks with long histories. *)
NoEcn == {Flags(FALSE, FALSE, FALSE, FALSE)}

(* A SYN that negotiates, and data: unmarked, marked, reduced, both. *)
Ecn == {Flags(FALSE, FALSE, FALSE, TRUE), Flags(TRUE, FALSE, FALSE, FALSE),
        Flags(TRUE, TRUE, FALSE, FALSE), Flags(TRUE, FALSE, TRUE, FALSE),
        Flags(TRUE, TRUE, TRUE, FALSE)}

Input(seqs, flags) ==
  {p \in Packets : p.seqno \in seqs /\ Flags(p.ect, p.ce, p.cong_action, p.ecnecho) \in flags}

Kind(delack, immediate, dsacks, counts, input, resetBound) ==
  [DelAck |-> delack, RFC2581_immediate_ack_ |-> immediate, generate_dsacks_ |-> dsacks,
   maxSackBlocks_ |-> counts, input |-> input, maxResets |-> resetBound]

Long == Input(MCSeqs, NoEcn)
Short == Input(0 .. 2, Ecn)

(* Immediate and delaying sinks, with and without DSACK, with long          *)
(* histories; one whose DSACK leaves no room for another block; and         *)
(* delaying sinks with ECN, a reset, and a script that changes              *)
(* maxSackBlocks_.                                                          *)
MCSinks ==
  {Kind(FALSE, TRUE, dsacks, {3}, Long, 0) : dsacks \in BOOLEAN}
    \union {Kind(FALSE, TRUE, TRUE, {1}, Input(0 .. 4, NoEcn), 0)}
    \union {Kind(TRUE, immediate, dsacks, {3}, Long, 0) : immediate, dsacks \in BOOLEAN}
    \union {Kind(TRUE, immediate, FALSE, {2, 3}, Short, 1) : immediate \in BOOLEAN}

MCImmediate == {Kind(FALSE, TRUE, FALSE, {3}, Long, 1)}
===============================================================================
