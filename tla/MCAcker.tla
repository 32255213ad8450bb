------------------------------- MODULE MCAcker --------------------------------
(* A ring of 2 entries growing to 16 and ten segments: arrivals wrap it,    *)
(* resize it once or twice at a time, and reset it at every size.           *)
EXTENDS Acker

MCSeqs == 0 .. 9

(* The SYN, segment 0, is shorter than the data segments. *)
MCPktSize == [s \in MCSeqs |-> IF s = 0 THEN 1 ELSE 3]
===============================================================================
