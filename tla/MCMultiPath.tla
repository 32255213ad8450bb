----------------------------- MODULE MCMultiPath ------------------------------
(* Three uplinks in six slots that come and go in any order, and packets    *)
(* that ask for the first and the last of them, whichever are up.           *)
EXTENDS MultiPath

Scheme(ps, sel, fs, perflow, case) ==
  [packetSpraying_ |-> ps, selectiveSpraying_ |-> sel, flowcellSpraying_ |-> fs,
   perflow_ |-> perflow, failureCase_ |-> case]

Rps        == Scheme(TRUE, FALSE, FALSE, 0, 0)
Selected   == Scheme(TRUE, TRUE, FALSE, 0, 2)
Flowcells  == {Scheme(FALSE, FALSE, TRUE, 0, case) : case \in 0 .. 2}
FlowBender == Scheme(FALSE, FALSE, FALSE, 2, 0)
PlainEcmp  == Scheme(FALSE, FALSE, FALSE, 1, 0)
NoBalance  == Scheme(FALSE, FALSE, FALSE, 0, 0)

MCSchemes  == Flowcells \union {Rps, Selected, FlowBender, PlainEcmp, NoBalance}
MCSelected == {Selected}

Pkt(linkID, detected, elephant, fid, ttl) ==
  [linkID |-> linkID, failureDetected |-> detected, isElephant |-> elephant,
   fid |-> fid, tcp |-> TRUE, ttl |-> ttl]

(* Packets before and after the detection of a failure, and an elephant's. *)
MCPackets == {Pkt(0, TRUE, FALSE, 1, 64), Pkt(2, TRUE, FALSE, 2, 65),
              Pkt(2, FALSE, FALSE, 2, 65), Pkt(2, FALSE, TRUE, 1, 65)}

MCTTLs == {64, 65}

MCHash == [h \in {1, 2} \X MCTTLs |-> h[1] + 3 * h[2]]
===============================================================================
