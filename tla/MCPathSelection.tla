----------------------------- MODULE MCPathSelection -----------------------------
(* Four uplinks; the flow is from leaf 1 to leaf 2, leaf 3 is another one.  *)
EXTENDS PathSelection, TLC

Fail(leaf, spine, ratio) == [leaf |-> leaf, spine |-> spine, failureRatio |-> ratio]

(* Lists of one and of several failures: partial and full, direct and       *)
(* indirect, two on one spine in either order, a full one alone, and on     *)
(* every uplink.                                                            *)
MCSingle == {<<Fail(1, 0, 2)>>, <<Fail(2, 1, 2)>>, <<Fail(1, 3, 2)>>, <<Fail(1, 0, 100)>>,
             <<Fail(3, 2, 2)>>}
MCSeveral == {
  <<Fail(1, 0, 2), Fail(2, 1, 2)>>,
  <<Fail(1, 1, 2), Fail(2, 3, 100)>>,
  <<Fail(1, 1, 100), Fail(2, 1, 2), Fail(2, 2, 2), Fail(3, 1, 2)>>,
  <<Fail(1, 0, 2), Fail(2, 0, 100)>>,
  <<Fail(1, 0, 100), Fail(3, 2, 2)>>,
  <<Fail(3, 0, 2), Fail(3, 2, 2)>>,
  <<Fail(1, 0, 2), Fail(1, 1, 2), Fail(1, 2, 2), Fail(1, 3, 100)>>,
  <<Fail(1, 0, 100), Fail(1, 1, 100), Fail(1, 2, 100), Fail(1, 3, 100)>>}

(* A flow of a fabric with these failures; the schemes override the rest.   *)
MCFlow(list, detected) ==
  [failureAware_ |-> TRUE, roundRobin_ |-> TRUE, selectiveSpraying_ |-> FALSE,
   realisticFailure_ |-> TRUE, failureCase_ |-> 1, failureRatio_ |-> 2,
   failedLinks |-> list, poorPathFlow_ |-> FALSE, DA_Flow_ |-> FALSE,
   dynamicMapping_ |-> FALSE, healthyPathOnly_ |-> FALSE, DA_sprayOnly_ |-> FALSE,
   startsDetected |-> detected]

MCUnaware == {[MCFlow(<<>>, FALSE) EXCEPT !.failureAware_ = FALSE, !.failureCase_ = 0]}
MCWeighted ==
  {MCFlow(list, detected) : list \in MCSingle \union MCSeveral, detected \in BOOLEAN}
    \union {[MCFlow(list, FALSE) EXCEPT !.failureCase_ = 2] : list \in MCSingle \union MCSeveral}
MCProbabilistic ==
  {[MCFlow(list, FALSE) EXCEPT !.roundRobin_ = FALSE, !.realisticFailure_ = realistic] :
     list \in MCSingle \union MCSeveral, realistic \in BOOLEAN}
MCSelective ==
  {[MCFlow(list, detected) EXCEPT !.selectiveSpraying_ = TRUE, !.failureCase_ = case,
      !.poorPathFlow_ = poor, !.dynamicMapping_ = TRUE, !.healthyPathOnly_ = hpo] :
     list \in MCSingle, detected \in BOOLEAN, case \in {1, 2}, poor \in BOOLEAN, hpo \in BOOLEAN}
MCStatic ==
  {[MCFlow(list, FALSE) EXCEPT !.selectiveSpraying_ = selective, !.realisticFailure_ = FALSE,
      !.poorPathFlow_ = poor] :
     list \in MCSingle \union MCSeveral, selective \in BOOLEAN, poor \in BOOLEAN}
MCDelayAsymmetry ==
  {[MCFlow(list, TRUE) EXCEPT !.selectiveSpraying_ = TRUE, !.DA_Flow_ = TRUE] : list \in MCSingle}

MCFlows ==
  MCUnaware \union MCWeighted \union MCProbabilistic \union MCSelective \union MCStatic
    \union MCDelayAsymmetry
===============================================================================
