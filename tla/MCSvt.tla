-------------------------------- MODULE MCSvt ---------------------------------
(* Four uplinks; the flow is from leaf 1 to leaf 2, leaf 3 is another one.  *)
EXTENDS Svt

Fail(leaf, spine, full) == [leaf |-> leaf, spine |-> spine, full |-> full]

(* Every list of three failures of spines 0 and 1. *)
MCTwoSpines == {f \in Failures : f.spine \in {0, 1}}
MCAllLists == {<<a, b, c>> : a, b, c \in MCTwoSpines}

(* Lists that leave spine 3 alone: partial and full, direct and indirect    *)
(* failures in several orders, and two on one spine.                        *)
MCLists == {
  <<Fail(1, 0, FALSE), Fail(3, 1, TRUE)>>,
  <<Fail(3, 0, FALSE), Fail(2, 1, TRUE), Fail(3, 2, TRUE)>>,
  <<Fail(3, 0, TRUE), Fail(1, 0, FALSE), Fail(2, 0, TRUE), Fail(1, 1, FALSE)>>,
  <<Fail(3, 2, FALSE), Fail(3, 0, TRUE), Fail(2, 2, FALSE)>>}

(* Every spine has failed for the pair of leaves or for another leaf. *)
MCCovering == {<<Fail(1, 0, FALSE), Fail(3, 1, FALSE), Fail(3, 2, TRUE), Fail(3, 3, TRUE)>>}

Flow(size, dyn, hpo, das, toFL, poor, case) ==
  [flowsizeBytes |-> size, dynamicMapping_ |-> dyn, healthyPathOnly_ |-> hpo,
   DA_sprayOnly_ |-> das, fromFailedLeaf_ |-> FALSE, toFailedLeaf_ |-> toFL,
   poorPathFlow_ |-> poor, failureCase_ |-> case]

(* Small, medium and large flows of SAPS, SAPS-DAU and HPO. *)
MCFlows ==
  {Flow(size, dyn, scheme[1], scheme[2], FALSE, FALSE, 1) :
     size \in {1, 3, 5}, dyn \in BOOLEAN,
     scheme \in {<<FALSE, FALSE>>, <<FALSE, TRUE>>, <<TRUE, FALSE>>}}

(* Flows the script has marked poorPathFlow_. *)
MCPoorFlows ==
  {Flow(3, TRUE, FALSE, das, toFL, TRUE, case) :
     das \in BOOLEAN, toFL \in BOOLEAN, case \in {1, 2}}

(* An HPO flow, for all the lists. *)
MCOneFlow == {Flow(3, FALSE, TRUE, FALSE, FALSE, FALSE, 1)}

MCPoorCases == MCLists \X MCPoorFlows

MCCases ==
  (MCAllLists \X MCOneFlow) \union ((MCLists \union MCCovering) \X MCFlows) \union MCPoorCases
===============================================================================
