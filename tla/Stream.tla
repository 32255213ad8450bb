-------------------------------- MODULE Stream ---------------------------------
(***************************************************************************)
(* What a TCP connection promises the application that sends one flow: the *)
(* segments it hands over reach the other side in order and none is        *)
(* skipped, only delivered ones are acknowledged, the flow is reported     *)
(* done when all of them are, and it is done in the end.                   *)
(***************************************************************************)
EXTENDS Naturals

VARIABLES
  submitted,  \* segments handed over by the sending application
  delivered,  \* segments handed over in order at the other side
  acked,      \* segments the sender knows of
  closed      \* the flow has been reported done

vars == <<submitted, delivered, acked, closed>>

Init == submitted = 0 /\ delivered = 0 /\ acked = 0 /\ closed = FALSE

Submit ==
  /\ submitted = 0
  /\ submitted' \in Nat \ {0}
  /\ UNCHANGED <<delivered, acked, closed>>

Deliver ==
  /\ delivered' > delivered /\ delivered' <= submitted
  /\ UNCHANGED <<submitted, acked, closed>>

(* The last segment may close the flow at once. *)
Acknowledge ==
  /\ acked' > acked /\ acked' <= delivered
  /\ closed' = closed \/ closed' = (acked' = submitted)
  /\ UNCHANGED <<submitted, delivered>>

Close ==
  /\ submitted > 0 /\ acked = submitted
  /\ closed' = TRUE
  /\ UNCHANGED <<submitted, delivered, acked>>

Next == Submit \/ Deliver \/ Acknowledge \/ Close

(* Nothing is delivered, acknowledged or reported out of turn.             *)
Orderly == Init /\ [][Next]_vars

Spec == Orderly /\ <> closed
===============================================================================
