------------------------------ MODULE MCTransfer ------------------------------
EXTENDS Transfer, TLC

(* Senders of n segments that answer marks or not, and of each kind the    *)
(* number of faults.                                                       *)
Sender(n, ecn, dctcp, singledup) ==
  [size |-> n, ecn_ |-> ecn, dctcp_ |-> dctcp, singledup_ |-> singledup,
   slow_start_restart_ |-> ~ dctcp]

Plain(n) == Sender(n, FALSE, FALSE, TRUE)
Unlimited(n) == Sender(n, FALSE, FALSE, FALSE)
Ecn(n) == Sender(n, TRUE, FALSE, TRUE)
Dctcp(n) == Sender(n, TRUE, TRUE, TRUE)

MCFaults ==
  Plain(5) :> 2 @@ Plain(6) :> 1 @@ Unlimited(5) :> 1
    @@ Ecn(4) :> 2 @@ Ecn(5) :> 1 @@ Dctcp(4) :> 2 @@ Dctcp(5) :> 1

MCDctcpFaults == Dctcp(6) :> 2

MCSettings == DOMAIN Faults
===============================================================================
