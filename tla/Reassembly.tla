------------------------------ MODULE Reassembly ------------------------------
(***************************************************************************)
(* What the receive buffer of a TCP sink promises, with no ring, no window *)
(* mask and no resizing: a set of the segments received since the last     *)
(* reset, the cumulative point below which nothing is missing, the         *)
(* duplicate verdict on the last segment, and the bytes that segment       *)
(* released to the application.  Module Acker implements it.               *)
(***************************************************************************)
EXTENDS Integers, Functions

CONSTANTS
  Seqs,      \* the segment numbers a sender may use
  PktSize    \* PktSize[s]: the bytes of segment s, the same on every copy of it

VARIABLES
  received,     \* segments received in this incarnation
  next_,        \* the first segment not received
  is_dup_,      \* the last segment had been received before
  numToDeliver  \* bytes the last segment let the application have

vars == <<received, next_, is_dup_, numToDeliver>>

(* The sum of the values of a function with a finite domain. *)
SumOf(f) == FoldFunction(+, 0, f)

Init ==
  /\ received = {}
  /\ next_ = 0
  /\ is_dup_ = FALSE
  /\ numToDeliver = 0

(* A segment arrives, in any order and any number of times.                *)
Recv(seq) ==
  /\ received' = received \union {seq}
  /\ is_dup_' = (seq \in received)
  /\ next_' \in Nat \ received'
  /\ 0 .. next_' - 1 \subseteq received'
  /\ numToDeliver' = SumOf([s \in next_ .. next_' - 1 |-> PktSize[s]])

(* A new incarnation: everything received is forgotten.                    *)
Reset ==
  /\ received' = {}
  /\ next_' = 0
  /\ UNCHANGED <<is_dup_, numToDeliver>>

Next == Reset \/ \E seq \in Seqs : Recv(seq)

Spec == Init /\ [][Next]_vars
===============================================================================
