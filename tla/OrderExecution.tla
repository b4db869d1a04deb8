---------------------------- MODULE OrderExecution ----------------------------
(***************************************************************************)
(* What order handling promises, whatever the timing: the master control   *)
(* extends one order at a time, the robot travels it element by element,   *)
(* and the next order starts only when the last one has been travelled to  *)
(* its end.  base and horizon are the VDA 5050 words for the released and  *)
(* the planned part of an order.                                           *)
(***************************************************************************)
EXTENDS Naturals

CONSTANT Lengths            \* the possible numbers of nodes of an order

VARIABLES
  horizon,                  \* nodes not yet released
  base                      \* released nodes and edges not yet travelled

vars == <<horizon, base>>

Init == horizon = 0 /\ base = 0

(* A node is released together with the edge that leads to it.             *)
NewOrder ==
  /\ horizon = 0 /\ base = 0
  /\ \E n \in Lengths : \E k \in 1..n : horizon' = n - k /\ base' = 2 * k

Extend ==
  \E k \in 1..horizon : horizon' = horizon - k /\ base' = base + 2 * k

Travel == base > 0 /\ base' = base - 1 /\ UNCHANGED horizon

Next == NewOrder \/ Extend \/ Travel

Spec == Init /\ [][Next]_vars
===============================================================================
