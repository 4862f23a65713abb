------------------------- MODULE OrderStatusMachine -------------------------
(***************************************************************************)
(* What the orders module promises of one order: its status starts pending *)
(* and moves along the transition table, one step at a time.               *)
(***************************************************************************)
EXTENDS OrderStatus

VARIABLE status

Pending == status \in {"PENDING_PAYMENT", "PENDING_CONFIRMATION"}
Move == status' \in Transitions[status]
Machine == Pending /\ [][Move]_status
=============================================================================
