------------------------------ MODULE MCPayments ------------------------------
(* Instances of Payments: payments of 2 and refunds of 1, 2 and 3.   *)
EXTENDS Payments, TLC

CONSTANTS r1, r2, r3, p1

Sizes == [r \in Refunds |-> CASE r = r1 -> 1 [] r = r2 -> 2 [] OTHER -> 3]
=============================================================================
